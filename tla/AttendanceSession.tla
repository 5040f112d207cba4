------------------------- MODULE AttendanceSession -------------------------
(***************************************************************************)
(* The working day's record: sessions (table Attendance), their breaks     *)
(* (table AttendanceBreak) and the requests and sweeps that read and write *)
(* them, src/src/attendance/attendance.service.ts.                         *)
(*                                                                         *)
(* The service keeps no state of its own and takes no lock: each request   *)
(* is a sequence of database calls, and any other request, on this server  *)
(* instance or another one, may run between two of them.  A step below is  *)
(* one database call (a $transaction is one) with the code that runs up to *)
(* the next one; what a request has read and still holds in its local      *)
(* variables is its `job`.                                                 *)
(***************************************************************************)
EXTENDS CompanyTime

CONSTANTS
  Employees,
  Sessions,      \* ids of Attendance rows
  Breaks,        \* ids of AttendanceBreak rows
  Requests,      \* slots for requests in flight (bot cards, admin REST)
  Sweepers,      \* slots for the timer's sweeps (they may overlap)
  Fallible,      \* the slots whose next database call may fail
  Shifts,        \* the shifts an admin may give an employee
  MaxNow,        \* bound on the clock
  None           \* null for ids

Procs == Requests \cup Sweepers

ASSUME SessionAssumption ==
  /\ Fallible \subseteq Procs
  /\ Shifts \subseteq ShiftRecords
  /\ MaxNow \in Nat
  /\ None \notin Employees \cup Sessions \cup Breaks
  /\ IsFiniteSet(Breaks)

VARIABLES
  now,       \* the wall clock
  shift,     \* employee -> the shift the employee is on
  session,   \* id -> Attendance row
  break,     \* id -> AttendanceBreak row
  job        \* slot -> the request it is serving, with its local variables

vars == <<now, shift, session, break, job>>

Statuses == {"checked_in", "on_break", "checked_out"}
OpenStatuses == {"checked_in", "on_break"}

NoSession == [status |-> "none", employee |-> None, checkIn |-> NoTime,
              checkOut |-> NoTime, autoCheckedOut |-> FALSE,
              workingMinutes |-> 0, breakMinutes |-> 0]

NoBreak == [session |-> None, start |-> NoTime, end |-> NoTime, duration |-> 0]

Idle == [op |-> "idle"]

Init ==
  /\ now = 0
  /\ shift \in [Employees -> Shifts]
  /\ session = [a \in Sessions |-> NoSession]
  /\ break = [b \in Breaks |-> NoBreak]
  /\ job = [p \in Procs |-> Idle]

-----------------------------------------------------------------------------
(* What the queries see *)

Exists(a) == session[a].status \in Statuses
IsOpen(a) == session[a].status \in OpenStatuses
IsClosed(a) == session[a].status = "checked_out"

BreaksOf(a) == {b \in Breaks : break[b].session = a}
OpenBreaksOf(a) == {b \in BreaksOf(a) : break[b].end = NoTime}

\* Mutant: a check-in at midnight sharp counts as yesterday's.
IsStale_atMidnight(a) == IsOpen(a) /\ session[a].checkIn <= StartOfDay(now)

\* Open, and checked in before today in the company's timezone.
IsStale(a) == IsOpen(a) /\ session[a].checkIn < StartOfDay(now)

\* The instants a session's breaks have recorded.
BreakStamps(a) ==
  {break[b].start : b \in BreaksOf(a)}
    \cup {break[b].end : b \in BreaksOf(a) \ OpenBreaksOf(a)}

BreakMinutesOf(a) == SumFunction([b \in BreaksOf(a) |-> break[b].duration])

NetMinutes(from, to, breakMinutes) ==
  Max({0, MinutesBetween(from, to) - breakMinutes})

(***************************************************************************)
(* What a sweep and a correction work out from the rows they read, and     *)
(* write later: session `a` is closed at `at`, its breaks `ids` with it,   *)
(* and `minutes` is what each of its breaks then counts for.               *)
(***************************************************************************)
Closing(a, at, ids, minutes) ==
  LET taken == SumFunction(minutes)
  IN  [session |-> a, at |-> at, breaks |-> ids, breakMinutes |-> taken,
       workingMinutes |-> NetMinutes(session[a].checkIn, at, taken)]

Cutoff(a) ==
  AutoCheckOutTime(session[a].checkIn, BreakStamps(a),
                   shift[session[a].employee])

\* Mutant: only the breaks that the sweep ends are counted.
AutoClosing_openOnly(a) ==
  Closing(a, Cutoff(a), OpenBreaksOf(a),
          [b \in OpenBreaksOf(a) |-> MinutesBetween(break[b].start, Cutoff(a))])

\* An open break counts up to the cut-off, an ended one for what it lasted.
AutoClosing(a) ==
  Closing(a, Cutoff(a), OpenBreaksOf(a),
          [b \in BreaksOf(a) |-> IF break[b].end = NoTime
                                 THEN MinutesBetween(break[b].start, Cutoff(a))
                                 ELSE break[b].duration])

\* Mutant: a break ended after the corrected time keeps its end.
CorrectedClosing_openOnly(a, at) ==
  Closing(a, at, OpenBreaksOf(a),
          [b \in BreaksOf(a) |->
             MinutesBetween(break[b].start,
                            IF break[b].end # NoTime /\ break[b].end < at
                            THEN break[b].end ELSE at)])

\* Every break is clipped to the corrected time.
CorrectedClosing(a, at) ==
  Closing(a, at,
          {b \in BreaksOf(a) : break[b].end = NoTime \/ break[b].end > at},
          [b \in BreaksOf(a) |->
             MinutesBetween(break[b].start,
                            IF break[b].end # NoTime /\ break[b].end < at
                            THEN break[b].end ELSE at)])

\* Mutant: people on a break are forgotten.
StaleClosings_workingOnly(emps) ==
  {AutoClosing(a) : a \in {s \in Sessions : /\ IsStale(s)
                                           /\ session[s].status = "checked_in"
                                           /\ session[s].employee \in emps}}

StaleClosings(emps) ==
  {AutoClosing(a) : a \in {s \in Sessions : IsStale(s) /\ session[s].employee \in emps}}

EndBreaks(ids, at) ==
  break' = [b \in Breaks |->
              IF b \in ids
              THEN [break[b] EXCEPT
                      !.end = at,
                      !.duration = MinutesBetween(break[b].start, at)]
              ELSE break[b]]

-----------------------------------------------------------------------------
(* Jobs.  `since` is when the code last heard from the database: a          *)
(* `new Date()` that it passes to the next call was read between then and   *)
(* the moment the call is executed.                                         *)

Proceed(p, next) == job' = [job EXCEPT ![p] = next]
Finish(p) == Proceed(p, Idle)

Stamps(p) == job[p].since .. now

\* Bounds of the model: there are rows left to create.
SessionsLeft == \E a \in Sessions : ~Exists(a)
BreaksLeft == \E b \in Breaks : break[b].session = None

-----------------------------------------------------------------------------
(* autoCheckOutStale: one query for the stale sessions and their breaks,   *)
(* then a transaction for each session that it returned.                   *)

Sweep(p) ==
  /\ p \in Sweepers
  /\ job[p] = Idle
  /\ StaleClosings(Employees) # {}
  /\ Proceed(p, [op |-> "sweep", todo |-> StaleClosings(Employees)])
  /\ UNCHANGED <<now, shift, session, break>>

\* The status of employee e is looked up, which sweeps e's sessions first.
GetStatus(p, e) ==
  /\ p \in Requests
  /\ job[p] = Idle
  /\ StaleClosings({e}) # {}
  /\ Proceed(p, [op |-> "sweep", todo |-> StaleClosings({e})])
  /\ UNCHANGED <<now, shift, session, break>>

\* Mutant: the update is not guarded on the status.
ApplyAutoClosing_unguarded(c) ==
  /\ session' = [session EXCEPT
                   ![c.session].checkOut = c.at,
                   ![c.session].status = "checked_out",
                   ![c.session].autoCheckedOut = TRUE,
                   ![c.session].workingMinutes = c.workingMinutes,
                   ![c.session].breakMinutes = c.breakMinutes]
  /\ EndBreaks(c.breaks, c.at)

\* Mutant: the open breaks are left open.
ApplyAutoClosing_breaksOpen(c) ==
  /\ session' = IF IsOpen(c.session)
                THEN [session EXCEPT
                        ![c.session].checkOut = c.at,
                        ![c.session].status = "checked_out",
                        ![c.session].autoCheckedOut = TRUE,
                        ![c.session].workingMinutes = c.workingMinutes,
                        ![c.session].breakMinutes = c.breakMinutes]
                ELSE session
  /\ UNCHANGED break

\* The transaction: closes the session unless it is no longer open.
ApplyAutoClosing(c) ==
  IF IsOpen(c.session)
  THEN /\ session' = [session EXCEPT
                        ![c.session].checkOut = c.at,
                        ![c.session].status = "checked_out",
                        ![c.session].autoCheckedOut = TRUE,
                        ![c.session].workingMinutes = c.workingMinutes,
                        ![c.session].breakMinutes = c.breakMinutes]
       /\ EndBreaks(c.breaks, c.at)
  ELSE UNCHANGED <<session, break>>

CloseStale(p) ==
  /\ job[p].op = "sweep"
  /\ \E c \in job[p].todo :
       /\ ApplyAutoClosing(c)
       /\ IF job[p].todo = {c} THEN Finish(p)
          ELSE Proceed(p, [job[p] EXCEPT !.todo = @ \ {c}])
  /\ UNCHANGED <<now, shift>>

-----------------------------------------------------------------------------
(* checkIn: sweeps the employee's own sessions, then opens a new one.  An  *)
(* open session of today is not looked for.                                *)

CheckIn(p, e) ==
  /\ p \in Requests
  /\ job[p] = Idle
  /\ SessionsLeft
  /\ Proceed(p, [op |-> "checkIn", employee |-> e,
                 todo |-> StaleClosings({e}), since |-> now])
  /\ UNCHANGED <<now, shift, session, break>>

CheckInCloseStale(p) ==
  /\ job[p].op = "checkIn"
  /\ \E c \in job[p].todo :
       /\ ApplyAutoClosing(c)
       /\ Proceed(p, [job[p] EXCEPT !.todo = @ \ {c}, !.since = now])
  /\ UNCHANGED <<now, shift>>

CheckInCreate(p) ==
  /\ job[p].op = "checkIn"
  /\ job[p].todo = {}
  /\ \E a \in Sessions, t \in Stamps(p) :
       /\ ~Exists(a)
       /\ session' = [session EXCEPT
                        ![a] = [NoSession EXCEPT !.status = "checked_in",
                                                 !.employee = job[p].employee,
                                                 !.checkIn = t]]
  /\ Finish(p)
  /\ UNCHANGED <<now, shift, break>>

-----------------------------------------------------------------------------
(* checkOut: the session and its breaks are read, then the row is          *)
(* overwritten whatever has become of it.  A break still open counts for   *)
(* the 0 minutes of its column and stays open.                             *)

\* Mutant: "Already checked out" is not tested.
CheckOut_again(p, a) ==
  /\ p \in Requests
  /\ job[p] = Idle
  /\ Exists(a)
  /\ Proceed(p, [op |-> "checkOut", session |-> a, since |-> now,
                 breakMinutes |-> BreakMinutesOf(a)])
  /\ UNCHANGED <<now, shift, session, break>>

CheckOut(p, a) ==
  /\ p \in Requests
  /\ job[p] = Idle
  /\ IsOpen(a)
  /\ Proceed(p, [op |-> "checkOut", session |-> a, since |-> now,
                 breakMinutes |-> BreakMinutesOf(a)])
  /\ UNCHANGED <<now, shift, session, break>>

CheckOutWrite(p) ==
  /\ job[p].op = "checkOut"
  /\ LET a == job[p].session
     IN  \E t \in Stamps(p) :
           session' = [session EXCEPT
                         ![a].checkOut = t,
                         ![a].status = "checked_out",
                         ![a].workingMinutes =
                            MinutesBetween(session[a].checkIn, t) - job[p].breakMinutes,
                         ![a].breakMinutes = job[p].breakMinutes]
  /\ Finish(p)
  /\ UNCHANGED <<now, shift, break>>

-----------------------------------------------------------------------------
(* correctCheckOut: a finished session gets another check-out time of its  *)
(* own day.  Both writes are one transaction, which does not look again.   *)

\* Mutant: a time before the check-in is accepted.
CorrectCheckOut_early(p, a, clock) ==
  LET at == AtClockTime(session[a].checkIn, clock)
  IN  /\ p \in Requests
      /\ job[p] = Idle
      /\ IsClosed(a)
      /\ at # NoTime
      /\ Proceed(p, [op |-> "correct", closing |-> CorrectedClosing(a, at)])
      /\ UNCHANGED <<now, shift, session, break>>

CorrectCheckOut(p, a, clock) ==
  LET at == AtClockTime(session[a].checkIn, clock)
  IN  /\ p \in Requests
      /\ job[p] = Idle
      /\ IsClosed(a)
      /\ at # NoTime
      /\ at > session[a].checkIn
      /\ at <= NextMidnight(session[a].checkIn)
      /\ Proceed(p, [op |-> "correct", closing |-> CorrectedClosing(a, at)])
      /\ UNCHANGED <<now, shift, session, break>>

CorrectWrite(p) ==
  /\ job[p].op = "correct"
  /\ LET c == job[p].closing
     IN  /\ EndBreaks(c.breaks, c.at)
         /\ session' = [session EXCEPT
                          ![c.session].checkOut = c.at,
                          ![c.session].workingMinutes = c.workingMinutes,
                          ![c.session].breakMinutes = c.breakMinutes,
                          ![c.session].autoCheckedOut = FALSE]
  /\ Finish(p)
  /\ UNCHANGED <<now, shift>>

-----------------------------------------------------------------------------
(* startBreak: read the status, flip it, insert the break. *)

\* Mutant: a break may be started during a break.
StartBreak_anyOpen(p, a) ==
  /\ p \in Requests
  /\ job[p] = Idle
  /\ IsOpen(a)
  /\ BreaksLeft
  /\ Proceed(p, [op |-> "startBreak", session |-> a])
  /\ UNCHANGED <<now, shift, session, break>>

StartBreak(p, a) ==
  /\ p \in Requests
  /\ job[p] = Idle
  /\ session[a].status = "checked_in"
  /\ BreaksLeft
  /\ Proceed(p, [op |-> "startBreak", session |-> a])
  /\ UNCHANGED <<now, shift, session, break>>

StartBreakFlip(p) ==
  /\ job[p].op = "startBreak"
  /\ session' = [session EXCEPT ![job[p].session].status = "on_break"]
  /\ Proceed(p, [op |-> "insertBreak", session |-> job[p].session, since |-> now])
  /\ UNCHANGED <<now, shift, break>>

StartBreakInsert(p) ==
  /\ job[p].op = "insertBreak"
  /\ \E b \in Breaks, t \in Stamps(p) :
       /\ break[b].session = None
       /\ break' = [break EXCEPT ![b] = [session |-> job[p].session, start |-> t,
                                         end |-> NoTime, duration |-> 0]]
  /\ Finish(p)
  /\ UNCHANGED <<now, shift, session>>

-----------------------------------------------------------------------------
(* endBreak: find the latest open break, end it, then flip the status of   *)
(* its session, which is not looked at.                                    *)

EndBreak(p, a) ==
  /\ p \in Requests
  /\ job[p] = Idle
  /\ \E b \in OpenBreaksOf(a) :
       /\ \A other \in OpenBreaksOf(a) : break[other].start <= break[b].start
       /\ Proceed(p, [op |-> "endBreak", break |-> b, since |-> now])
  /\ UNCHANGED <<now, shift, session, break>>

EndBreakWrite(p) ==
  /\ job[p].op = "endBreak"
  /\ \E t \in Stamps(p) : EndBreaks({job[p].break}, t)
  /\ Proceed(p, [op |-> "resume", session |-> break[job[p].break].session])
  /\ UNCHANGED <<now, shift, session>>

EndBreakFlip(p) ==
  /\ job[p].op = "resume"
  /\ session' = [session EXCEPT ![job[p].session].status = "checked_in"]
  /\ Finish(p)
  /\ UNCHANGED <<now, shift, break>>

-----------------------------------------------------------------------------
(* The environment *)

Tick ==
  /\ now < MaxNow
  /\ now' = now + 1
  /\ UNCHANGED <<shift, session, break, job>>

\* An admin gives the employee another shift, or changes the shift's times.
ChangeShift(e) ==
  /\ \E s \in Shifts : shift' = [shift EXCEPT ![e] = s]
  /\ UNCHANGED <<now, session, break, job>>

\* The next database call of the job fails, or the server stops: what has
\* been written stays, the rest of the job is never run.
Fail(p) ==
  /\ p \in Fallible
  /\ job[p] # Idle
  /\ Finish(p)
  /\ UNCHANGED <<now, shift, session, break>>

Step(p) ==
  \/ CloseStale(p)
  \/ CheckInCloseStale(p) \/ CheckInCreate(p)
  \/ CheckOutWrite(p)
  \/ CorrectWrite(p)
  \/ StartBreakFlip(p) \/ StartBreakInsert(p)
  \/ EndBreakWrite(p) \/ EndBreakFlip(p)

Next ==
  \/ Tick
  \/ \E e \in Employees : ChangeShift(e)
  \/ \E p \in Procs :
       \/ Sweep(p)
       \/ \E e \in Employees : CheckIn(p, e) \/ GetStatus(p, e)
       \/ \E a \in Sessions :
            \/ CheckOut(p, a) \/ StartBreak(p, a) \/ EndBreak(p, a)
            \/ \E clock \in Clocks : CorrectCheckOut(p, a, clock)
       \/ Step(p)
       \/ Fail(p)

Spec == Init /\ [][Next]_vars

\* The timer sweeps every five minutes and a sweep runs to its end; nobody has
\* to press a button.
SweeperFairness ==
  \A p \in Sweepers : WF_vars(Sweep(p)) /\ WF_vars(CloseStale(p))

FairSpec == Spec /\ WF_vars(Tick) /\ SweeperFairness

-----------------------------------------------------------------------------
(* Types *)

Times == Instants \cup {NoTime}

SessionRows ==
  [status : Statuses \cup {"none"}, employee : Employees \cup {None},
   checkIn : Times, checkOut : Times, autoCheckedOut : BOOLEAN,
   workingMinutes : Int, breakMinutes : Int]

BreakRows ==
  [session : Sessions \cup {None}, start : Times, end : Times, duration : Nat]

Closings ==
  [session : Sessions, at : Instants, breaks : SUBSET Breaks,
   breakMinutes : Nat, workingMinutes : Nat]

Jobs ==
  {Idle}
    \cup [op : {"sweep"}, todo : SUBSET Closings]
    \cup [op : {"checkIn"}, employee : Employees, todo : SUBSET Closings, since : Instants]
    \cup [op : {"checkOut"}, session : Sessions, since : Instants, breakMinutes : Nat]
    \cup [op : {"correct"}, closing : Closings]
    \cup [op : {"startBreak", "resume"}, session : Sessions]
    \cup [op : {"insertBreak"}, session : Sessions, since : Instants]
    \cup [op : {"endBreak"}, break : Breaks, since : Instants]

TypeOK ==
  /\ now \in Instants
  /\ shift \in [Employees -> Shifts]
  /\ session \in [Sessions -> SessionRows]
  /\ break \in [Breaks -> BreakRows]
  /\ job \in [Procs -> Jobs]

-----------------------------------------------------------------------------
(* Whatever the interleaving and whatever fails *)

\* Rows are whole: a session has an employee and a check-in that is past, a
\* break a session and a start.
RowsFaithful ==
  /\ \A a \in Sessions :
       Exists(a) => /\ session[a].employee \in Employees
                    /\ session[a].checkIn \in 0 .. now
  /\ \A b \in Breaks :
       break[b].session # None => /\ Exists(break[b].session)
                                  /\ break[b].start \in Instants

\* The closing lies within the day of its session.
InItsDay(c) ==
  /\ Exists(c.session)
  /\ session[c.session].checkIn < c.at
  /\ c.at <= NextMidnight(session[c.session].checkIn)

JobFaithful(p) ==
  LET j == job[p]
  IN  /\ j.op \in {"sweep", "checkIn"} =>
           \A c \in j.todo :
             InItsDay(c) /\ NextMidnight(session[c.session].checkIn) <= now
      /\ j.op = "correct" => InItsDay(j.closing)
      /\ j.op \in {"startBreak", "insertBreak", "resume"} => Exists(j.session)
      /\ j.op = "checkOut" => /\ Exists(j.session)
                              /\ session[j.session].checkIn <= j.since
      /\ j.op = "endBreak" => break[j.break].session # None

\* Whatever other requests have written since, what a job read of its session
\* and is about to write from is still right where the later write relies on
\* it: the session exists, a sweep's day is over, the recorded time lies within
\* the session's own day (the reads and writes of attendance.service.ts
\* 61-317, with other requests between them).
ReadsStayTrue == RowsFaithful /\ \A p \in Procs : JobFaithful(p)

\* A sweep closes open sessions only, and only of days that are over; the
\* check-out it records is after the check-in and not after the midnight that
\* ended the session's own day - though its rows were read some calls earlier
\* (autoCheckOutStale, lines 121-178, and autoCheckOutTime).
SweepKeepsToTheDay ==
  [][\A a \in Sessions :
       ~session[a].autoCheckedOut /\ session'[a].autoCheckedOut
         => /\ IsOpen(a)
            /\ session'[a].status = "checked_out"
            /\ session'[a].checkIn < session'[a].checkOut
            /\ session'[a].checkOut <= NextMidnight(session'[a].checkIn)
            /\ NextMidnight(session'[a].checkIn) <= now]_vars

-----------------------------------------------------------------------------
(* The lifecycle that the calls implement *)

Phase(status) ==
  CASE status = "none"        -> "none"
    [] status = "checked_out" -> "closed"
    [] OTHER                  -> "open"

Entry ==
  [a \in Sessions |-> [phase |-> Phase(session[a].status),
                       in |-> session[a].checkIn, out |-> session[a].checkOut,
                       auto |-> session[a].autoCheckedOut]]

Racing == INSTANCE SessionLifecycle WITH
            clock <- now, entry <- Entry, OneAtATime <- FALSE
Serial == INSTANCE SessionLifecycle WITH
            clock <- now, entry <- Entry, OneAtATime <- TRUE

\* Whatever overlaps and whatever fails, every database call does to a session
\* what one operation of the lifecycle does, or nothing: a sweep in particular
\* never touches a session somebody else has closed since it was read, and no
\* writer records a check-out before the check-in or a correction outside the
\* session's own day.
RacingContract == Racing!Spec

\* When requests run one after the other a person's write moreover finds the
\* session as it was read, and a session a sweep has closed is not reopened.
SerialContract == Serial!Spec

-----------------------------------------------------------------------------
(* When requests run one after the other *)

Quiet == \A p \in Procs : job[p] = Idle

\* "On break" and "has an open break" are the same for a session that is open,
\* and there is never a second open break: what the buttons offered to the
\* employee (start, end) rely on (startBreak 265-285, endBreak 287-317).
OnBreakIffOpenBreak ==
  Quiet => \A a \in Sessions :
             IsOpen(a) => /\ Cardinality(OpenBreaksOf(a)) <= 1
                          /\ session[a].status = "on_break" <=> OpenBreaksOf(a) # {}

\* The minutes of a closed session are those of its breaks, and the minutes
\* worked are the rest of the time between check-in and check-out, never
\* negative, whichever of checkOut, the sweep and correctCheckOut came last.
MinutesAddUp ==
  Quiet => \A a \in Sessions :
             IsClosed(a) =>
               LET s == session[a]
               IN  /\ s.breakMinutes = BreakMinutesOf(a)
                   /\ s.workingMinutes =
                        NetMinutes(s.checkIn, s.checkOut, s.breakMinutes)

\* A sweep leaves no break of the session open ("An open break is closed at
\* that time too", attendance.service.ts:118).
AutoCloseEndsBreaks ==
  Quiet => \A a \in Sessions : session[a].autoCheckedOut => OpenBreaksOf(a) = {}

\* The flag "closed by the midnight sweep, not the employee" (schema.prisma:154)
\* stands only on check-outs a sweep can have recorded, whatever a check-out, a
\* correction or a session reopened has done to the row since.
AutoFlagTruthful ==
  \A a \in Sessions :
    session[a].autoCheckedOut
      => session[a].checkOut <= NextMidnight(session[a].checkIn)

-----------------------------------------------------------------------------
(* Liveness *)

\* A session left open is closed in the end, by a sweep if by nobody else,
\* although requests may fail half-way.
StaleIsClosed ==
  \A a \in Sessions : IsStale(a) ~> ~IsStale(a)
=============================================================================
