------------------------- MODULE LeaveRequests_proofs -------------------------
(***************************************************************************)
(* That comparing dates and clock times finds every shared minute, for any *)
(* calendar; and, for any number of employees, leaves and requests at      *)
(* once, when live leaves clash and what employees were told last.  Last,  *)
(* the balance of a year.                                                  *)
(***************************************************************************)
EXTENDS LeaveBalance, CompanyTime_proofs

LEMMA ClockTimesAreNumbers == \A t \in ClockTimes : t \in Int /\ t # Blank
BY LeaveAssumption, ClockAssumption DEF ClockTimes

LEMMA PeriodFields ==
  ASSUME NEW p \in Periods
  PROVE  /\ p.first \in Int /\ p.last \in Int /\ p.first <= p.last
         /\ p.from # Blank => /\ p.from \in ClockTimes /\ p.to \in ClockTimes
                              /\ p.from < p.to /\ p.first = p.last
         /\ p.from = Blank => p.to = Blank
BY DEF Periods, Days

\* Two periods clash exactly when they share a minute of the calendar.
THEOREM ClashIsOverlap ==
  ASSUME NEW p \in Periods, NEW q \in Periods
  PROVE  Clash(p, q) <=> Covers(p) \cap Covers(q) # {}
<1>1. ASSUME Covers(p) \cap Covers(q) # {} PROVE Clash(p, q)
  <2>1. PICK t : t \in Covers(p) /\ t \in Covers(q)
    BY <1>1
  <2>2. /\ t[1] \in p.first .. p.last /\ t[1] \in q.first .. q.last
        /\ t[2] \in ClockTimes
        /\ p.from = Blank \/ (p.from <= t[2] /\ t[2] < p.to)
        /\ q.from = Blank \/ (q.from <= t[2] /\ t[2] < q.to)
    BY <2>1 DEF Covers
  <2>3. p.first <= q.last /\ q.first <= p.last
    BY <2>2, PeriodFields
  <2>4. t[2] \in Int
    BY <2>2, ClockTimesAreNumbers
  <2>5. p.from # Blank /\ q.from # Blank => p.from < q.to /\ q.from < p.to
    BY <2>2, <2>4, PeriodFields, ClockTimesAreNumbers
  <2> QED BY <2>3, <2>5 DEF Clash
<1>2. ASSUME Clash(p, q) PROVE Covers(p) \cap Covers(q) # {}
  <2>1. p.first <= q.last /\ q.first <= p.last
    BY <1>2 DEF Clash
  <2>2. PICK d : d \in p.first .. p.last /\ d \in q.first .. q.last
    <3>1. CASE p.first <= q.first
      BY <2>1, <3>1, PeriodFields
    <3>2. CASE q.first <= p.first
      BY <2>1, <3>2, PeriodFields
    <3> QED BY <3>1, <3>2, PeriodFields
  <2>3. PICK m \in ClockTimes : /\ p.from = Blank \/ (p.from <= m /\ m < p.to)
                                /\ q.from = Blank \/ (q.from <= m /\ m < q.to)
    <3>1. CASE p.from = Blank /\ q.from = Blank
      <4>1. 0 \in ClockTimes
        BY ClockAssumption DEF ClockTimes
      <4> QED BY <3>1, <4>1
    <3>2. CASE p.from = Blank /\ q.from # Blank
      BY <3>2, PeriodFields, ClockTimesAreNumbers
    <3>3. CASE p.from # Blank /\ q.from = Blank
      BY <3>3, PeriodFields, ClockTimesAreNumbers
    <3>4. CASE p.from # Blank /\ q.from # Blank
      <4>1. p.from < q.to /\ q.from < p.to
        BY <1>2, <3>4 DEF Clash
      <4>2. CASE p.from <= q.from
        BY <3>4, <4>1, <4>2, PeriodFields, ClockTimesAreNumbers
      <4>3. CASE q.from <= p.from
        BY <3>4, <4>1, <4>3, PeriodFields, ClockTimesAreNumbers
      <4> QED BY <3>4, <4>2, <4>3, PeriodFields, ClockTimesAreNumbers
    <3> QED BY <3>1, <3>2, <3>3, <3>4
  <2>4. <<d, m>> \in Covers(p) /\ <<d, m>> \in Covers(q)
    BY <2>2, <2>3 DEF Covers
  <2> QED BY <2>4
<1> QED BY <1>1, <1>2

\* An accepted form is stored as a period in order.
LEMMA AcceptedIsPeriod ==
  ASSUME NEW form \in Wishes, Accepted(form)
  PROVE  Period(form) \in Periods
<1>1. form \in Forms
  BY LeaveAssumption
<1>2. CASE IsFullDay(form)
  BY <1>1, <1>2 DEF Forms, Accepted, Period, Periods, IsFullDay
<1>3. CASE ~IsFullDay(form)
  <2>1. form.from \in ClockTimes /\ form.to \in ClockTimes /\ form.from < form.to
    BY <1>3, ClockTimesAreNumbers DEF Accepted
  <2>2. form.start \in Days /\ form.start <= form.start
    BY <1>1 DEF Forms, Days
  <2> QED BY <1>3, <2>1, <2>2, ClockTimesAreNumbers DEF Period, Periods
<1> QED BY <1>2, <1>3

-----------------------------------------------------------------------------
(* Types *)

\* A job decides, announces or withdraws a leave that exists.
JobsFound ==
  \A p \in Requests :
    job[p].op \in {"decide", "tell", "cancel"} => leave[job[p].leave].status # "none"

TInv == TypeOK /\ JobsFound

LEMMA JobFields ==
  ASSUME TypeOK, NEW p \in Requests
  PROVE  /\ job[p].op = "create" =>
              /\ job[p].employee \in Employees /\ job[p].period \in Periods
              /\ job[p].before \subseteq Leaves
         /\ job[p].op = "decide" => job[p].leave \in Leaves /\ job[p].status \in Statuses
         /\ job[p].op = "tell" => /\ job[p].leave \in Leaves /\ job[p].status \in Outcomes
                                  /\ job[p].overtaken \in BOOLEAN
         /\ job[p].op = "cancel" => job[p].leave \in Leaves
<1>1. job[p] \in Jobs
  BY DEF TypeOK
<1> QED BY <1>1 DEF Jobs, Idle

LEMMA IdleIsAJob == Idle \in Jobs /\ Idle.op = "idle"
BY DEF Jobs, Idle

\* A leave's status is replaced.
LEMMA StatusSet ==
  ASSUME TypeOK, NEW l \in Leaves, leave[l].status # "none",
         NEW status \in Statuses, SetStatus(l, status)
  PROVE  /\ leave' \in [Leaves -> LeaveRows \cup {Unused}]
         /\ leave'[l].status = status
         /\ leave'[l].employee = leave[l].employee
         /\ leave'[l].period = leave[l].period
         /\ leave'[l].before = leave[l].before
         /\ leave'[l].revived
              <=> leave[l].revived \/ (leave[l].status \notin Live /\ status \in Live)
         /\ \A k \in Leaves \ {l} : leave'[k] = leave[k]
<1>1. leave[l] \in LeaveRows
  BY DEF TypeOK, Unused
<1> DEFINE again == leave[l].revived \/ (leave[l].status \notin Live /\ status \in Live)
           row == [leave[l] EXCEPT !.status = status, !.revived = again]
<1>2. leave' = [leave EXCEPT ![l] = row]
  BY DEF SetStatus
<1>3. again \in BOOLEAN
  BY <1>1 DEF LeaveRows
<1>4. /\ row \in LeaveRows
      /\ row.status = status /\ row.employee = leave[l].employee
      /\ row.period = leave[l].period /\ row.before = leave[l].before
      /\ row.revived = again
  <2> HIDE DEF again
  <2> QED BY <1>1, <1>3 DEF LeaveRows
<1>5. /\ leave'[l] = row /\ leave' \in [Leaves -> LeaveRows \cup {Unused}]
      /\ \A k \in Leaves \ {l} : leave'[k] = leave[k]
  <2> HIDE DEF row
  <2> QED BY <1>2, <1>4 DEF TypeOK
<1> HIDE DEF row
<1> QED BY <1>4, <1>5

\* One slot moves on.
LEMMA OneSlot ==
  ASSUME TypeOK, NEW p \in Requests, NEW next \in Jobs, Proceed(p, next)
  PROVE  /\ job' \in [Requests -> Jobs] /\ job'[p] = next
         /\ \A q \in Requests \ {p} : job'[q] = job[q]
BY DEF TypeOK, Proceed

\* One slot moves on, and others are overtaken.
LEMMA SlotOvertakes ==
  ASSUME TypeOK, NEW p \in Requests, NEW next \in Jobs, NEW l \in Leaves,
         Overtake(p, next, l)
  PROVE  /\ job' \in [Requests -> Jobs] /\ job'[p] = next
         /\ \A q \in Requests \ {p} :
              IF job[q].op = "tell" /\ job[q].leave = l
              THEN /\ job'[q].op = "tell" /\ job'[q].leave = l
                   /\ job'[q].overtaken
              ELSE job'[q] = job[q]
<1>1. ASSUME NEW q \in Requests \ {p}, job[q].op = "tell", job[q].leave = l
      PROVE  /\ job'[q] \in Jobs
             /\ job'[q].op = "tell" /\ job'[q].leave = l /\ job'[q].overtaken
  <2>1. job'[q] = [job[q] EXCEPT !.overtaken = TRUE]
    BY <1>1 DEF Overtake
  <2>2. job[q] \in [op : {"tell"}, leave : Leaves, status : Outcomes, overtaken : BOOLEAN]
    BY <1>1 DEF TypeOK, Jobs, Idle
  <2>3. job'[q] \in [op : {"tell"}, leave : Leaves, status : Outcomes, overtaken : BOOLEAN]
    BY <2>1, <2>2
  <2> QED BY <1>1, <2>1, <2>2, <2>3 DEF Jobs
<1>2. ASSUME NEW q \in Requests \ {p}, ~(job[q].op = "tell" /\ job[q].leave = l)
      PROVE  job'[q] = job[q] /\ job'[q] \in Jobs
  BY <1>2 DEF Overtake, TypeOK
<1>3. job'[p] = next
  BY DEF Overtake
<1>4. job' \in [Requests -> Jobs]
  <2>1. \A q \in Requests : job'[q] \in Jobs
    BY <1>1, <1>2, <1>3
  <2>2. job' = [q \in Requests |-> job'[q]]
    BY DEF Overtake
  <2> QED BY <2>1, <2>2
<1> QED BY <1>1, <1>2, <1>3, <1>4

\* Leaves that exist go on existing, and with them what the other slots serve.
LEMMA OthersFound ==
  ASSUME TInv, NEW p \in Requests, NEW next \in Jobs,
         Proceed(p, next) \/ \E l \in Leaves : Overtake(p, next, l),
         leave' \in [Leaves -> LeaveRows \cup {Unused}],
         told' \in [Leaves -> [outcome : Outcomes \cup {"nothing"}, current : BOOLEAN]],
         UNCHANGED today,
         \A l \in Leaves : leave[l].status # "none" => leave'[l].status # "none",
         next.op \in {"decide", "tell", "cancel"} => leave'[next.leave].status # "none"
  PROVE  TInv'
<1>1. /\ job' \in [Requests -> Jobs] /\ job'[p] = next
      /\ \A q \in Requests \ {p} :
           \/ job'[q] = job[q]
           \/ job'[q].op = job[q].op /\ job'[q].leave = job[q].leave
  <2>1. CASE Proceed(p, next)
    BY <2>1, OneSlot DEF TInv
  <2>2. CASE \E l \in Leaves : Overtake(p, next, l)
    <3>1. PICK l \in Leaves : Overtake(p, next, l)
      BY <2>2
    <3>2. /\ job' \in [Requests -> Jobs] /\ job'[p] = next
          /\ \A q \in Requests \ {p} :
               IF job[q].op = "tell" /\ job[q].leave = l
               THEN /\ job'[q].op = "tell" /\ job'[q].leave = l
                    /\ job'[q].overtaken
               ELSE job'[q] = job[q]
      BY <3>1, SlotOvertakes DEF TInv
    <3> QED BY <3>2
  <2> QED BY <2>1, <2>2
<1>2. TypeOK'
  BY <1>1 DEF TInv, TypeOK
<1>3. ASSUME NEW q \in Requests, job'[q].op \in {"decide", "tell", "cancel"}
      PROVE  leave'[job'[q].leave].status # "none"
  <2>1. CASE q = p
    BY <1>1, <1>3, <2>1
  <2>2. CASE q # p
    <3>1. job[q].op \in {"decide", "tell", "cancel"} /\ job'[q].leave = job[q].leave
      BY <1>1, <1>3, <2>2
    <3>2. job[q].leave \in Leaves /\ leave[job[q].leave].status # "none"
      BY <3>1, JobFields DEF TInv, JobsFound
    <3> QED BY <3>1, <3>2
  <2> QED BY <2>1, <2>2
<1> QED BY <1>2, <1>3 DEF TInv, JobsFound

LEMMA InitTypes == Init => TInv
<1> SUFFICES ASSUME Init PROVE TInv
  OBVIOUS
<1>1. TypeOK
  BY LeaveAssumption, IdleIsAJob DEF Init, TypeOK, Days
<1>2. JobsFound
  BY DEF Init, JobsFound, Idle
<1> QED BY <1>1, <1>2 DEF TInv

LEMMA StepTypes == TInv /\ [Next]_vars => TInv'
<1> SUFFICES ASSUME TInv, [Next]_vars
             PROVE  TInv'
  OBVIOUS
<1>1. ASSUME NextDay PROVE TInv'
  <2>1. today' \in Days
    BY <1>1, LeaveAssumption DEF NextDay, TInv, TypeOK, Days
  <2> QED BY <1>1, <2>1 DEF NextDay, TInv, TypeOK, JobsFound
<1>2. ASSUME NEW p \in Requests, NEW e \in Employees, NEW form \in Wishes, Apply(p, e, form)
      PROVE  TInv'
  <2> DEFINE next == [op |-> "create", employee |-> e, period |-> Period(form),
                      before |-> Rows]
  <2>1. next \in Jobs
    <3>1. Period(form) \in Periods /\ Rows \in SUBSET Leaves
      BY <1>2, AcceptedIsPeriod DEF Apply, Rows
    <3> QED BY <3>1 DEF Jobs
  <2>2. Proceed(p, next) /\ UNCHANGED <<today, leave, told>> /\ next.op = "create"
    BY <1>2 DEF Apply
  <2> HIDE DEF next
  <2> QED BY <2>1, <2>2, OthersFound DEF TInv, TypeOK
<1>3. ASSUME NEW p \in Requests, NEW l \in Leaves, NEW status \in Statuses,
             Decide(p, l, status)
      PROVE  TInv'
  <2> DEFINE next == [op |-> "decide", leave |-> l, status |-> status]
  <2>1. next \in Jobs
    BY DEF Jobs
  <2>2. /\ Proceed(p, next) /\ UNCHANGED <<today, leave, told>>
        /\ next.leave = l /\ leave[l].status # "none"
    BY <1>3 DEF Decide
  <2> HIDE DEF next
  <2> QED BY <2>1, <2>2, OthersFound DEF TInv, TypeOK
<1>4. ASSUME NEW p \in Requests, NEW l \in Leaves, NEW byAdmin \in BOOLEAN,
             Cancel(p, l, byAdmin)
      PROVE  TInv'
  <2> DEFINE next == [op |-> "cancel", leave |-> l]
  <2>1. next \in Jobs
    BY DEF Jobs
  <2>2. /\ Proceed(p, next) /\ UNCHANGED <<today, leave, told>>
        /\ next.leave = l /\ leave[l].status # "none"
    BY <1>4 DEF Cancel, Live
  <2> HIDE DEF next
  <2> QED BY <2>1, <2>2, OthersFound DEF TInv, TypeOK
<1>5. ASSUME NEW p \in Requests, Create(p) PROVE TInv'
  <2> DEFINE row == [status |-> "PENDING", employee |-> job[p].employee,
                     period |-> job[p].period, before |-> job[p].before,
                     revived |-> FALSE]
  <2>1. PICK l \in Leaves : leave[l].status = "none" /\ leave' = [leave EXCEPT ![l] = row]
    BY <1>5 DEF Create
  <2>2. /\ job[p].employee \in Employees /\ job[p].period \in Periods
        /\ job[p].before \in SUBSET Leaves
    BY <1>5, JobFields DEF Create, TInv
  <2>3. row \in LeaveRows /\ row.status = "PENDING"
    BY <2>2 DEF LeaveRows, Statuses
  <2> HIDE DEF row
  <2>4. /\ leave' \in [Leaves -> LeaveRows \cup {Unused}]
        /\ leave'[l].status = "PENDING"
        /\ \A k \in Leaves \ {l} : leave'[k] = leave[k]
    BY <2>1, <2>3 DEF TInv, TypeOK
  <2>5. \A k \in Leaves : leave[k].status # "none" => leave'[k].status # "none"
    BY <2>4
  <2>6. Proceed(p, Idle) /\ UNCHANGED <<today, told>>
    BY <1>5 DEF Create, Finish
  <2> QED BY <2>4, <2>5, <2>6, IdleIsAJob, OthersFound DEF TInv, TypeOK
<1>6. ASSUME NEW p \in Requests, DecideWrite(p) PROVE TInv'
  <2>1. /\ job[p].leave \in Leaves /\ job[p].status \in Statuses
        /\ leave[job[p].leave].status # "none"
    BY <1>6, JobFields DEF DecideWrite, TInv, JobsFound
  <2>2. /\ leave' \in [Leaves -> LeaveRows \cup {Unused}]
        /\ leave'[job[p].leave].status # "none"
        /\ \A k \in Leaves : leave[k].status # "none" => leave'[k].status # "none"
    <3>1. SetStatus(job[p].leave, job[p].status) /\ TypeOK
      BY <1>6 DEF DecideWrite, TInv
    <3> QED BY <2>1, <3>1, StatusSet DEF Statuses
  <2> DEFINE next == IF job[p].status \in Outcomes THEN Announcement(p) ELSE Idle
  <2>3. next \in Jobs /\ (next.op # "idle" => next.leave = job[p].leave)
    BY <2>1, IdleIsAJob DEF Jobs, Announcement
  <2>4. Overtake(p, next, job[p].leave) /\ UNCHANGED <<today, told>>
    BY <1>6 DEF DecideWrite
  <2> HIDE DEF next
  <2> QED BY <2>1, <2>2, <2>3, <2>4, OthersFound DEF TInv, TypeOK
<1>7. ASSUME NEW p \in Requests, Tell(p) PROVE TInv'
  <2>1. /\ job[p].leave \in Leaves /\ job[p].status \in Outcomes
        /\ job[p].overtaken \in BOOLEAN
    BY <1>7, JobFields DEF Tell, TInv
  <2>2. told' \in [Leaves -> [outcome : Outcomes \cup {"nothing"}, current : BOOLEAN]]
    BY <1>7, <2>1 DEF Tell, TInv, TypeOK
  <2> QED BY <1>7, <2>2, IdleIsAJob, OthersFound DEF Tell, Finish, TInv, TypeOK
<1>8. ASSUME NEW p \in Requests, CancelWrite(p) PROVE TInv'
  <2>1. job[p].leave \in Leaves /\ leave[job[p].leave].status # "none"
    BY <1>8, JobFields DEF CancelWrite, TInv, JobsFound
  <2>2. /\ leave' \in [Leaves -> LeaveRows \cup {Unused}]
        /\ \A k \in Leaves : leave[k].status # "none" => leave'[k].status # "none"
    <3>1. SetStatus(job[p].leave, "CANCELLED") /\ TypeOK /\ "CANCELLED" \in Statuses
      BY <1>8 DEF CancelWrite, TInv, Statuses
    <3> QED BY <2>1, <3>1, StatusSet
  <2>3. Overtake(p, Idle, job[p].leave) /\ UNCHANGED <<today, told>>
    BY <1>8 DEF CancelWrite
  <2> QED BY <2>1, <2>2, <2>3, IdleIsAJob, OthersFound DEF TInv, TypeOK
<1>9. ASSUME NEW p \in Requests, Fail(p) PROVE TInv'
  <2>1. told' \in [Leaves -> [outcome : Outcomes \cup {"nothing"}, current : BOOLEAN]]
    BY <1>9 DEF Fail, TInv, TypeOK
  <2> QED BY <1>9, <2>1, IdleIsAJob, OthersFound DEF Fail, Finish, TInv, TypeOK
<1>10. CASE UNCHANGED vars
  BY <1>10 DEF vars, TInv, TypeOK, JobsFound
<1> QED BY <1>1, <1>2, <1>3, <1>4, <1>5, <1>6, <1>7, <1>8, <1>9, <1>10 DEF Next

\* Rows, jobs and notifications keep their types, and a job's leave exists.
THEOREM LeaveTypes == Spec => []TInv
BY InitTypes, StepTypes, PTL DEF Spec

\* The type invariant, for any number of leaves, employees and requests at once.
THEOREM LeaveTypesCorrect == Spec => []TypeOK
BY LeaveTypes, PTL DEF TInv

-----------------------------------------------------------------------------
(* What becomes of a row *)

\* The row that a request creates.
NewRow(p) ==
  [status |-> "PENDING", employee |-> job[p].employee, period |-> job[p].period,
   before |-> job[p].before, revived |-> FALSE]

\* Which calls change a row, and how.
LEMMA RowChanges ==
  ASSUME TInv, [Next]_vars, NEW l \in Leaves
  PROVE  \/ leave'[l] = leave[l]
         \/ \E p \in Requests :
              /\ job[p].op = "create" /\ leave[l].status = "none"
              /\ leave'[l] = NewRow(p)
              /\ \A k \in Leaves \ {l} : leave'[k] = leave[k]
         \/ \E status \in Statuses : leave[l].status # "none" /\ SetStatus(l, status)
<1>1. ASSUME NEW p \in Requests, Create(p), leave'[l] # leave[l]
      PROVE  /\ job[p].op = "create" /\ leave[l].status = "none"
             /\ leave'[l] = NewRow(p)
             /\ \A k \in Leaves \ {l} : leave'[k] = leave[k]
  BY <1>1 DEF Create, NewRow, TInv, TypeOK
<1>2. ASSUME NEW k \in Leaves, NEW status \in Statuses, SetStatus(k, status),
             leave[k].status # "none"
      PROVE  \/ leave'[l] = leave[l]
             \/ leave[l].status # "none" /\ SetStatus(l, status)
  <2>1. CASE l = k
    BY <1>2, <2>1
  <2>2. CASE l # k
    BY <1>2, <2>2, StatusSet DEF TInv
  <2> QED BY <2>1, <2>2
<1>3. ASSUME NEW p \in Requests, DecideWrite(p)
      PROVE  \/ leave'[l] = leave[l]
             \/ \E status \in Statuses : leave[l].status # "none" /\ SetStatus(l, status)
  <2>1. /\ job[p].leave \in Leaves /\ job[p].status \in Statuses
        /\ leave[job[p].leave].status # "none" /\ SetStatus(job[p].leave, job[p].status)
    BY <1>3, JobFields DEF DecideWrite, TInv, JobsFound
  <2> QED BY <2>1, <1>2
<1>4. ASSUME NEW p \in Requests, CancelWrite(p)
      PROVE  \/ leave'[l] = leave[l]
             \/ \E status \in Statuses : leave[l].status # "none" /\ SetStatus(l, status)
  <2>1. /\ job[p].leave \in Leaves /\ "CANCELLED" \in Statuses
        /\ leave[job[p].leave].status # "none" /\ SetStatus(job[p].leave, "CANCELLED")
    BY <1>4, JobFields DEF CancelWrite, TInv, JobsFound, Statuses
  <2> QED BY <2>1, <1>2
<1>5. \/ leave' = leave
      \/ \E p \in Requests : Create(p) \/ DecideWrite(p) \/ CancelWrite(p)
  BY DEF Next, vars, NextDay, Apply, Decide, Cancel, Tell, Fail
<1> QED BY <1>1, <1>3, <1>4, <1>5

\* Of a row that exists only the status changes, and it is known whether it has
\* been live all the time.
LEMMA RowsStay ==
  ASSUME TInv, [Next]_vars, NEW l \in Leaves, leave[l].status # "none"
  PROVE  /\ leave'[l].status # "none"
         /\ leave'[l].employee = leave[l].employee
         /\ leave'[l].period = leave[l].period
         /\ leave'[l].before = leave[l].before
         /\ leave'[l].status \in Live /\ ~leave'[l].revived
              => leave[l].status \in Live /\ ~leave[l].revived
<1>1. CASE leave'[l] = leave[l]
  BY <1>1
<1>2. ASSUME NEW status \in Statuses, SetStatus(l, status)
      PROVE  /\ leave'[l].status # "none"
             /\ leave'[l].employee = leave[l].employee
             /\ leave'[l].period = leave[l].period
             /\ leave'[l].before = leave[l].before
             /\ leave'[l].status \in Live /\ ~leave'[l].revived
                  => leave[l].status \in Live /\ ~leave[l].revived
  BY <1>2, StatusSet DEF TInv, Statuses
<1> QED BY <1>1, <1>2, RowChanges

-----------------------------------------------------------------------------
(* Clashes.  A row, or a request about to become one, clashes with none of *)
(* the leaves there were at its check that have been live ever since.      *)

RowsApart ==
  \A l, k \in Leaves :
    /\ leave[l].status # "none" /\ k \in leave[l].before
    => /\ leave[k].status # "none"
       /\ l # k /\ leave[k].status \in Live /\ ~leave[k].revived
          /\ leave[l].employee = leave[k].employee
            => ~Share(l, k)

RequestApart(p) ==
  job[p].op = "create" =>
    \A k \in job[p].before :
      /\ leave[k].status # "none"
      /\ leave[k].status \in Live /\ ~leave[k].revived
         /\ job[p].employee = leave[k].employee
           => ~Clash(job[p].period, leave[k].period)

CInv == TInv /\ RowsApart /\ \A p \in Requests : RequestApart(p)

LEMMA InitApart == Init => CInv
<1> SUFFICES ASSUME Init PROVE CInv
  OBVIOUS
<1>1. RowsApart
  BY DEF Init, RowsApart, Unused
<1>2. \A p \in Requests : RequestApart(p)
  BY DEF Init, RequestApart, Idle
<1> QED BY <1>1, <1>2, InitTypes DEF CInv

\* A request to create is one just checked, or the one there was.
LEMMA RequestsStay ==
  ASSUME TInv, [Next]_vars, NEW p \in Requests, job'[p].op = "create"
  PROVE  \/ job'[p] = job[p]
         \/ \E e \in Employees, form \in Wishes : Apply(p, e, form)
<1>1. ASSUME NEW q \in Requests, NEW next \in Jobs, next.op # "create", Proceed(q, next)
      PROVE  job'[p] = job[p]
  BY <1>1, OneSlot DEF TInv
<1>2. ASSUME NEW q \in Requests, NEW next \in Jobs, next.op # "create",
             NEW l \in Leaves, Overtake(q, next, l)
      PROVE  job'[p] = job[p]
  BY <1>2, SlotOvertakes DEF TInv
<1>3. ASSUME NEW q \in Requests, NEW l \in Leaves,
             (\E status \in Statuses : Decide(q, l, status))
               \/ \E byAdmin \in BOOLEAN : Cancel(q, l, byAdmin)
      PROVE  job'[p] = job[p]
  <2>1. ASSUME NEW status \in Statuses, Decide(q, l, status) PROVE job'[p] = job[p]
    <3> DEFINE next == [op |-> "decide", leave |-> l, status |-> status]
    <3>1. next \in Jobs /\ next.op # "create" /\ Proceed(q, next)
      BY <2>1 DEF Jobs, Decide
    <3> HIDE DEF next
    <3> QED BY <3>1, <1>1
  <2>2. ASSUME NEW byAdmin \in BOOLEAN, Cancel(q, l, byAdmin) PROVE job'[p] = job[p]
    <3> DEFINE next == [op |-> "cancel", leave |-> l]
    <3>1. next \in Jobs /\ next.op # "create" /\ Proceed(q, next)
      BY <2>2 DEF Jobs, Cancel
    <3> HIDE DEF next
    <3> QED BY <3>1, <1>1
  <2> QED BY <1>3, <2>1, <2>2
<1>4. ASSUME NEW q \in Requests, Create(q) \/ Tell(q) \/ Fail(q)
      PROVE  job'[p] = job[p]
  BY <1>4, <1>1, IdleIsAJob DEF Create, Tell, Fail, Finish
<1>5. ASSUME NEW q \in Requests, DecideWrite(q)
      PROVE  job'[p] = job[p]
  <2> DEFINE next == IF job[q].status \in Outcomes THEN Announcement(q) ELSE Idle
  <2>1. job[q].leave \in Leaves /\ next \in Jobs /\ next.op # "create"
    BY <1>5, JobFields, IdleIsAJob DEF DecideWrite, TInv, Announcement, Jobs
  <2>2. Overtake(q, next, job[q].leave)
    BY <1>5 DEF DecideWrite
  <2> HIDE DEF next
  <2> QED BY <2>1, <2>2, <1>2
<1>6. ASSUME NEW q \in Requests, CancelWrite(q)
      PROVE  job'[p] = job[p]
  <2>1. job[q].leave \in Leaves /\ Overtake(q, Idle, job[q].leave)
    BY <1>6, JobFields DEF CancelWrite, TInv
  <2> QED BY <2>1, <1>2, IdleIsAJob
<1>7. ASSUME NEW q \in Requests, NEW e \in Employees, NEW form \in Wishes, Apply(q, e, form)
      PROVE  job'[p] = job[p] \/ Apply(p, e, form)
  BY <1>7 DEF Apply, Proceed, TInv, TypeOK
<1>8. CASE NextDay \/ UNCHANGED vars
  BY <1>8 DEF NextDay, vars
<1> QED BY <1>3, <1>4, <1>5, <1>6, <1>7, <1>8 DEF Next

LEMMA StepApart == CInv /\ [Next]_vars => CInv'
<1> SUFFICES ASSUME CInv, [Next]_vars
             PROVE  CInv'
  OBVIOUS
<1>0. TInv /\ TInv'
  BY StepTypes DEF CInv
<1>1. ASSUME NEW l \in Leaves, NEW k \in Leaves,
             leave'[l].status # "none", k \in leave'[l].before
      PROVE  /\ leave'[k].status # "none"
             /\ l # k /\ leave'[k].status \in Live /\ ~leave'[k].revived
                /\ leave'[l].employee = leave'[k].employee
                  => ~Share(l, k)'
  <2>1. CASE leave[l].status # "none"
    <3>1. /\ leave'[l].employee = leave[l].employee
          /\ leave'[l].period = leave[l].period /\ leave'[l].before = leave[l].before
      BY <1>0, <2>1, RowsStay
    <3>2. leave[k].status # "none"
      BY <1>1, <2>1, <3>1 DEF CInv, RowsApart
    <3>3. /\ leave'[k].status # "none"
          /\ leave'[k].employee = leave[k].employee
          /\ leave'[k].period = leave[k].period
          /\ leave'[k].status \in Live /\ ~leave'[k].revived
               => leave[k].status \in Live /\ ~leave[k].revived
      BY <1>0, <3>2, RowsStay
    <3> QED BY <1>1, <2>1, <3>1, <3>3 DEF CInv, RowsApart, Share
  <2>2. CASE leave[l].status = "none"
    <3>1. PICK p \in Requests :
            /\ job[p].op = "create" /\ leave'[l] = NewRow(p)
            /\ \A j \in Leaves \ {l} : leave'[j] = leave[j]
      BY <1>0, <1>1, <2>2, RowChanges
    <3>2. /\ leave'[l].employee = job[p].employee
          /\ leave'[l].period = job[p].period
          /\ k \in job[p].before
      BY <1>1, <3>1 DEF NewRow
    <3>3. /\ leave[k].status # "none"
          /\ leave[k].status \in Live /\ ~leave[k].revived
             /\ job[p].employee = leave[k].employee
               => ~Clash(job[p].period, leave[k].period)
      BY <3>1, <3>2 DEF CInv, RequestApart
    <3>4. leave'[k] = leave[k]
      BY <2>2, <3>1, <3>3
    <3>5. ASSUME leave[k].status \in Live, ~leave[k].revived,
                 job[p].employee = leave[k].employee
          PROVE  ~Share(l, k)'
      <4>1. job[p].period \in Periods
        BY <1>0, <3>1, JobFields DEF TInv
      <4>2. leave[k].period \in Periods
        BY <1>0, <3>5 DEF TInv, TypeOK, LeaveRows, Unused, Live
      <4>3. Covers(job[p].period) \cap Covers(leave[k].period) = {}
        BY <3>3, <3>5, <4>1, <4>2, ClashIsOverlap
      <4> QED BY <3>2, <3>4, <4>3 DEF Share
    <3> QED BY <3>2, <3>3, <3>4, <3>5
  <2> QED BY <2>1, <2>2
<1>2. RowsApart'
  BY <1>1 DEF RowsApart
<1>3. ASSUME NEW p \in Requests, job'[p].op = "create", NEW k \in job'[p].before
      PROVE  /\ leave'[k].status # "none"
             /\ leave'[k].status \in Live /\ ~leave'[k].revived
                /\ job'[p].employee = leave'[k].employee
                  => ~Clash(job'[p].period, leave'[k].period)
  <2>1. CASE job'[p] = job[p]
    <3>1. /\ k \in Leaves /\ leave[k].status # "none"
          /\ leave[k].status \in Live /\ ~leave[k].revived
             /\ job[p].employee = leave[k].employee
               => ~Clash(job[p].period, leave[k].period)
      BY <1>0, <1>3, <2>1, JobFields DEF CInv, RequestApart, TInv
    <3> QED BY <1>0, <2>1, <3>1, RowsStay
  <2>2. ASSUME NEW e \in Employees, NEW form \in Wishes, Apply(p, e, form)
        PROVE  /\ leave'[k].status # "none"
               /\ leave'[k].status \in Live /\ ~leave'[k].revived
                  /\ job'[p].employee = leave'[k].employee
                    => ~Clash(job'[p].period, leave'[k].period)
    <3>1. /\ job'[p] = [op |-> "create", employee |-> e, period |-> Period(form),
                        before |-> Rows]
          /\ leave' = leave
      BY <1>0, <2>2 DEF Apply, Proceed, TInv, TypeOK
    <3>2. k \in Leaves /\ leave[k].status # "none"
      BY <1>3, <3>1 DEF Rows
    <3>3. ASSUME leave[k].status \in Live, leave[k].employee = e
          PROVE  ~Clash(Period(form), leave[k].period)
      BY <2>2, <3>2, <3>3 DEF Apply, LeavesOf
    <3> QED BY <3>1, <3>2, <3>3
  <2> QED BY <1>0, <1>3, <2>1, <2>2, RequestsStay
<1>4. \A p \in Requests : RequestApart(p)'
  BY <1>3 DEF RequestApart
<1> QED BY <1>0, <1>2, <1>4 DEF CInv

\* However many requests overlap or fail, and whatever is decided: live leaves
\* of a person clash in the two cases that ClashesExplained names, and no other.
THEOREM RequestsApart == Spec => []ClashesExplained
<1>1. CInv => ClashesExplained
  <2> SUFFICES ASSUME CInv, NEW l \in Leaves, NEW k \in Leaves, l # k,
                      leave[l].status \in Live, leave[k].status \in Live,
                      leave[l].employee = leave[k].employee,
                      k \in leave[l].before, Share(l, k)
               PROVE  leave[k].revived
    BY DEF ClashesExplained
  <2> QED BY DEF CInv, RowsApart, Live
<1> QED BY <1>1, InitApart, StepApart, PTL DEF Spec

-----------------------------------------------------------------------------
(* Announcements.  The one that is not overtaken is of the status the leave *)
(* has, as whatever writes to the leave overtakes the others.               *)

Fresh(p, l) == job[p].op = "tell" /\ job[p].leave = l /\ ~job[p].overtaken

FreshAreTrue ==
  \A p \in Requests, l \in Leaves : Fresh(p, l) => leave[l].status = job[p].status

AInv == TInv /\ FreshAreTrue /\ ToldAsDecided

LEMMA InitTold == Init => AInv
<1> SUFFICES ASSUME Init PROVE AInv
  OBVIOUS
<1>1. FreshAreTrue
  BY DEF Init, FreshAreTrue, Fresh, Idle
<1>2. ToldAsDecided
  BY DEF Init, ToldAsDecided, Unused, Outcomes
<1> QED BY <1>1, <1>2, InitTypes DEF AInv

\* What holds of leave l alone.
ToldOf(l) ==
  /\ \A p \in Requests : Fresh(p, l) => leave[l].status = job[p].status
  /\ leave[l].status \in Outcomes /\ told[l].current /\ ~(\E p \in Requests : Fresh(p, l))
       => told[l].outcome = leave[l].status

LEMMA LeaveByLeave == FreshAreTrue /\ ToldAsDecided <=> \A l \in Leaves : ToldOf(l)
BY DEF FreshAreTrue, ToldAsDecided, ToldOf, Fresh, Unannounced

\* A step that leaves the row of l, what was told of it and its announcements.
LEMMA NothingOf ==
  ASSUME NEW l \in Leaves, ToldOf(l), leave'[l] = leave[l], told'[l] = told[l],
         \A q \in Requests : Fresh(q, l) => job'[q] = job[q],
         \A q \in Requests : Fresh(q, l)' => job'[q] = job[q]
  PROVE  ToldOf(l)'
<1>1. \A q \in Requests : Fresh(q, l)' <=> Fresh(q, l)
  BY DEF Fresh
<1>2. \A q \in Requests : Fresh(q, l)' => leave'[l].status = job'[q].status
  BY <1>1 DEF ToldOf
<1> QED BY <1>1, <1>2 DEF ToldOf

\* A slot that was not telling of l moves on, and not to tell of it.
LEMMA SlotSilent ==
  ASSUME TypeOK, NEW p \in Requests, NEW next \in Jobs, NEW l \in Leaves,
         Proceed(p, next), ~Fresh(p, l), next.op # "tell"
  PROVE  /\ \A q \in Requests : Fresh(q, l) => job'[q] = job[q]
         /\ \A q \in Requests : Fresh(q, l)' => job'[q] = job[q]
BY OneSlot DEF Fresh

\* A write to leave k leaves l alone.
LEMMA OvertakenElsewhere ==
  ASSUME TypeOK, NEW p \in Requests, NEW next \in Jobs, NEW k \in Leaves, NEW l \in Leaves,
         k # l, Overtake(p, next, k), job[p].op # "tell",
         next.op = "tell" => next.leave = k
  PROVE  /\ \A q \in Requests : Fresh(q, l) => job'[q] = job[q]
         /\ \A q \in Requests : Fresh(q, l)' => job'[q] = job[q]
<1>1. /\ job'[p] = next
      /\ \A q \in Requests \ {p} :
           IF job[q].op = "tell" /\ job[q].leave = k
           THEN /\ job'[q].op = "tell" /\ job'[q].leave = k
                /\ job'[q].overtaken
           ELSE job'[q] = job[q]
  BY SlotOvertakes
<1> QED BY <1>1 DEF Fresh

\* A write to l: of the announcements only that of the write itself is fresh.
LEMMA OvertakenHere ==
  ASSUME TypeOK, NEW p \in Requests, NEW next \in Jobs, NEW l \in Leaves,
         Overtake(p, next, l), NEW q \in Requests, Fresh(q, l)'
  PROVE  q = p /\ job'[p] = next
<1>1. /\ job'[p] = next
      /\ \A r \in Requests \ {p} :
           IF job[r].op = "tell" /\ job[r].leave = l
           THEN /\ job'[r].op = "tell" /\ job'[r].leave = l
                /\ job'[r].overtaken
           ELSE job'[r] = job[r]
  BY SlotOvertakes
<1> QED BY <1>1 DEF Fresh

LEMMA StepTold == AInv /\ [Next]_vars => AInv'
<1> SUFFICES ASSUME AInv, [Next]_vars, NEW l \in Leaves
             PROVE  ToldOf(l)'
  <2>1. (\A l \in Leaves : ToldOf(l)') => FreshAreTrue' /\ ToldAsDecided'
    BY DEF FreshAreTrue, ToldAsDecided, ToldOf, Fresh, Unannounced
  <2> QED BY <2>1, StepTypes DEF AInv
<1>0. TInv /\ TypeOK /\ ToldOf(l)
  BY LeaveByLeave DEF AInv, TInv
<1>1. CASE NextDay \/ UNCHANGED vars
  BY <1>0, <1>1, NothingOf DEF NextDay, vars
<1>2. ASSUME NEW p \in Requests, NEW next \in Jobs, next.op # "tell", Proceed(p, next),
             job[p].op # "tell", leave'[l] = leave[l], UNCHANGED told
      PROVE  ToldOf(l)'
  <2>1. ~Fresh(p, l)
    BY <1>2 DEF Fresh
  <2> QED BY <1>0, <1>2, <2>1, SlotSilent, NothingOf
<1>3. ASSUME NEW p \in Requests, NEW e \in Employees, NEW form \in Wishes, Apply(p, e, form)
      PROVE  ToldOf(l)'
  <2> DEFINE next == [op |-> "create", employee |-> e, period |-> Period(form),
                      before |-> Rows]
  <2>1. next \in Jobs /\ next.op # "tell"
    <3>1. Period(form) \in Periods /\ Rows \in SUBSET Leaves
      BY <1>3, AcceptedIsPeriod DEF Apply, Rows
    <3> QED BY <3>1 DEF Jobs
  <2>2. Proceed(p, next) /\ UNCHANGED <<leave, told>> /\ job[p].op # "tell"
    BY <1>3 DEF Apply, Idle
  <2> HIDE DEF next
  <2> QED BY <1>2, <2>1, <2>2
<1>4. ASSUME NEW p \in Requests, NEW k \in Leaves, NEW status \in Statuses,
             Decide(p, k, status)
      PROVE  ToldOf(l)'
  <2> DEFINE next == [op |-> "decide", leave |-> k, status |-> status]
  <2>1. next \in Jobs /\ next.op # "tell"
    BY DEF Jobs
  <2>2. Proceed(p, next) /\ UNCHANGED <<leave, told>> /\ job[p].op # "tell"
    BY <1>4 DEF Decide, Idle
  <2> HIDE DEF next
  <2> QED BY <1>2, <2>1, <2>2
<1>5. ASSUME NEW p \in Requests, NEW k \in Leaves, NEW byAdmin \in BOOLEAN,
             Cancel(p, k, byAdmin)
      PROVE  ToldOf(l)'
  <2> DEFINE next == [op |-> "cancel", leave |-> k]
  <2>1. next \in Jobs /\ next.op # "tell"
    BY DEF Jobs
  <2>2. Proceed(p, next) /\ UNCHANGED <<leave, told>> /\ job[p].op # "tell"
    BY <1>5 DEF Cancel, Idle
  <2> HIDE DEF next
  <2> QED BY <1>2, <2>1, <2>2
<1>6. ASSUME NEW p \in Requests, Create(p) PROVE ToldOf(l)'
  <2>1. Proceed(p, Idle) /\ UNCHANGED told /\ job[p].op # "tell" /\ Idle.op # "tell"
    BY <1>6, IdleIsAJob DEF Create, Finish
  <2>2. CASE leave'[l] = leave[l]
    BY <1>2, <2>1, <2>2, IdleIsAJob
  <2>3. CASE leave'[l] # leave[l]
    <3>1. leave[l].status = "none" /\ leave'[l].status = "PENDING"
      BY <1>0, <1>6, <2>3 DEF Create, TypeOK
    <3>2. ASSUME NEW q \in Requests, Fresh(q, l)' PROVE FALSE
      <4>1. job'[q] = job[q]
        BY <1>0, <2>1, <3>2, IdleIsAJob, OneSlot DEF Fresh
      <4>2. job[q].op = "tell" /\ job[q].leave = l
        BY <3>2, <4>1 DEF Fresh
      <4> QED BY <1>0, <3>1, <4>2 DEF TInv, JobsFound
    <3> QED BY <3>1, <3>2 DEF ToldOf, Outcomes
  <2> QED BY <2>2, <2>3
<1>7. ASSUME NEW p \in Requests, DecideWrite(p) PROVE ToldOf(l)'
  <2> DEFINE k == job[p].leave
             next == IF job[p].status \in Outcomes THEN Announcement(p) ELSE Idle
  <2>1. /\ k \in Leaves /\ job[p].status \in Statuses /\ leave[k].status # "none"
        /\ SetStatus(k, job[p].status) /\ Overtake(p, next, k) /\ UNCHANGED told
        /\ job[p].op # "tell"
    BY <1>0, <1>7, JobFields DEF DecideWrite, TInv, JobsFound
  <2>2. /\ next \in Jobs
        /\ next.op = "tell" => next.leave = k /\ next.status = job[p].status
        /\ job[p].status \in Outcomes => next.op = "tell" /\ ~next.overtaken
    BY <2>1, IdleIsAJob DEF Jobs, Announcement
  <2>3. leave'[k].status = job[p].status /\ \A j \in Leaves \ {k} : leave'[j] = leave[j]
    BY <1>0, <2>1, StatusSet
  <2> HIDE DEF next, k
  <2>4. CASE l # k
    <3>1. /\ \A q \in Requests : Fresh(q, l) => job'[q] = job[q]
          /\ \A q \in Requests : Fresh(q, l)' => job'[q] = job[q]
      BY <1>0, <2>1, <2>2, <2>4, OvertakenElsewhere
    <3> QED BY <1>0, <2>1, <2>3, <2>4, <3>1, NothingOf
  <2>5. CASE l = k
    <3>1. \A q \in Requests : Fresh(q, l)' => q = p /\ job'[p] = next
      BY <1>0, <2>1, <2>2, <2>5, OvertakenHere
    <3>2. \A q \in Requests : Fresh(q, l)' => leave'[l].status = job'[q].status
      BY <2>2, <2>3, <2>5, <3>1 DEF Fresh
    <3>3. job'[p] = next
      BY <1>0, <2>1, <2>2, SlotOvertakes
    <3>4. leave'[l].status \in Outcomes => Fresh(p, l)'
      BY <2>2, <2>3, <2>5, <3>3 DEF Fresh
    <3> QED BY <3>2, <3>4 DEF ToldOf
  <2> QED BY <2>4, <2>5
<1>8. ASSUME NEW p \in Requests, Tell(p) PROVE ToldOf(l)'
  <2>1. /\ job[p].op = "tell" /\ Proceed(p, Idle) /\ leave' = leave
        /\ Idle \in Jobs /\ Idle.op # "tell"
    BY <1>8, IdleIsAJob DEF Tell, Finish
  <2>2. CASE job[p].leave # l
    <3>1. told'[l] = told[l] /\ ~Fresh(p, l)
      BY <1>0, <1>8, <2>2 DEF Tell, TypeOK, Fresh
    <3>2. /\ \A q \in Requests : Fresh(q, l) => job'[q] = job[q]
          /\ \A q \in Requests : Fresh(q, l)' => job'[q] = job[q]
      BY <1>0, <2>1, <3>1, SlotSilent
    <3> QED BY <1>0, <2>1, <3>1, <3>2, NothingOf
  <2>3. CASE job[p].leave = l
    <3>1. told'[l].outcome = job[p].status /\ told'[l].current = ~job[p].overtaken
      BY <1>0, <1>8, <2>3 DEF Tell, TypeOK
    <3>2. told'[l].current => told'[l].outcome = leave'[l].status
      BY <1>0, <2>1, <2>3, <3>1 DEF ToldOf, Fresh
    <3>3. \A q \in Requests : Fresh(q, l)' => Fresh(q, l) /\ job'[q] = job[q]
      BY <1>0, <2>1, OneSlot DEF Fresh
    <3>4. \A q \in Requests : Fresh(q, l)' => leave'[l].status = job'[q].status
      BY <1>0, <2>1, <3>3 DEF ToldOf
    <3> QED BY <3>2, <3>4 DEF ToldOf
  <2> QED BY <2>2, <2>3
<1>9. ASSUME NEW p \in Requests, CancelWrite(p) PROVE ToldOf(l)'
  <2> DEFINE k == job[p].leave
  <2>1. /\ k \in Leaves /\ leave[k].status # "none" /\ "CANCELLED" \in Statuses
        /\ SetStatus(k, "CANCELLED") /\ Overtake(p, Idle, k) /\ UNCHANGED told
        /\ job[p].op # "tell" /\ Idle \in Jobs /\ Idle.op # "tell"
    BY <1>0, <1>9, JobFields, IdleIsAJob DEF CancelWrite, TInv, JobsFound, Statuses
  <2>2. leave'[k].status = "CANCELLED" /\ \A j \in Leaves \ {k} : leave'[j] = leave[j]
    BY <1>0, <2>1, StatusSet
  <2> HIDE DEF k
  <2>3. CASE l # k
    <3>1. /\ \A q \in Requests : Fresh(q, l) => job'[q] = job[q]
          /\ \A q \in Requests : Fresh(q, l)' => job'[q] = job[q]
      BY <1>0, <2>1, <2>3, OvertakenElsewhere
    <3> QED BY <1>0, <2>1, <2>2, <2>3, <3>1, NothingOf
  <2>4. CASE l = k
    <3>1. \A q \in Requests : ~Fresh(q, l)'
      BY <1>0, <2>1, <2>4, OvertakenHere DEF Fresh
    <3> QED BY <2>2, <2>4, <3>1 DEF ToldOf, Outcomes
  <2> QED BY <2>3, <2>4
<1>10. ASSUME NEW p \in Requests, Fail(p) PROVE ToldOf(l)'
  <2>1. /\ Proceed(p, Idle) /\ leave' = leave /\ Idle \in Jobs /\ Idle.op # "tell"
    BY <1>10, IdleIsAJob DEF Fail, Finish
  <2>2. CASE Fresh(p, l)
    <3>1. ~told'[l].current
      BY <1>0, <1>10, <2>2 DEF Fail, Fresh, TypeOK
    <3>2. \A q \in Requests : Fresh(q, l)' => Fresh(q, l) /\ job'[q] = job[q]
      BY <1>0, <2>1, OneSlot DEF Fresh
    <3>3. \A q \in Requests : Fresh(q, l)' => leave'[l].status = job'[q].status
      BY <1>0, <2>1, <3>2 DEF ToldOf
    <3> QED BY <3>1, <3>3 DEF ToldOf
  <2>3. CASE ~Fresh(p, l)
    <3>1. told'[l] = told[l]
      BY <1>0, <1>10, <2>3 DEF Fail, Fresh, TypeOK
    <3>2. /\ \A q \in Requests : Fresh(q, l) => job'[q] = job[q]
          /\ \A q \in Requests : Fresh(q, l)' => job'[q] = job[q]
      BY <1>0, <2>1, <2>3, SlotSilent
    <3> QED BY <1>0, <2>1, <3>1, <3>2, NothingOf
  <2> QED BY <2>2, <2>3
<1> QED BY <1>1, <1>3, <1>4, <1>5, <1>6, <1>7, <1>8, <1>9, <1>10 DEF Next

\* However many decisions and withdrawals of a leave overlap: unless its
\* announcement failed or an older one came after it, the outcome told last is
\* the one the leave has.
THEOREM OutcomesTold == Spec => []ToldAsDecided
<1>1. AInv => ToldAsDecided
  BY DEF AInv
<1> QED BY <1>1, InitTold, StepTold, PTL DEF Spec

-----------------------------------------------------------------------------
(* The balance of a year.  A leave counts for the days, or the minutes, of *)
(* the set that it takes of the year; the sets of a person's leaves are    *)
(* disjoint, so that their sizes add up to the size of what they cover.    *)

\* The table has finitely many rows, whatever the ids there may be.
FinitelyMany == IsFiniteSet({l \in Leaves : leave[l].status # "none"})

LEMMA OneRowMore ==
  ASSUME TInv, FinitelyMany, [Next]_vars
  PROVE  FinitelyMany'
<1> DEFINE R == {l \in Leaves : leave[l].status # "none"}
           R1 == {l \in Leaves : leave'[l].status # "none"}
<1>1. ASSUME NEW l \in R1 \ R
      PROVE  R1 \subseteq R \cup {l}
  <2>1. l \in Leaves /\ leave[l].status = "none" /\ leave'[l].status # "none"
    BY <1>1
  <2>2. \A k \in Leaves \ {l} : leave'[k] = leave[k]
    BY <2>1, RowChanges
  <2> QED BY <2>2
<1>2. \A l : IsFiniteSet(R \cup {l})
  BY FS_AddElement DEF FinitelyMany
<1>3. R1 \subseteq R \/ \E l : R1 \subseteq R \cup {l}
  BY <1>1
<1>4. IsFiniteSet(R) /\ (IsFiniteSet(R1) <=> FinitelyMany')
  BY DEF FinitelyMany
<1> HIDE DEF R, R1
<1> QED BY <1>2, <1>3, <1>4, FS_Subset

LEMMA RowsFinite == Spec => [](TInv /\ FinitelyMany)
<1>1. Init => FinitelyMany
  <2> SUFFICES ASSUME Init PROVE FinitelyMany
    OBVIOUS
  <2>1. {l \in Leaves : leave[l].status # "none"} = {}
    BY DEF Init, Unused
  <2> QED BY <2>1, FS_EmptySet DEF FinitelyMany
<1> QED BY <1>1, InitTypes, StepTypes, OneRowMore, PTL DEF Spec

LEMMA YearsAreNumbers ==
  ASSUME NEW y \in Years
  PROVE  y \in Nat /\ YearStart(y) \in Nat /\ YearEnd(y) \in Nat
<1>1. y \in Nat
  BY BalanceAssumption, LeaveAssumption, DivisionBounds DEF Years, Days
<1>2. \A m \in Nat, n \in Nat \ {0} : m * n \in Nat /\ m * n + n - 1 \in Nat
  OBVIOUS
<1> QED BY <1>1, <1>2, BalanceAssumption DEF YearStart, YearEnd

\* The days of a year are those from its first to its last.
LEMMA DaysOfTheYear ==
  ASSUME NEW y \in Years, NEW d \in Nat
  PROVE  d \div YearDays = y <=> YearStart(y) <= d /\ d <= YearEnd(y)
<1> DEFINE q == d \div YearDays
<1>1. /\ q \in Nat /\ q * YearDays \in Nat
      /\ q * YearDays <= d /\ d < q * YearDays + YearDays
  BY BalanceAssumption, DivisionBounds
<1>2. y \in Nat /\ YearDays \in Nat \ {0} /\ y * YearDays \in Nat
  BY YearsAreNumbers, BalanceAssumption DEF YearStart
<1>3. q = y => YearStart(y) <= d /\ d <= YearEnd(y)
  BY <1>1, <1>2 DEF YearStart, YearEnd
<1>4. ASSUME YearStart(y) <= d, d <= YearEnd(y), q # y PROVE FALSE
  <2>1. y * YearDays <= d /\ d < y * YearDays + YearDays
    BY <1>2, <1>4 DEF YearStart, YearEnd
  <2>2. q * YearDays < y * YearDays \/ y * YearDays < q * YearDays
    <3> HIDE DEF q
    <3>1. \A m, n \in Nat, k \in Nat \ {0} : m * k = n * k => m = n
      <4> SUFFICES ASSUME NEW m \in Nat, NEW n \in Nat, NEW k \in Nat \ {0}, m * k = n * k
                   PROVE  m = n
        OBVIOUS
      <4>1. (m * k) \div k = m /\ (n * k) \div k = n
        OBVIOUS
      <4> QED BY <4>1
    <3>2. q * YearDays # y * YearDays
      BY <1>1, <1>2, <1>4, <3>1
    <3> QED BY <1>1, <1>2, <3>2
  <2> HIDE DEF q
  <2> QED BY <1>1, <1>2, <2>1, <2>2, MultiplesApart
<1> QED BY <1>3, <1>4

\* A leave that is counted is a row with a period that touches the year.
LEMMA CountedLeaves ==
  ASSUME TypeOK, NEW e \in Employees, NEW y \in Years, NEW status \in Live,
         NEW l \in Counted(e, y, status)
  PROVE  /\ l \in LeavesOf(e) /\ leave[l].status = status
         /\ leave[l].period \in Periods
         /\ leave[l].period.first \in Days /\ leave[l].period.last \in Days
         /\ leave[l].period.first <= YearEnd(y)
         /\ leave[l].period.last >= YearStart(y)
BY DEF Counted, LeavesOf, TypeOK, LeaveRows, Unused, Live, Periods

LEMMA CountedApart ==
  ASSUME LiveLeavesApart, NEW e \in Employees, NEW y \in Years, NEW status \in Live,
         NEW l \in Counted(e, y, status), NEW k \in Counted(e, y, status), l # k
  PROVE  Covers(leave[l].period) \cap Covers(leave[k].period) = {}
BY DEF LiveLeavesApart, Share, Counted, LeavesOf

\* The working days of the year that a leave takes, and the minutes of a leave
\* of hours: what DaysOf and the difference of its times count.
DaysWithin(p, y) ==
  IF p.from # Blank THEN {}
  ELSE (Max({p.first, YearStart(y)}) .. Min({p.last, YearEnd(y)})) \cap WorkingDays

MinutesOf(p) == IF p.from = Blank THEN {} ELSE Covers(p)

LEMMA DaysWithinCounted ==
  ASSUME NEW p \in Periods, NEW y \in Years
  PROVE  /\ IsFiniteSet(DaysWithin(p, y))
         /\ DaysOf(p, y) = Cardinality(DaysWithin(p, y))
         /\ \A d : d \in DaysWithin(p, y) <=>
                     /\ p.from = Blank /\ d \in WorkingDays /\ d \div YearDays = y
                     /\ p.first <= d /\ d <= p.last
<1>1. /\ p.first \in Nat /\ p.last \in Nat
      /\ YearStart(y) \in Nat /\ YearEnd(y) \in Nat
  BY YearsAreNumbers, LeaveAssumption DEF Periods, Days
<1> DEFINE from == Max({p.first, YearStart(y)})
           to   == Min({p.last, YearEnd(y)})
<1>2. /\ from \in {p.first, YearStart(y)} /\ from >= p.first /\ from >= YearStart(y)
      /\ to \in {p.last, YearEnd(y)} /\ to <= p.last /\ to <= YearEnd(y)
  BY <1>1, EarlierOfTwo, LaterOfTwo
<1>3. from \in Int /\ to \in Int
  BY <1>1, <1>2
<1>4. IsFiniteSet((from .. to) \cap WorkingDays)
  <2> HIDE DEF from, to
  <2> QED BY <1>3, FS_Interval, FS_Subset
<1>5. ASSUME NEW d \in WorkingDays
      PROVE  d \in from .. to <=> /\ d \div YearDays = y
                                  /\ p.first <= d /\ d <= p.last
  <2>1. d \in Nat
    BY BalanceAssumption, LeaveAssumption DEF Days
  <2>2. d \div YearDays = y <=> YearStart(y) <= d /\ d <= YearEnd(y)
    BY <2>1, DaysOfTheYear
  <2> HIDE DEF from, to
  <2> QED BY <1>1, <1>2, <1>3, <2>1, <2>2
<1>6. CASE p.from = Blank
  <2>1. DaysWithin(p, y) = (from .. to) \cap WorkingDays
    BY <1>6 DEF DaysWithin
  <2>2. DaysOf(p, y) = Cardinality((from .. to) \cap WorkingDays)
    BY <1>6 DEF DaysOf
  <2> HIDE DEF from, to
  <2> QED BY <1>4, <1>5, <1>6, <2>1, <2>2
<1>7. CASE p.from # Blank
  BY <1>7, FS_EmptySet DEF DaysWithin, DaysOf
<1> QED BY <1>6, <1>7

LEMMA MinutesCounted ==
  ASSUME NEW p \in Periods
  PROVE  /\ IsFiniteSet(MinutesOf(p))
         /\ Cardinality(MinutesOf(p)) = IF p.from = Blank THEN 0 ELSE p.to - p.from
<1>1. CASE p.from = Blank
  BY <1>1, FS_EmptySet DEF MinutesOf
<1>2. CASE p.from # Blank
  <2>1. /\ p.first = p.last /\ p.first \in Int
        /\ p.from \in ClockTimes /\ p.to \in ClockTimes /\ p.from < p.to
    BY <1>2, PeriodFields
  <2>2. p.from \in Nat /\ p.to \in Nat /\ p.to <= DayMinutes - 1 /\ DayMinutes \in Nat
    BY <2>1, ClockAssumption DEF ClockTimes
  <2> DEFINE minutes == p.from .. (p.to - 1)
  <2>3. Covers(p) = {p.first} \X minutes
    <3>1. p.first .. p.last = {p.first}
      BY <2>1
    <3>2. \A m : m \in ClockTimes /\ p.from <= m /\ m < p.to <=> m \in minutes
      BY <2>2 DEF ClockTimes
    <3>3. \A t : t \in Covers(p) <=> /\ t \in {p.first} \X ClockTimes
                                     /\ p.from <= t[2] /\ t[2] < p.to
      BY <1>2, <3>1 DEF Covers
    <3>4. \A t : t \in Covers(p) <=> t \in {p.first} \X minutes
      <4> HIDE DEF minutes
      <4> QED BY <3>2, <3>3
    <3> QED BY <3>4
  <2>4. IsFiniteSet(minutes) /\ Cardinality(minutes) = p.to - p.from
    <3>1. p.from \in Int /\ p.to - 1 \in Int /\ ~(p.from > p.to - 1)
      BY <2>1, <2>2
    <3>2. (p.to - 1) - p.from + 1 = p.to - p.from
      BY <2>2
    <3> QED BY <3>1, <3>2, FS_Interval
  <2>5. IsFiniteSet({p.first}) /\ Cardinality({p.first}) = 1
    BY FS_Singleton
  <2> HIDE DEF minutes
  <2>6. /\ IsFiniteSet({p.first} \X minutes)
        /\ Cardinality({p.first} \X minutes) = 1 * (p.to - p.from)
    BY <2>4, <2>5, FS_Product
  <2>7. 1 * (p.to - p.from) = p.to - p.from
    BY <2>2
  <2> QED BY <1>2, <2>3, <2>6, <2>7 DEF MinutesOf
<1> QED BY <1>1, <1>2

\* A whole day is covered by a leave of days only.
LEMMA DayCovered ==
  ASSUME NEW p \in Periods, NEW d \in Days
  PROVE  {d} \X ClockTimes \subseteq Covers(p)
           <=> p.from = Blank /\ p.first <= d /\ d <= p.last
<1> DEFINE last == DayMinutes - 1
<1>1. d \in Int /\ p.first \in Int /\ p.last \in Int
  BY PeriodFields DEF Days
<1>2. last \in ClockTimes /\ \A t \in ClockTimes : t <= last
  BY ClockAssumption DEF ClockTimes
<1>3. ASSUME {d} \X ClockTimes \subseteq Covers(p)
      PROVE  p.from = Blank /\ p.first <= d /\ d <= p.last
  <2>1. <<d, last>> \in Covers(p)
    BY <1>2, <1>3
  <2>2. d \in p.first .. p.last /\ (p.from = Blank \/ last < p.to)
    BY <2>1 DEF Covers
  <2>3. ~(p.from # Blank /\ last < p.to)
    <3> HIDE DEF last
    <3> QED BY <1>2, PeriodFields, ClockTimesAreNumbers
  <2> QED BY <1>1, <2>2, <2>3
<1>4. ASSUME p.from = Blank, p.first <= d, d <= p.last
      PROVE  {d} \X ClockTimes \subseteq Covers(p)
  BY <1>1, <1>4 DEF Covers
<1> QED BY <1>3, <1>4

LEMMA DaysAddUp ==
  ASSUME TypeOK, FinitelyMany, LiveLeavesApart,
         NEW e \in Employees, NEW y \in Years, NEW status \in Live
  PROVE  DaysTaken(e, y, status) = Cardinality(DaysCovered(e, y, status))
<1> DEFINE S == Counted(e, y, status)
           g == [l \in S |-> DaysWithin(leave[l].period, y)]
           n == [l \in S |-> DaysOf(leave[l].period, y)]
<1>1. IsFiniteSet(S)
  <2>1. S \subseteq {l \in Leaves : leave[l].status # "none"}
    BY CountedLeaves DEF LeavesOf, Live
  <2> HIDE DEF S
  <2> QED BY <2>1, FS_Subset DEF FinitelyMany
<1>2. \A l \in S : IsFiniteSet(g[l]) /\ n[l] = Cardinality(g[l])
  BY CountedLeaves, DaysWithinCounted
<1>3. ASSUME NEW l \in S, NEW k \in S, l # k PROVE g[l] \cap g[k] = {}
  <2> SUFFICES ASSUME NEW d \in DaysWithin(leave[l].period, y),
                      d \in DaysWithin(leave[k].period, y)
               PROVE  FALSE
    OBVIOUS
  <2>1. d \in Days
    BY CountedLeaves, DaysWithinCounted, BalanceAssumption
  <2>2. /\ {d} \X ClockTimes \subseteq Covers(leave[l].period)
        /\ {d} \X ClockTimes \subseteq Covers(leave[k].period)
    BY <2>1, CountedLeaves, DaysWithinCounted, DayCovered
  <2>3. 0 \in ClockTimes
    BY ClockAssumption DEF ClockTimes
  <2>4. <<d, 0>> \in Covers(leave[l].period) \cap Covers(leave[k].period)
    BY <2>2, <2>3
  <2> QED BY <1>3, <2>4, CountedApart
<1>4. \A x : x \in DaysCovered(e, y, status) <=> \E l \in S : x \in g[l]
  <2>1. ASSUME NEW l \in S, NEW d \in g[l]
        PROVE  d \in DaysCovered(e, y, status)
    <3>1. /\ d \in WorkingDays /\ d \in Days /\ d \div YearDays = y
          /\ {d} \X ClockTimes \subseteq Covers(leave[l].period)
      BY CountedLeaves, DaysWithinCounted, DayCovered, BalanceAssumption
    <3>2. l \in LeavesOf(e) /\ leave[l].status = status
      BY CountedLeaves
    <3> QED BY <3>1, <3>2 DEF DaysCovered
  <2>2. ASSUME NEW d \in DaysCovered(e, y, status)
        PROVE  \E l \in S : d \in g[l]
    <3>1. d \in WorkingDays /\ d \in Days /\ d \in Nat /\ d \div YearDays = y
      BY BalanceAssumption, LeaveAssumption DEF DaysCovered, Days
    <3>2. PICK l \in LeavesOf(e) :
            /\ leave[l].status = status
            /\ {d} \X ClockTimes \subseteq Covers(leave[l].period)
      BY DEF DaysCovered
    <3>3. leave[l].period \in Periods
      BY <3>2 DEF LeavesOf, TypeOK, LeaveRows, Unused, Live
    <3>4. /\ leave[l].period.from = Blank
          /\ leave[l].period.first <= d /\ d <= leave[l].period.last
      BY <3>1, <3>2, <3>3, DayCovered
    <3>5. d \in DaysWithin(leave[l].period, y)
      BY <3>1, <3>3, <3>4, DaysWithinCounted
    <3>6. leave[l].period.first <= YearEnd(y) /\ leave[l].period.last >= YearStart(y)
      <4>1. YearStart(y) <= d /\ d <= YearEnd(y)
        BY <3>1, DaysOfTheYear
      <4> QED BY <3>1, <3>3, <3>4, <4>1, PeriodFields, YearsAreNumbers
    <3>7. l \in S
      BY <3>2, <3>6 DEF Counted
    <3> QED BY <3>5, <3>7
  <2> HIDE DEF S, g
  <2> QED BY <2>1, <2>2
<1>5. SumFunction(n) = Cardinality(DaysCovered(e, y, status))
  <2>1. n \in [S -> Nat]
    <3>1. DOMAIN n = S /\ \A l \in S : n[l] \in Nat
      BY <1>2, FS_CardinalityType
    <3> QED BY <3>1
  <2>2. \A l \in S : \A k \in S : l # k => g[l] \cap g[k] = {}
    BY <1>3
  <2> HIDE DEF S, g, n
  <2> QED BY <1>1, <1>2, <1>4, <2>1, <2>2, CountsAddUp
<1>6. DaysTaken(e, y, status) = SumFunction(n)
  BY DEF DaysTaken
<1> HIDE DEF S, g, n
<1> QED BY <1>5, <1>6

LEMMA MinutesAddUp ==
  ASSUME TypeOK, FinitelyMany, LiveLeavesApart,
         NEW e \in Employees, NEW y \in Years, NEW status \in Live
  PROVE  MinutesTaken(e, y, status) = Cardinality(MinutesCovered(e, y, status))
<1> DEFINE S == Counted(e, y, status)
           g == [l \in S |-> MinutesOf(leave[l].period)]
           n == [l \in S |-> LET p == leave[l].period
                             IN  IF p.from = Blank THEN 0 ELSE p.to - p.from]
<1>1. IsFiniteSet(S)
  <2>1. S \subseteq {l \in Leaves : leave[l].status # "none"}
    BY CountedLeaves DEF LeavesOf, Live
  <2> HIDE DEF S
  <2> QED BY <2>1, FS_Subset DEF FinitelyMany
<1>2. \A l \in S : IsFiniteSet(g[l]) /\ n[l] = Cardinality(g[l])
  BY CountedLeaves, MinutesCounted
<1>3. ASSUME NEW l \in S, NEW k \in S, l # k PROVE g[l] \cap g[k] = {}
  <2>1. g[l] \subseteq Covers(leave[l].period) /\ g[k] \subseteq Covers(leave[k].period)
    BY DEF MinutesOf
  <2> HIDE DEF g
  <2> QED BY <1>3, <2>1, CountedApart
<1>4. \A x : x \in MinutesCovered(e, y, status) <=> \E l \in S : x \in g[l]
  <2>1. ASSUME NEW l \in S, NEW t \in g[l]
        PROVE  t \in MinutesCovered(e, y, status)
    <3> DEFINE p == leave[l].period
    <3>1. t \in Covers(p) /\ p.from # Blank
      BY DEF MinutesOf
    <3>2. p \in Periods /\ p.first = p.last /\ p.first \in Days
      BY <3>1, CountedLeaves, PeriodFields
    <3>3. p.first <= YearEnd(y) /\ p.first >= YearStart(y)
      BY <3>2, CountedLeaves
    <3>4. t \in (p.first .. p.last) \X ClockTimes
      BY <3>1 DEF Covers
    <3>5. t[1] = p.first /\ t \in Days \X ClockTimes
      <4>1. p.first .. p.last = {p.first}
        BY <3>2 DEF Days
      <4> HIDE DEF p
      <4> QED BY <3>2, <3>4, <4>1
    <3>6. t[1] \div YearDays = y
      <4>1. p.first \in Nat
        BY <3>2, LeaveAssumption DEF Days
      <4> QED BY <3>3, <3>5, <4>1, DaysOfTheYear
    <3>7. l \in LeavesOf(e) /\ leave[l].status = status
      BY CountedLeaves
    <3> QED BY <3>1, <3>5, <3>6, <3>7 DEF MinutesCovered
  <2>2. ASSUME NEW t \in MinutesCovered(e, y, status)
        PROVE  \E l \in S : t \in g[l]
    <3>1. t \in Days \X ClockTimes /\ t[1] \div YearDays = y
      BY DEF MinutesCovered
    <3>2. PICK l \in LeavesOf(e) : /\ leave[l].status = status
                                   /\ leave[l].period.from # Blank
                                   /\ t \in Covers(leave[l].period)
      BY DEF MinutesCovered
    <3> DEFINE p == leave[l].period
    <3>3. p \in Periods
      BY <3>2 DEF LeavesOf, TypeOK, LeaveRows, Unused, Live
    <3>4. p.first = p.last /\ p.first \in Int /\ t[1] \in p.first .. p.last
      BY <3>2, <3>3, PeriodFields DEF Covers
    <3>5. p.first = t[1] /\ p.last = t[1]
      BY <3>4
    <3>6. YearStart(y) <= t[1] /\ t[1] <= YearEnd(y) /\ t[1] \in Nat
      <4>1. t[1] \in Nat
        BY <3>1, LeaveAssumption DEF Days
      <4> QED BY <3>1, <4>1, DaysOfTheYear
    <3>7. l \in S
      BY <3>2, <3>5, <3>6, YearsAreNumbers DEF Counted
    <3> QED BY <3>2, <3>7 DEF MinutesOf
  <2> HIDE DEF S, g
  <2> QED BY <2>1, <2>2
<1>5. SumFunction(n) = Cardinality(MinutesCovered(e, y, status))
  <2>1. n \in [S -> Nat]
    <3>1. DOMAIN n = S /\ \A l \in S : n[l] \in Nat
      BY <1>2, FS_CardinalityType
    <3> QED BY <3>1
  <2>2. \A l \in S : \A k \in S : l # k => g[l] \cap g[k] = {}
    BY <1>3
  <2> HIDE DEF S, g, n
  <2> QED BY <1>1, <1>2, <1>4, <2>1, <2>2, CountsAddUp
<1>6. MinutesTaken(e, y, status) = SumFunction(n)
  BY DEF MinutesTaken
<1> HIDE DEF S, g, n
<1> QED BY <1>5, <1>6

\* Whatever requests overlap, and for any calendar and length of the year: as
\* long as live leaves share no minute, the balance counts every working day
\* and every minute of hours once, in its year (getLeaveBalance, 720-804).
THEOREM BalanceIsRight == Spec => []BalanceCountsOnce
<1>1. TInv /\ FinitelyMany => BalanceCountsOnce
  BY DaysAddUp, MinutesAddUp DEF BalanceCountsOnce, TInv
<1> QED BY <1>1, RowsFinite, PTL
=============================================================================
