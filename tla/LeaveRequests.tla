---------------------------- MODULE LeaveRequests ----------------------------
(***************************************************************************)
(* Leave requests (table Leave): asked for, decided and withdrawn through  *)
(* src/src/admin/admin.service.ts, lines 486-690, by the bot's cards and   *)
(* by the dashboard.                                                       *)
(*                                                                         *)
(* As for sessions, a step is one database call: the check that a request  *)
(* rests on and the write that follows it are two steps.  Who may decide   *)
(* is not modelled here: a decision is one that the caller was allowed.    *)
(***************************************************************************)
EXTENDS CompanyTime

CONSTANTS
  Employees,
  Leaves,      \* ids of Leave rows
  Requests,    \* slots for requests in flight
  Wishes,      \* the forms people send
  MaxDay,      \* bound on the calendar
  Blank,       \* a time left empty
  None         \* null for ids

Days == 0 .. MaxDay

Forms == [start : Days, end : Days, from : Clocks \cup {Blank}, to : Clocks \cup {Blank}]

ASSUME LeaveAssumption ==
  /\ MaxDay \in Nat
  /\ Wishes \subseteq Forms
  /\ Blank \notin Int
  /\ None \notin Employees

VARIABLES
  today,
  leave,     \* id -> Leave row
  told,      \* id -> the outcome the employee was last notified of
  job        \* slot -> the request it is serving

(* What only the properties read: of a row, the leaves there were when its  *)
(* request was checked (`before`), and whether it has been live again after *)
(* it was not (`revived`); of a notification, whether it is of the last     *)
(* decision and none has failed since (`current`); of a decision yet to be  *)
(* announced, whether the leave has been written to since (`overtaken`).    *)

vars == <<today, leave, told, job>>

Statuses == {"PENDING", "APPROVED", "REJECTED", "CANCELLED"}
Live == {"PENDING", "APPROVED"}
Outcomes == {"APPROVED", "REJECTED"}

Unused == [status |-> "none", employee |-> None, period |-> None]
Idle == [op |-> "idle"]

Init ==
  /\ today = 0
  /\ leave = [l \in Leaves |-> Unused]
  /\ told = [l \in Leaves |-> [outcome |-> "nothing", current |-> TRUE]]
  /\ job = [p \in Requests |-> Idle]

-----------------------------------------------------------------------------
(* Periods: whole days first..last, or the minutes from..to of one day *)

IsFullDay(form) == form.from = Blank /\ form.to = Blank

Accepted(form) ==
  IF IsFullDay(form) THEN form.end >= form.start
  ELSE /\ {form.from, form.to} \subseteq ClockTimes
       /\ form.to > form.from

\* Mutant: an hour's leave keeps the last day of the form.
Period_keepsEnd(form) ==
  [first |-> form.start, last |-> form.end, from |-> form.from, to |-> form.to]

\* An hour's leave is of the first day, whatever last day the form has.
Period(form) ==
  [first |-> form.start,
   last  |-> IF IsFullDay(form) THEN form.end ELSE form.start,
   from  |-> form.from,
   to    |-> form.to]

\* Mutant: an hour's leave is compared with other hours only.
Clash_sameKind(p, q) ==
  /\ p.first <= q.last /\ q.first <= p.last
  /\ (p.from = Blank) = (q.from = Blank)
  /\ p.from = Blank \/ (p.from < q.to /\ q.from < p.to)

Clash(p, q) ==
  /\ p.first <= q.last /\ q.first <= p.last
  /\ p.from = Blank \/ q.from = Blank \/ (p.from < q.to /\ q.from < p.to)

LeavesOf(e) == {l \in Leaves : leave[l].status \in Live /\ leave[l].employee = e}

-----------------------------------------------------------------------------

Proceed(p, next) == job' = [job EXCEPT ![p] = next]
Finish(p) == Proceed(p, Idle)

SetStatus(l, status) ==
  leave' = [leave EXCEPT ![l].status = status,
                         ![l].revived = @ \/ (leave[l].status \notin Live /\ status \in Live)]

\* Slot p moves on; what others have yet to announce of leave l is overtaken.
Overtake(p, next, l) ==
  job' = [q \in Requests |->
            IF q = p THEN next
            ELSE IF job[q].op = "tell" /\ job[q].leave = l
                 THEN [job[q] EXCEPT !.overtaken = TRUE]
                 ELSE job[q]]

\* Bound of the model: there is a row left to create.
LeavesLeft == \E l \in Leaves : leave[l].status = "none"

Rows == {l \in Leaves : leave[l].status # "none"}

\* createLeaveForEmployee: the form is checked, then the employee's live leaves.
Apply(p, e, form) ==
  /\ job[p] = Idle
  /\ LeavesLeft
  /\ Accepted(form)
  /\ \A l \in LeavesOf(e) : ~Clash(Period(form), leave[l].period)
  /\ Proceed(p, [op |-> "create", employee |-> e, period |-> Period(form),
                 before |-> Rows])
  /\ UNCHANGED <<today, leave, told>>

Create(p) ==
  /\ job[p].op = "create"
  /\ \E l \in Leaves :
       /\ leave[l].status = "none"
       /\ leave' = [leave EXCEPT ![l] = [status |-> "PENDING",
                                         employee |-> job[p].employee,
                                         period |-> job[p].period,
                                         before |-> job[p].before, revived |-> FALSE]]
  /\ Finish(p)
  /\ UNCHANGED <<today, told>>

\* updateLeaveStatus: any status replaces any other, except a withdrawal.
Decide(p, l, status) ==
  /\ job[p] = Idle
  /\ leave[l].status \notin {"none", "CANCELLED"}
  /\ Proceed(p, [op |-> "decide", leave |-> l, status |-> status])
  /\ UNCHANGED <<today, leave, told>>

Announcement(p) ==
  [op |-> "tell", leave |-> job[p].leave, status |-> job[p].status, overtaken |-> FALSE]

\* Mutant: only a request still pending changes, and the outcome is announced anyway.
DecideWrite_pendingOnly(p) ==
  /\ job[p].op = "decide"
  /\ IF leave[job[p].leave].status = "PENDING"
     THEN SetStatus(job[p].leave, job[p].status)
     ELSE UNCHANGED leave
  /\ Overtake(p, IF job[p].status \in Outcomes THEN Announcement(p) ELSE Idle, job[p].leave)
  /\ UNCHANGED <<today, told>>

\* The write, then the outcome to announce.
DecideWrite(p) ==
  /\ job[p].op = "decide"
  /\ SetStatus(job[p].leave, job[p].status)
  /\ Overtake(p, IF job[p].status \in Outcomes THEN Announcement(p) ELSE Idle, job[p].leave)
  /\ UNCHANGED <<today, told>>

\* The outcome is put among the employee's notifications.
Tell(p) ==
  /\ job[p].op = "tell"
  /\ told' = [told EXCEPT ![job[p].leave] =
                [outcome |-> job[p].status, current |-> ~job[p].overtaken]]
  /\ Finish(p)
  /\ UNCHANGED <<today, leave>>

\* cancelLeave: by the employee, an approved leave before its first day only.
Cancel(p, l, byAdmin) ==
  /\ job[p] = Idle
  /\ leave[l].status \in Live
  /\ leave[l].status = "APPROVED" /\ ~byAdmin => leave[l].period.first >= today
  /\ Proceed(p, [op |-> "cancel", leave |-> l])
  /\ UNCHANGED <<today, leave, told>>

CancelWrite(p) ==
  /\ job[p].op = "cancel"
  /\ SetStatus(job[p].leave, "CANCELLED")
  /\ Overtake(p, Idle, job[p].leave)
  /\ UNCHANGED <<today, told>>

\* A call of the request fails: what it has written stays.
Fail(p) ==
  /\ job[p] # Idle
  /\ Finish(p)
  /\ told' = IF job[p].op = "tell" /\ ~job[p].overtaken
             THEN [told EXCEPT ![job[p].leave].current = FALSE] ELSE told
  /\ UNCHANGED <<today, leave>>

NextDay ==
  /\ today < MaxDay
  /\ today' = today + 1
  /\ UNCHANGED <<leave, told, job>>

Next ==
  \/ NextDay
  \/ \E p \in Requests :
       \/ \E e \in Employees, form \in Wishes : Apply(p, e, form)
       \/ \E l \in Leaves :
            \/ \E status \in Statuses : Decide(p, l, status)
            \/ \E byAdmin \in BOOLEAN : Cancel(p, l, byAdmin)
       \/ Create(p) \/ DecideWrite(p) \/ Tell(p) \/ CancelWrite(p) \/ Fail(p)

Spec == Init /\ [][Next]_vars

-----------------------------------------------------------------------------
(* Properties *)

\* Stored periods: hours lie on one day, in order.
Periods ==
  {p \in [first : Days, last : Days, from : ClockTimes \cup {Blank},
          to : ClockTimes \cup {Blank}] :
     /\ p.first <= p.last
     /\ (p.from = Blank) = (p.to = Blank)
     /\ p.from # Blank => p.first = p.last /\ p.from < p.to}

Jobs ==
  {Idle}
    \cup [op : {"create"}, employee : Employees, period : Periods,
          before : SUBSET Leaves]
    \cup [op : {"decide"}, leave : Leaves, status : Statuses]
    \cup [op : {"tell"}, leave : Leaves, status : Outcomes, overtaken : BOOLEAN]
    \cup [op : {"cancel"}, leave : Leaves]

LeaveRows ==
  [status : Statuses, employee : Employees, period : Periods,
   before : SUBSET Leaves, revived : BOOLEAN]

TypeOK ==
  /\ today \in Days
  /\ leave \in [Leaves -> LeaveRows \cup {Unused}]
  /\ told \in [Leaves -> [outcome : Outcomes \cup {"nothing"}, current : BOOLEAN]]
  /\ job \in [Requests -> Jobs]

\* The minutes of the calendar a period takes: the meaning that the comparison
\* of dates and clock times (assertNoOverlap) is to agree with.
Covers(p) ==
  {t \in (p.first .. p.last) \X ClockTimes :
     p.from = Blank \/ (p.from <= t[2] /\ t[2] < p.to)}

Share(l, k) == Covers(leave[l].period) \cap Covers(leave[k].period) # {}

\* No two leaves of a person that are pending or approved take the same minute.
\* ClashesExplained says when they do.
LiveLeavesApart ==
  \A l, k \in Leaves :
    /\ l # k
    /\ leave[l].status \in Live /\ leave[k].status \in Live
    /\ leave[l].employee = leave[k].employee
    => ~Share(l, k)

\* A leave that takes a minute of an earlier one was checked against it
\* (createLeaveForEmployee 567-569), so that both are live in two cases only:
\* neither was there when the other was checked, as two requests were sent at
\* once, or the earlier one had been rejected or withdrawn and was made live after
\* all, against which nothing is checked (updateLeaveStatus 602-611).
ClashesExplained ==
  \A l, k \in Leaves :
    /\ l # k
    /\ leave[l].status \in Live /\ leave[k].status \in Live
    /\ leave[l].employee = leave[k].employee
    /\ k \in leave[l].before /\ Share(l, k)
    => leave[k].revived

\* The last decision about leave l is yet to be announced.
Unannounced(l) ==
  \E p \in Requests : job[p].op = "tell" /\ job[p].leave = l /\ ~job[p].overtaken

\* What the employee was told last is the outcome that the leave has, however
\* decisions about it and its withdrawal overlap - unless that announcement has
\* failed, or one of an earlier decision came after it (updateLeaveStatus 607-637).
ToldAsDecided ==
  \A l \in Leaves :
    leave[l].status \in Outcomes /\ told[l].current /\ ~Unannounced(l)
      => told[l].outcome = leave[l].status

\* "Rejects a request that clashes with one of the employee's pending/approved
\* leaves" (assertNoOverlap, line 532): what is created takes no minute of a live
\* leave of the same person.  Two requests at once may.
NoClashAccepted ==
  [][\A l, k \in Leaves :
       /\ leave[l].status = "none" /\ leave'[l].status # "none"
       /\ leave[k].status \in Live
       /\ leave[k].employee = leave'[l].employee
       => Covers(leave'[l].period) \cap Covers(leave[k].period) = {}]_vars

\* What has been withdrawn is not decided any more ("This leave was cancelled by
\* the employee", updateLeaveStatus 603-606).  A decision that was checked before
\* the withdrawal is written all the same.
WithdrawalStands ==
  [][\A l \in Leaves :
       leave[l].status = "CANCELLED" => leave'[l].status = "CANCELLED"]_vars
=============================================================================
