# Attendance bot: specifications and proofs

A TLA+ development of the server in `src/` (NestJS, Prisma, Bot Framework): the
attendance sessions, the employee's day of cards, plans and reviews, the leave
requests, the messages the bot sends by itself, the corrections of tasks, the org
chart with the permissions built on it, and who a Teams user is to the bot and
which chats hear of them. TLC checks small instances of each module; TLAPS proves
the central results for every value of the constants. Paths of code below are relative to
the repository; most of the logic is in `src/src/`.

## The system

A Teams bot and a REST API in front of one PostgreSQL database. The server keeps
almost no state of its own: a request is a chain of `await`ed database calls,
nothing is locked, and any number of requests (of one server instance or of
several) run between two calls of another. Transactions are used in four
places only (the automatic check-out, the corrected check-out, the saving of a
plan, the edit of a task); elsewhere a read and the write that depends on it are separate calls.

| Component | State | Operations | Talks to | What is hard | What makes it correct |
|---|---|---|---|---|---|
| Sessions and breaks: `attendance/attendance.service.ts`, `auto-checkout.service.ts` | tables `Attendance`, `AttendanceBreak` | check in, check out, start and end a break, correct a check-out, sweep of forgotten sessions | called by cards, by the REST API, by a 5-minute timer and lazily by other requests; reads shifts | sweeps and requests interleave; two-call updates may stop half-way; midnight | a sweep closes only open sessions of past days and within their own day; breaks and minutes agree; every forgotten session is closed in the end |
| Company time: `common/time.ts`, `autoCheckOutTime` | none | days, clock times, whole minutes, the time of an automatic check-out | used everywhere | shifts over midnight, unparsable times, a check-in at midnight | the automatic time lies after the check-in and not after its midnight |
| Leave: `admin/admin.service.ts` 486-804, `submit-`, `approve-`, `reject-leave.handler.ts` | table `Leave` | request, decide, withdraw, notify, the year's balance | cards, dashboard, notifications | check and insert are two calls; decisions, re-decisions and withdrawals cross | no minute is on leave twice; what is withdrawn stays withdrawn; people are told what was decided; the balance counts each day once |
| Scheduled messages: `bot/scheduler/scheduler.service.ts` | table `ScheduledSend` | tick: notices, reminders, digests, cleanup | reads sessions, leave, groups, settings; sends through the bot | several instances tick; crashes between claim and send; claims are deleted by age; a run computes with the time of its beginning | nothing is sent twice or late |
| Cards: `TeamsAttendanceBot.ts`, `activity-tracker.service.ts`, `workflows/` | in memory: the cards consumed (5000, 6 hours) | a click, its handler, marking, deleting | all services | double clicks, failing sends, restarts | a card is in one handler's hands, is released, and is answered once |
| Work plan and review: `work-plan.service.ts`, handlers | table `DailyTask` | save the plan, carry over, review, check out | cards, sessions | plans saved again while a review card or another save is open | a session has one plan; a check-out reviews the whole of it; carried-over tasks can be followed back |
| Task corrections and reports: `reports/` | tables `DailyTask`, `TaskEdit` | edit with a log entry, refused by rule; a person's day | dashboard, org chart | read, rule and write are calls apart; running sessions are shown before they end | the log says what an edit changed; only those entitled edit; hours shown do not grow when a session ends |
| Org chart: `admin.service.ts` 186-381 | `Employee.managerEmails`, `hrEmail` | search for all reports, may see, may decide, change of managers | everything that asks | cycles; a query per level while people are moved | nobody is found who is not below, nobody below is missed, every yes has a reason, the search ends |
| Identity: `admin.service.ts`, `TeamsAttendanceBot.ts`, `BotHelper.ts` | `Employee.teamsUserId`, `teamsConversationId`; in memory: the chats remembered | remember the chat, look up, verify, link, create | bot turns, administrators | two turns at once; emails that differ by case; restarts | users are linked to the row of their own mailbox, and no second row is made for it |
| Groups: `groups/` | `TeamsGroup`, assignments | add, change, remove; bot joins and leaves; targets of an employee, members of a group | bot, digests | the rule is written twice | both sides agree |
| Team day, digests, cards | none | summaries, layout | scheduler, bot | - | pure functions |
| Notifications, authentication, transport, shell, dashboard | rows; tokens; none | insert, list, mark read; sign, verify; send | - | - | I/O and layout |

`PROJECT.json` lists each component with its status, and the hazards: the places
where this code can go wrong in a way a test would hardly reach, each with the
property that watches it.

## Modules

```
CompanyTime            days, clock times, the automatic check-out time
 |- SessionLifecycle   what the attendance service promises of a session
 |- AttendanceSession  the service, call by call; implements SessionLifecycle
 |   '- PersonDay      the hours of a day as reports show them
 |- LeaveRequests      leave, call by call
 |   '- LeaveBalance   the year's balance
 |- MessageDelivery    what the scheduler promises of a message
 '- ScheduledSends     the scheduler; its sessions are SessionLifecycle's;
                       implements MessageDelivery
WorkDay                cards, clicks, plans and reviews of one employee
TaskHistory            edits of tasks and their log, beside the chat's writes
OrgChart               the search for reports, and the permissions on it
TeamsRoster            Teams users, employees, chats and groups
MCSerial, MCRaces, MCDays, MCLeave, MCSends,
MCTasks, MCOrgChart, MCRoster                   constants for TLC
CompanyTime_proofs, AttendanceSession_proofs, WorkDay_proofs,
LeaveRequests_proofs, ScheduledSends_proofs,
TaskHistory_proofs, OrgChart_proofs,
TeamsRoster_proofs                              theorems
```

**CompanyTime.** An instant is a natural number of ticks, `MinuteTicks` of them
in a minute, `DayMinutes` minutes in a day; the constants make it possible to
check days of two or three minutes and to prove for real ones. `StartOfDay`,
`NextMidnight`, `AtClockTime`, `MinutesBetween` and `AutoCheckOutTime` are the
functions of the same names. A time of day is a minute of the day or
`Malformed`: shifts and settings are free text that `parseClockTime` may refuse.
Days have a fixed length, which is true of the default zone (Asia/Kolkata) and
not of a zone with summer time.

**AttendanceSession.** `session` and `break` are the two tables, `shift` the
shift each employee is on, `now` the clock, and `job` what each request in
flight holds in its local variables. A step is one database call with the code
up to the next one: `CheckOut` reads the session and its breaks,
`CheckOutWrite` overwrites the row, `StartBreak`, `StartBreakFlip` and
`StartBreakInsert` are the three calls of `startBreak`, and so on; a
`findMany` with `include` is one read and a `$transaction` one step. A
`new Date()` that goes into a call is some instant between the answer to the
previous call and the call (`Stamps`). A sweep works out all closings from its
query (`StaleClosings`) and applies them one transaction at a time, each guarded
on the status (`ApplyAutoClosing`). `Fail` is a failing call or a stopped
server: what was written stays, the rest never runs. `CheckIn` does not look for
an open session of the same day, as in the code: a second session is accepted.

**SessionLifecycle** is the abstract specification: a session is absent, open or
closed, has a check-in, a check-out and the flag of the sweep, and is changed by
five operations. With `OneAtATime = FALSE` it says what is promised whatever
overlaps: a person's write may find the session in another phase than the one it
read, a sweep's never does, recorded check-outs are not before the check-in, and
sweeps and corrections stay within the day of the session. With `TRUE` it is
the promise for requests that do not overlap: a write finds what it read, and
what a sweep has closed is not reopened.

**WorkDay.** The day of one employee in the chat. `card` is the messages with
buttons, in the order they were sent; a card shows a session (`of`) and, when it
asks for the review, the tasks of the moment it was made (`ids`). `consumed` and
`processing` are the two sets of `ActivityTrackerService`; `turn` is what each
click being handled holds in its local variables. `Click` is the beginning of
`handleAction`, with the handler that the pressed button selects; `CheckIn`,
`ShowReview`, `SaveRead`, `SaveDelete`, `SaveCreate`, `Update` and `CheckOut` are
the calls of the handlers; `Answer` sends the next card; `Close` deletes the
clicked card, which may fail, and marks it; `Fail` is any call that throws. The
transaction of `saveDailyPlan` is two steps because PostgreSQL runs it READ
COMMITTED: it deletes the plan it sees, and its effects are visible when it
commits. `task` is table `DailyTask`; a task's id is the number of the save that
made it and its name, so names are unique within a plan (in the code two tasks
of a plan may share one; then the first takes the link). `session` has one step
for what `AttendanceSession` has several. `Hello` is a message to the bot; the
reminders' cards are the same two. Nobody clicks on a card that was deleted from
the chat six hours, five thousand cards or a restart ago (`chat = "forgotten"`):
that is what the tracker's limits take for granted. `OneAtATime` says that the
employee waits for the answer to a click before pressing a button of another
card; clicks on the same card may always come twice. `began`, of a task, is how many
plans had been saved when the transaction that wrote it began; only
`MixedPlansCrossed` reads it.

**LeaveRequests.** `leave` is the table, `told` what the employee was last told
of each leave, `job` the request in flight. `Apply` (form refused or the clash
check read), `Create`, `Decide`, `DecideWrite`, `Tell`, `Cancel` and
`CancelWrite` are the calls of `requestLeave`, `updateLeaveStatus` and
`cancelLeave`. A period is whole days or the minutes of one day; `Clash` is the
code's comparison of dates and clock times. For the properties a row remembers which
rows there were when it was checked (`before`) and whether a decision has made it
live after it had not been (`revived`); an announcement yet to be made remembers
whether another write came before it (`overtaken`), and `told` whether the last one
made was of the last write (`current`). **LeaveBalance** adds
`getLeaveBalance` for one type of leave: days and minutes of a year, used and
pending, worked out from the rows, with a calendar whose working days are a
constant.

**ScheduledSends.** `claims` is table `ScheduledSend`, `run` the run of `tick` on
each instance, `sent` a bag of what was delivered. `Collect` is the query of the
next job, `Claim` the insert that decides whose message it is, `Send` and
`Delete` what the claim was for; `ClaimFails` is any other database error, which
ends the job, and `Crash` the end of the instance. The sessions are those of
`SessionLifecycle` (an `INSTANCE`), so that what the attendance service is shown
to implement is what the scheduler is shown to rest on. Settings, the people who
can be reached, those on approved leave and the groups with members are choices
made with the query that reads them. What a job reads by several queries in a
row is one read. `shift` remembers since when it has been so (`since`): `InTime`
claims nothing of a reminder for a shift that was changed while it was under way.

**MessageDelivery** is what the scheduler is for, without jobs, queries and ticks: a
message that nobody has taken is taken by one sender (`Take`), or claimed by one
that never learns of it (`Waste`); the sender has one go (`Deliver`, `GiveUp`), and
all of that happens between the message's birth and the time it is over. Only the
cleanup forgets claims, and only of messages that are over. `Promise` in
`ScheduledSends` is the refinement mapping: what is claimed are the keys of the
rows, what a sender tries is the key its run is about, what is sent is the domain
of the bag; a run that has not claimed its key yet tries nothing.

**PersonDay** is what `buildPersonDay` makes of a person's sessions and breaks at
the moment somebody looks: the minutes of a running session up to now, those of
a finished one from its row.

**TaskHistory.** `value` is the fields of each `DailyTask` that `editTask` may
change, `edits` its `TaskEdit` rows, `job` the edit in flight: `EditTask` reads
the task, `Decide` asks for the reports and works out the rule and the changes,
`Write` is the transaction. `SavePlan` and `Progress` are the writers of the chat
and of administrators, which write no log: a plan saved again deletes the day's
tasks and, by the cascade, their entries. `reports` is what `getAllReports`
answers (`OrgChart` is about that) and `led` remembers what it has answered. A
request leaves out fields; `Corrected` fills them in from what was read. `base` is
for the properties: what a plan or a review last put in the row, how many entries
there were then, and which fields edits have put back since.

**OrgChart.** `managers` and `hr` are the columns `managerEmails` and `hrEmail`;
an email stands for the person who has it. A question (may this user see, or
decide about, whom?) is a `job` that walks the chart: `Ask`, one `Level` per query
of `getAllReports`, `Answer` with the query for HR's assignments. One answer
stands for `canViewEmployeeData` about each employee and for
`getVisibleEmployeeIds`. `kept` and `seen` are there for the properties: the
lines the chart has had all the while, and at some time, since the question was
asked. `Below` is the reference: the smallest set closed under the lines.

**TeamsRoster.** `row` and `group` are the tables, `known` the memory of chats
(`knownPersonalChats`), `turn` what the start of a turn holds in its local
variables: `Message`, `Remember` (or `RememberFails`, after which the turn goes
on), `Lookup`, `Find`, `Link` or `Create`, `End`. Which of several rows of one
mailbox `findFirst` answers is left open. `Restart` ends all turns and empties the
memory. Administrators create, change and deactivate employees and make, change
and remove groups; `SetActive` is the bot joining or leaving a chat. A write that
breaks a unique column fails (`Taken`, `ChatTaken`). `Addresses` differ by case
within a `Mailbox`. `Targets` is `getTargetsForEmployee`, and `Members` with
`Digested` is `getActiveGroupsWithMembers`, whose two queries are one read here.

Bounds, all named constants: `MaxNow` (the clock), `MaxDay` (the calendar),
`MaxSessions`, `MaxCards` and `MaxSaves` (how often `WorkDay` may add to each),
`TickLimit` (how long a run of `tick`, or a request that checks in, takes), `MaxEdits` (log entries of a task, changes of the chart, edits by administrators)
and the sets of ids. `MaxDepth` (the 25 levels) and `SelfEditDays` are constants of
the code.

## What the runs show

Runs that pass (2 workers; states are distinct states):

| Run | Instance | Shows |
|---|---|---|
| `serial` | one process that is request and sweeper in turn, 2 sessions, 2 breaks, a day of 4 ticks and the beginning of the next, a shift that ends within the day | `TypeOK`; on a break exactly when a break is open (`OnBreakIffOpenBreak`); breaks and minutes add up after any mix of check-out, sweep and correction (`MinutesAddUp`); a sweep ends the breaks (`AutoCloseEndsBreaks`); the flag of the sweep stands only on times a sweep can have recorded (`AutoFlagTruthful`); a session's end adds nothing to the hours shown (`EndAddsNoHours`); the strict lifecycle (`SerialContract`) |
| `races` | two requests that interleave, one of which may fail, beside the timer's sweep; 1 session with a break, a day and the midnight after it | what a job has read stays true where its write relies on it (`ReadsStayTrue`); `SweepKeepsToTheDay`; every call is an operation of the lifecycle (`RacingContract`); with a fair timer and clock a session left open is closed in the end (`StaleIsClosed`) |
| `days` | two clicks at once on one card, 2 days, 2 sessions, 4 cards, 3 saved plans of up to 2 tasks; any call may fail, restarts | a card is released and held by one handler (`HeldByOne`), and answered once (`AnsweredOnce`); a review that checks out is of the whole plan (`ReviewCoversPlan`); links between tasks resolve (`LinksResolve`) |
| `saves_cross` | two clicks at once on any cards, 1 session, 4 cards, 3 saved plans | tasks of two plans stand side by side only when their saves have crossed (`MixedPlansCrossed`) |
| `leave` | 2 leaves, two requests at once, any call of which may fail; days over a weekend and New Year, hours of one of them, from a form with its last day before its first | `TypeOK`; live leaves share a minute only when neither could see the other or one was revived (`ClashesExplained`); as long as they share none, each of their days and minutes is counted once in the balance (`BalanceCountsOnce`); people were told last what their leave is, unless that message failed or was overtaken (`ToldAsDecided`) |
| `notices` | two instances, a session that is closed, corrected and resumed, 3 days | the notice of an automatic check-out goes out at most once, by day and not late (`AtMostOnce`, `InTime`), with the shortest retention that `RetentionAssumption` admits |
| `reminders` | one instance, shifts that change, a day off, a morning window of a third of a day | the check-in and check-out reminders go out at most once (`AtMostOnce`); each was due within the last run's time (`InTime`): its clock time had come, the window of the morning was open, it was a working day, who is to check out had been in for `MinSession`; who has checked in is not reminded to, except while the reminders are going out (`RemindedNotIn`) |
| `digests` | two instances, a group, a day off, claims deleted | digests are neither early nor late (`InTime`), and there is one go at each of them, by the instance that was first to claim it (`DeliveryContract`; that none goes out twice with two instances is in `notices`); `TypeOK` |
| `tasks` | a task of 2 fields, two edits at once, beside reviews and plans saved again; 2 days, a window of the day itself | the log of a task joins up with its row field by field, but for fields an edit has put back (`LogJoinsUp`); people's edits of their own tasks were decided in time (`SelfServiceEnds`; that of others only who leads them may is its theorem) |
| `org_chart` | 4 people (one of HR, one administrator), a line longer than the search is deep, the same line closed to a circle, a chart with two managers, and 2 changes while a question is walked | `FoundAreBelow`; `BelowAreFound`, also of a search that is cut off; `GrantsHaveReasons`; every query but the last finds somebody (`QueriesAreFew`), and every question ends (`QuestionsEnd`) |
| `roster` | 2 employees, 2 Teams users, 3 addresses of 2 mailboxes, 2 turns at once, restarts, a default group and another, an administrator's edit | users are linked to their own mailbox's row (`LinkIsVerified`); no second row for a mailbox (`NoPhantoms`); who loses a race is linked (`LoserIsLinked`); digests and announcements agree (`SidesAgree`) |

Every property of these runs is known to fail when the code is changed in a
plausible way: the definitions marked "Mutant" in the modules (a guard dropped,
a comparison off by one, a claim that is an upsert, ...), listed in
`PROJECT.json`.

The run that finds what the schema says and the code does not do:

| Run | Property | What happens |
|---|---|---|
| `chat_forgotten` | `ChatKnown` | `beforeTurn` remembers the chat before the turn has linked or made the employee's row; the update matches no row, the memory takes the chat for stored, and the person gets no reminder or notice until the server restarts (`admin.service.ts:97`, against `schema.prisma:34-35`) |

Met on the way, and seen with TLC under changed constants or properties, without
a run of their own:

- A manual check-out that read the session before the sweep's transaction
  overwrites the sweep's time and leaves its flag (`attendance.service.ts:103`,
  although line 152 says "so a manual check-out racing this sweep wins cleanly", and
  `schema.prisma:154` "closed by the midnight sweep, not the employee";
  `AutoFlagTruthful` with the constants of `races` and a tick more).
- Two plan cards of a session submitted at once leave both plans
  (`work-plan.service.ts:55`, although line 52 says "Saving replaces the whole
  plan"; `OnePlan` with the constants of `saves_cross`).
- Two requests at once for leave of the same day are both accepted, since the check
  and the insert are two calls (`admin.service.ts:569-570`, although line 532 says
  "Rejects a request that clashes"; `NoClashAccepted` with the constants of `leave`).
- A decision that read a leave before it was cancelled is written over that, and the
  leave is live again (`admin.service.ts:607`, although line 605 refuses with "This
  leave was cancelled by the employee"; `WithdrawalStands` with the constants of
  `leave`).
- An edit of a task writes the whole row as it was read and puts back what a review
  or another edit has changed since; its entry does not say so
  (`reports.service.ts:452`, although line 398 says "history is amended, never
  silently rewritten"; `AmendedNotRewritten` with the constants of `tasks`).

  For the last four a property of a run says how far the trouble goes:
  `MixedPlansCrossed`, `ClashesExplained`, `ToldAsDecided` and `LogJoinsUp` hold
  whatever overlaps, and name the one way in which two plans stay, live leaves clash,
  people are told something else, or a log stops telling the row.
- A break being started while a sweep closes its session is inserted afterwards
  and stays open, in a session on_break with the sweep's flag, until the next sweep
  (`AutoCloseEndsBreaks` with the constants of `races`; that the next sweep takes it
  up is `StaleIsClosed`).
- Two requests at once to start a break insert two open breaks, and their minutes are
  both counted (`OnBreakIffOpenBreak` and `MinutesAddUp` with the constants of `races`
  and a second break).
- A break started or ended between midnight and the sweep turns a check-out at
  the end of the shift into one at midnight, although lines 116-117 say "The
  check-out recorded is the same whenever this runs".
- A rejected leave is approved after another has taken its days, without any
  interleaving, although `assertNoOverlap` is to keep live leaves apart
  (`admin.service.ts:532-533`; `LiveLeavesApart` as an invariant of `leave`).
- A plan saved again deletes the day's tasks and their entries with
  them, and a plan or review card of a past day that is still in the chat rewrites
  that day's tasks without an entry, although `schema.prisma:201-202` says "kept
  so history can be corrected without being silently rewritten".
- An administrator who gives an employee another address between the lookup and
  the write of a turn can make the bot link the wrong row or make a second one
  (`LinkIsVerified`, `NoPhantoms` with `OneAtATime = FALSE`). An employee linked to
  another Teams user keeps the former user's chat until the new one writes.
- A check-out during a break counts the open break for 0 minutes, so the day's
  hours grow by it, and leaves it open: the reports go on counting it, and ending
  it later reopens the session. Two sessions of one person that overlap are
  counted twice in the day's hours.
- A message claimed and then not sent, because the send fails or the server
  stops, is never sent, which the code accepts.
- When the answer to a click cannot be sent, what the
  handler did stays done and the card can be pressed again, so that for instance
  a second session is opened, although `activity-tracker.service.ts:8-9` says "so
  a card action isn't processed twice".
- The comment at `auto-checkout.service.ts:14` ("the check-out time recorded is
  always the midnight itself") is older than `autoCheckOutTime`, which records the
  end of the shift.

**Why the bounds are enough.** Days of two to four ticks have every distinction
the code makes: midnight, the first instant of a day, a clock time, one after
it, the end of the day. A minute of two ticks in `serial` shows rounding. A
day and the beginning of the next let a session be started, swept, corrected and
looked at again, and another be opened beside it; whether the shift's end or midnight
is recorded depends on when the session and its breaks begin. A
race of the sessions is between two requests, any of which sweeps when it looks a
session up, and the timer; in `races` one of the two may fail, which of them being
all the same. Two breaks are the
smallest number with "the latest open break", and are in `serial`. In `days` the second day's plan may carry over the first's, and the third save is
the first day's plan saved again while the second's points to it; the four
cards are those of one day (check in, plan, work, review), or two rounds of check
in and plan; a failed deletion or call leaves an earlier one in the chat beside a
later one. Two saves cross in `saves_cross`, and the third is one that comes after;
links to another day need a second session, which with handlers that overlap is
beyond TLC and left to the theorem `LinksAlwaysResolve`. In `leave` the three days
are a day off, the last day of a year and the first of the
next; a clash is of two leaves, of days with days, with hours, and of hours with
the same hours (other hours are left to the theorem `ClashIsOverlap`), and a race of two requests, with
decisions and withdrawals as many as one likes. In `tasks` two fields are needed
to see one that is not asked for, and two edits for one that overtakes another; a
second user, who comes to lead the first, is beyond TLC there and left to the
theorem `OnlyTheEntitledEdit`. In `org_chart` four people
in a line are one level more than `MaxDepth`, so that the search is cut off before
the last of them; two changes cut a line, join one and make a circle while
it is walked. In `roster` two turns are a race, of one user or of two; the
groups to begin with are every state two edits would lead to. In the runs of the scheduler the windows and the retention are the
smallest that keep their order in the code (window < day, notices for longer
than a day, retention longer than both plus a run), so that deletion happens
within the bound on the clock.

**Fairness.** `FairSpec` assumes that time passes, that the timer's sweep is
begun when something is stale (`AutoCheckoutService` calls it every five minutes
and on boot), and that a sweep in progress gets to its next transaction. Nobody
is assumed to press a button or to finish a request, and sweeps of the timer do
not fail in `races`: if every sweep failed nothing would be closed. In
`org_chart` the queries of a question that was asked are answered (`WF` of `Level`
and `Answer`); nobody is assumed to ask or to change anything.

Deadlock is not checked: clocks and ids are bounded, so every run comes to an
end of the model.

## What is proved

The proofs hold for any sets of employees, sessions, breaks, requests, leaves,
groups, instances, cards and plans (breaks finite), any lengths of minute and day, any windows,
and no bound on the clock: `MaxNow` is only a guard. Assumptions are the `ASSUME`s of the
modules: types of the constants, and `RetentionAssumption` in `ScheduledSends`
(the 30 days that claims are kept exceed a day, and the 48 hours of the notices,
by at least the length of a run). `KeyAssumption` says that null is not a message.

- `CompanyTime_proofs`: **AutoCheckOutWithinDay**, the time of an automatic
  check-out lies after the check-in and not after the midnight of its day,
  whatever the breaks and the shift. It rests on lemmas about division by the
  length of a day, on the maximum of a finite set, and on `SumOfNaturals` and
  `SumSplits` (a finite sum of naturals is natural, and is any of its terms and
  the sum of the others), where a minimal-element argument stands for an
  induction over finite sets. In the same way `CountsAddUp`: summing over a finite
  set of owners how many things each owns counts every thing once when no two own
  the same, and nothing twice. `FloorOfSum` and `CutBack` are about whole minutes:
  what is lost when an interval is cut in two, and when a break is cut at an end.
- `AttendanceSession_proofs`: **TypeCorrect**, **ReadsAreSound**,
  **SweepIsSound** and **ImplementsLifecycle** (the call-by-call specification
  implements `SessionLifecycle` with `OneAtATime = FALSE`), with any number of
  overlapping requests and failures. The inductive invariant is
  `TypeOK /\ ReadsStayTrue`. It is needed because the sweep's transaction is
  guarded on the status alone: that the closing it carries lies in the
  session's day and that the day is over was established some calls earlier, and
  has to be known of every job in flight. Each action has one lemma for the
  invariant and one for the refinement.
  When there is one slot and nothing fails (`OneAtATime`, the assumption of
  `serial`), also **BreaksMatchStatus**, **MinutesAreRight**, **SweepEndsBreaks**,
  **FlagIsTruthful** and **ImplementsSerialLifecycle**, for any number of sessions
  and breaks. Their invariant `SerialInv` is needed because a request takes several
  calls: between two of them one session is out of step with its breaks (`Held`),
  and all the others are `Settled`; what the job has read is what the tables still
  hold (`Fresh`), and a closing's minutes are those its session's breaks will have
  (`Exact`). That working minutes are never negative rests on the breaks fitting
  between the check-in and any later instant (`Fits`), which a sum of floors keeps
  because an ended break lasts at least its whole minutes.
  **EndsAddNoHours**, under the same assumption, is about the reports: `ShownMinutes`
  counts an open break up to now, `CheckOut` and `AutoClosing` count what the row
  will say. `HoursInv` adds to `SerialInv` that minutes are numbers and that finitely
  many sessions have been begun, so that a day is a finite sum in which all terms but
  one are untouched (`OneSessionWritten`). The one that ends was shown with the
  breaks its closing counts, up to an instant not before the check-out
  (`CheckOutAddsNothing`); when a sweep cuts it back with its open break, the session
  loses the time in between and the break at most that and a minute of rounding
  (`CutBack`, `ClosingAddsNothing`).
- `WorkDay_proofs`: **CardsHeldByOne**, **CardsAnsweredOnce** and
  **LinksAlwaysResolve** for any number of clicks at once, whatever fails or
  restarts, and in the same generality **PlansReplaced** (`MixedPlansCrossed`); under
  `OneAtATime` **ReviewsCoverPlans**.
  The invariants hold each the one before it. `CInv`: the types,
  and that a card deleted from the chat is marked or forgotten, without which a
  click could reach it again. `LInv`: ids are not used twice, and what a save has
  read still tells its own session's tasks from the others', so the tasks it
  links to are never those it deletes. `MInv`: a transaction that has begun has seen
  every plan of its session saved before (`SeenFromStart`), so what it leaves behind
  has been saved since. `SInv`: one handler at work; the tasks on
  a review card are a whole plan as long as one of them exists (`WholeIn`), so a
  review that has found all its tasks has reviewed all there are; what a review
  has updated exists and has a status.
- `LeaveRequests_proofs`: **ClashIsOverlap** (the code's comparison of periods
  is right: two accepted periods clash exactly when they share a minute),
  and, with any number of requests at once and any failures, **LeaveTypesCorrect**,
  **RequestsApart** (`ClashesExplained`) and **OutcomesTold** (`ToldAsDecided`).
  `CInv` adds to the types that a row just checked, or a request about to create one,
  is apart from the rows it was checked against as long as those are live and have
  been all the time; `AInv` that an announcement not overtaken is of the status the
  leave has. **BalanceIsRight** holds likewise: what the
  year's balance adds up, row by row, is the number of working days, and of minutes,
  that somebody is on leave, as long as live leaves are apart. Its invariant is
  the types and that the table has finitely many rows (`RowsFinite`); days and minutes are then counted by `CountsAddUp`, where each row
  owns its working days of that year, or its minutes.
- `ScheduledSends_proofs`: **SentAtMostOnce**, **SentInTime**,
  **RemindersAreDue** and **SendTypesCorrect**, for any number of instances, crashes and failures, when
  the sessions follow the strict lifecycle (`OneAtATime`). The inductive
  invariant `SInv`: a run holds only messages that were due when it began (`DueAt`, which
  stays true of that instant whatever happens since: `DueStays`, `DueUnmoved`), so a
  message can be held only up to its birth plus its span plus `TickLimit`; a
  claim is made after the message's birth; whatever was sent or is being sent
  is claimed until nobody can hold it any more. The cleanup keeps this because
  of `RetentionAssumption`; a claim is only ever inserted for a message nobody
  has handled. `AtMostOnce` is not inductive alone: it says nothing of who
  holds what. **TriedOnce** is the refinement of `MessageDelivery`, one lemma per
  action (`ClaimKeepsPromise`, ...): a key that is claimed was free to take since
  whoever handled it would have left a claim (`FreeToTake`), a run is never about a
  message that is over (`HeldInTime`), and a claim that is deleted is of one that is
  (`ForgottenIsOver`).
  `AbsentOK` is needed besides: a session that is not there has no check-in, so the
  contract sees it begun once.
- `TaskHistory_proofs`: **TypeCorrect**, **OnlyTheEntitledEdit** and
  **LogIsFaithful** (`LogJoinsUp`), with any number of edits at once beside reviews
  and saved plans. `EntitledInv`: who was let pass by the rule was entitled by then.
  `JoinedInv`: the log and the row join up field by field, and an edit on its way to
  the log writes what its entry says against what it has read; an entry joins unless
  the field has changed since (`EntryJoins`). What a log tells of a field is its last
  entry that names it; that a set of entries has a last one is a minimal-element
  argument again (`MaxIsThere`).
- `OrgChart_proofs`: **TypeCorrect**, **SearchIsSound**, **SearchIsComplete** and
  **GrantsAreReasoned**, for charts of any size and shape, changed at will. The
  invariant `WalkInv`: what is visited is the person and people below by lines
  seen (`Sound`); whoever has reported all the while to somebody the search is
  done with has been visited (`Complete`); each level but the last has found
  somebody (`Deep`). For a search that is cut off, `Chains` says that a chain of
  lines kept all the while has been followed as far as levels have been gone down
  (`LevelReaches`). **SearchIsShort**
  is from `Deep` too: the bound on the queries without which no fairness would make
  `QuestionsEnd` true.
- `TeamsRoster_proofs`: **TypeCorrect** and **RoutesAgree** whatever overlaps, and
  **LosersAreLinked**, **NoPhantomRows** and **LinksAreVerified** for any number of
  turns at once, when administrators write between turns. The invariant says what
  a turn about to link or to create knows: the row it found is still of the user's
  mailbox, or no row of that mailbox exists that is not the user's own, which
  rests on the unique columns and on Teams having one user per mailbox.

What is only model-checked: liveness (`StaleIsClosed` and `QuestionsEnd`; fairness
and `ENABLED` are outside the prover's reach). Every other property of a run that
passes is also a theorem. What a recursive definition computes for every input cannot
be proved either (induction over data); no module here declares a `RECURSIVE`
operator.

## What is not modelled, and why

- Managers' and HR's messages about leave, allowances and policies: messages and
  settings that decide nothing (an allowance is shown, never enforced). A decision
  in `LeaveRequests` is one the caller was allowed, which `OrgChart` is about.
- A change of an employee's email. The chart, HR's assignments and the tokens in
  use name people by email, so it cuts off the person's reports until their rows
  are edited, and until the next login the searches still start at the old one.
- Roles are those of the token: a role taken away lasts as long as the token, and
  a deactivated employee's turns pass `ensureAuthenticated` as before.
- `lastBotEndpoint`, which several instances keep apart and write over each other.
- Clicks without a `replyToId`: `handleAction` does not deduplicate them, and has no
  card to delete. Every `Click` of `WorkDay` is of a card.
- The command `/groupid`, which `onMessage` answers before it looks the user up; in
  `TeamsRoster` every message goes on to the lookup.
- Lists, filters, pages and totals of the REST API: reads.
- The cards for breaks, leave and corrected check-outs, and the posts to groups:
  their service calls are in the other modules, and `handleAction` treats them
  alike. Permission minutes, estimates and remarks of a plan are data.
- The raw writes of administrators on plans (`work-plan.controller.ts`).
- Zones with summer time; ISO weekdays beyond "working day or not"; formatting.
- Authentication, transport, static files, health checks, the self-ping, the
  dashboard's code: no state of the server that a property would be about.
- The settings' reminder and digest times are constants of a run: an admin who
  changes them during the day is not modelled.

- Of the lines under `src/`, nine tenths are not this program: the vendored scripts
  and fixtures under `.agents/skills/`. The application has some 7,400 lines of
  TypeScript, a third of which is cards, forms and wiring. So the share of all
  lines that the map covers stays small, whatever is modelled.

## Plan

Done, in this order: `CompanyTime`, `AttendanceSession` with `SessionLifecycle`,
`LeaveRequests`, `ScheduledSends`, `WorkDay`, `TaskHistory`, `OrgChart`,
`TeamsRoster`, `PersonDay`, `LeaveBalance` and `MessageDelivery`, each followed by its proofs
(those of `PersonDay` are in `AttendanceSession_proofs`, of `LeaveBalance` in
`LeaveRequests_proofs`, of `MessageDelivery` in `ScheduledSends_proofs`).

What remains, the most useful first: emails in `OrgChart` instead of the people
they stand for; `WorkDay` with the sessions of `SessionLifecycle`, so that a review
and a sweep at once are composed.
