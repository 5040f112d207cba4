--------------------------- MODULE ScheduledSends ---------------------------
(***************************************************************************)
(* The messages the bot sends by itself,                                   *)
(* src/src/bot/scheduler/scheduler.service.ts: reminders to check in and   *)
(* out, the digests of the groups, and the notice of an automatic          *)
(* check-out.  Every server instance ticks on its own; a message belongs   *)
(* to the instance that first inserts its key in table ScheduledSend.      *)
(*                                                                         *)
(* The sessions are those of SessionLifecycle, which the attendance        *)
(* service implements; here they are what the queries read.  A step is one *)
(* database call or one send.                                              *)
(***************************************************************************)
EXTENDS CompanyTime, Bags, BagsExt

CONSTANTS
  Employees, Groups,
  Sessions, Owner,          \* Attendance rows and their employees
  OneAtATime,               \* the promise SessionLifecycle makes
  Instances,                \* server instances
  Shifts,                   \* the shifts an admin may give an employee
  CheckInClock, CheckOutClock, MorningClock, EveningClock,   \* Settings
  NoticeFrom,               \* no notice before this clock time
  ShiftGrace,               \* minutes
  MinSession, MorningWindow, NoticeWindow, Retention,        \* ticks
  DaysOff,                  \* days that are not working days
  TickLimit,                \* bound: a run of `tick`, or a request, ends by then
  MaxNow,                   \* bound on the clock
  None

ASSUME SchedulerAssumption ==
  /\ Owner \in [Sessions -> Employees]
  /\ Shifts \subseteq ShiftRecords
  /\ {CheckInClock, CheckOutClock, MorningClock, EveningClock} \subseteq Clocks
  /\ NoticeFrom \in ClockTimes
  /\ {ShiftGrace, MinSession, MorningWindow, NoticeWindow, Retention, TickLimit} \subseteq Nat
  /\ MaxNow \in Nat
  /\ None \notin Employees \cup Groups \cup Sessions

\* The month that claims are kept outlasts every message that may still be due.
ASSUME RetentionAssumption ==
  Retention >= TickLimit + DayTicks /\ Retention >= TickLimit + NoticeWindow

VARIABLES
  now,
  entry,      \* session -> phase, in, out, auto (SessionLifecycle)
  shift,      \* employee -> shift, and since when, which only properties read
  claims,     \* the rows of table ScheduledSend
  run,        \* instance -> its run of `tick`, with its local variables
  sent        \* the messages delivered, a bag of keys

vars == <<now, entry, shift, claims, run, sent>>

Life == INSTANCE SessionLifecycle WITH clock <- now

DayOf(t) == t \div DayTicks

\* "kind:id:day"; what is sent once in all has no day.
Key(kind, of, day) == [kind |-> kind, of |-> of, day |-> day]

Given(s, t) == [start |-> s.start, end |-> s.end, since |-> t]

Asleep == [at |-> NoTime, jobs |-> {}, todo |-> {}, key |-> None]

Init ==
  /\ Life!Init
  /\ shift \in [Employees -> {Given(s, NoTime) : s \in Shifts}]
  /\ claims = {}
  /\ run = [i \in Instances |-> Asleep]
  /\ sent = EmptyBag

-----------------------------------------------------------------------------
(* What is due, in a tick that began at `at` *)

\* Mutant: due until tomorrow.
IsDueWithin_anyTime(at, t, window) == t # NoTime /\ t <= at

\* From t on: for a morning window, or until the day is over.
IsDueWithin(at, t, window) == t # NoTime /\ t <= at /\ at < t + window
IsDue(at, t) == t # NoTime /\ t <= at /\ at < NextMidnight(t)

Later(clock) ==
  IF clock # Malformed /\ clock + ShiftGrace < DayMinutes
  THEN clock + ShiftGrace ELSE Malformed

\* The first that parses.
OrElse(clock, fallback) == IF clock = Malformed THEN fallback ELSE clock

StartClock(s) == OrElse(Later(s.start), CheckInClock)

\* A night shift ends on the next day; what does not parse counts as 0.
EndClock(s) ==
  IF OrElse(s.end, 0) <= OrElse(s.start, 0)
  THEN CheckOutClock ELSE OrElse(Later(s.end), CheckOutClock)

Exists(a) == entry[a].phase # "none"
OfToday(a, at) == Exists(a) /\ entry[a].in >= StartOfDay(at)

\* Mutant: sessions of any age.
DueNotices_ever(at, reachable) ==
  {Key("autoclose", a, 0) : a \in
     {s \in Sessions : /\ at >= AtClockTime(at, NoticeFrom)
                       /\ entry[s].auto
                       /\ Owner[s] \in reachable}}

DueNotices(at, reachable) ==
  {Key("autoclose", a, 0) : a \in
     {s \in Sessions : /\ at >= AtClockTime(at, NoticeFrom)
                       /\ entry[s].auto
                       /\ entry[s].out >= at - NoticeWindow
                       /\ Owner[s] \in reachable}}

\* Mutant: sessions that are over do not count.
DueCheckIns_notOpen(at, reachable, away) ==
  {Key("checkin", e, DayOf(at)) : e \in
     {f \in reachable \ away :
        /\ IsDueWithin(at, AtClockTime(at, StartClock(shift[f])), MorningWindow)
        /\ ~\E a \in Sessions : Owner[a] = f /\ entry[a].phase = "open" /\ OfToday(a, at)}}

DueCheckIns(at, reachable, away) ==
  {Key("checkin", e, DayOf(at)) : e \in
     {f \in reachable \ away :
        /\ IsDueWithin(at, AtClockTime(at, StartClock(shift[f])), MorningWindow)
        /\ ~\E a \in Sessions : Owner[a] = f /\ OfToday(a, at)}}

DueCheckOuts(at, reachable) ==
  {Key("checkout", Owner[a], DayOf(at)) : a \in
     {s \in Sessions :
        LET clockAt == AtClockTime(at, EndClock(shift[Owner[s]]))
        IN  /\ entry[s].phase = "open" /\ OfToday(s, at)
            /\ Owner[s] \in reachable
            /\ clockAt # NoTime
            /\ IsDue(at, Max({clockAt, entry[s].in + MinSession}))}}

DueDigests(at, groups) ==
  {Key("digest-am", g, DayOf(at)) : g \in
     {h \in groups : IsDueWithin(at, AtClockTime(at, MorningClock), MorningWindow)}}
  \cup
  {Key("digest-pm", g, DayOf(at)) : g \in
     {h \in groups : IsDue(at, AtClockTime(at, EveningClock))}}

\* Mutant: the key of the cleanup has no day, so that it is done once for all.
Cleanup_once(at) == Key("cleanup", None, NoTime)

Cleanup(at) == Key("cleanup", None, DayOf(at))

Due(job, at, reachable, away, groups) ==
  CASE job = "notices"   -> DueNotices(at, reachable)
    [] job = "checkins"  -> DueCheckIns(at, reachable, away)
    [] job = "checkouts" -> DueCheckOuts(at, reachable)
    [] job = "digests"   -> DueDigests(at, groups)
    [] job = "cleanup"   -> {Cleanup(at)}

-----------------------------------------------------------------------------
(* A run of `tick` on instance i: its jobs one after the other, each a     *)
(* query, then for each message a claim and a send.  It computes with the  *)
(* time at which it began.                                                 *)

Rank == [notices |-> 1, checkins |-> 2, checkouts |-> 3, digests |-> 4, cleanup |-> 5]
AllJobs == DOMAIN Rank

Running(i) == run[i].at # NoTime

Sending(i) == run[i].key # None

Claimed(k) == \E c \in claims : c.key = k

Continue(i, jobs, todo, key) ==
  run' = [run EXCEPT ![i] = [at |-> run[i].at, jobs |-> jobs, todo |-> todo, key |-> key]]

Stop(i) == run' = [run EXCEPT ![i] = Asleep]

JobsOn(day, reminders, digests) ==
  {"notices", "cleanup"}
    \cup (IF reminders /\ day \notin DaysOff THEN {"checkins", "checkouts"} ELSE {})
    \cup (IF digests /\ day \notin DaysOff THEN {"digests"} ELSE {})

\* A run is not begun while the last one is under way; settings say which jobs.
StartTick(i, reminders, digests) ==
  /\ run[i] = Asleep
  /\ run' = [run EXCEPT ![i] = [at |-> now, jobs |-> JobsOn(DayOf(now), reminders, digests),
                                todo |-> {}, key |-> None]]
  /\ UNCHANGED <<now, entry, shift, claims, sent>>

\* The next job's query: whom it can reach, who is on approved leave and which
\* groups have members is read with it.
Collect(i) ==
  /\ Running(i)
  /\ ~Sending(i) /\ run[i].todo = {}
  /\ \E job \in run[i].jobs, reachable \in SUBSET Employees,
        away \in SUBSET Employees, groups \in SUBSET Groups :
       /\ \A other \in run[i].jobs : Rank[job] <= Rank[other]
       /\ Continue(i, run[i].jobs \ {job},
                   Due(job, run[i].at, reachable, away, groups), None)
  /\ UNCHANGED <<now, entry, shift, claims, sent>>

\* Mutant: an upsert, which never finds a duplicate.
Claim_upsert(i) ==
  /\ Running(i)
  /\ ~Sending(i)
  /\ \E k \in run[i].todo :
       /\ Continue(i, run[i].jobs, run[i].todo \ {k}, k)
       /\ claims' = {c \in claims : c.key # k} \cup {[key |-> k, createdAt |-> now]}
  /\ UNCHANGED <<now, entry, shift, sent>>

\* The row is inserted, and the send is ours; or it is there already.
Claim(i) ==
  /\ Running(i)
  /\ ~Sending(i)
  /\ \E k \in run[i].todo :
       IF Claimed(k)
       THEN /\ Continue(i, run[i].jobs, run[i].todo \ {k}, None)
            /\ UNCHANGED claims
       ELSE /\ Continue(i, run[i].jobs, run[i].todo \ {k}, k)
            /\ claims' = claims \cup {[key |-> k, createdAt |-> now]}
  /\ UNCHANGED <<now, entry, shift, sent>>

\* Any other error than a duplicate key ends the job, whether or not the row
\* was inserted.
ClaimFails(i) ==
  /\ Running(i)
  /\ ~Sending(i)
  /\ \E k \in run[i].todo :
       /\ Continue(i, run[i].jobs, {}, None)
       /\ \/ UNCHANGED claims
          \/ /\ ~Claimed(k)
             /\ claims' = claims \cup {[key |-> k, createdAt |-> now]}
  /\ UNCHANGED <<now, entry, shift, sent>>

\* Mutant: what could not be delivered is handed back, to be tried again.
Send_handedBack(i) ==
  /\ Running(i)
  /\ Sending(i) /\ run[i].key.kind # "cleanup"
  /\ \/ sent' = BagAdd(sent, run[i].key) /\ UNCHANGED claims
     \/ UNCHANGED sent /\ claims' = {c \in claims : c.key # run[i].key}
  /\ Continue(i, run[i].jobs, run[i].todo, None)
  /\ UNCHANGED <<now, entry, shift>>

\* Delivered or not, it is not tried again.
Send(i) ==
  /\ Running(i)
  /\ Sending(i) /\ run[i].key.kind # "cleanup"
  /\ sent' \in {sent, BagAdd(sent, run[i].key)}
  /\ Continue(i, run[i].jobs, run[i].todo, None)
  /\ UNCHANGED <<now, entry, shift, claims>>

\* Mutant: claims are kept for the day they guard.
Delete_yesterday(i) ==
  /\ Running(i)
  /\ Sending(i) /\ run[i].key.kind = "cleanup"
  /\ claims' \in {claims, {c \in claims : c.createdAt >= StartOfDay(run[i].at)}}
  /\ Continue(i, run[i].jobs, run[i].todo, None)
  /\ UNCHANGED <<now, entry, shift, sent>>

\* Old claims are deleted; when that fails, tomorrow's cleanup does it.
Delete(i) ==
  /\ Running(i)
  /\ Sending(i) /\ run[i].key.kind = "cleanup"
  /\ claims' \in {claims, {c \in claims : c.createdAt >= run[i].at - Retention}}
  /\ Continue(i, run[i].jobs, run[i].todo, None)
  /\ UNCHANGED <<now, entry, shift, sent>>

EndTick(i) ==
  /\ Running(i)
  /\ ~Sending(i) /\ run[i].todo = {} /\ run[i].jobs = {}
  /\ Stop(i)
  /\ UNCHANGED <<now, entry, shift, claims, sent>>

\* The server stops, or is put to sleep for good: the rest is never run.
Crash(i) ==
  /\ Running(i)
  /\ Stop(i)
  /\ UNCHANGED <<now, entry, shift, claims, sent>>

-----------------------------------------------------------------------------
(* The environment *)

\* Time does not pass a run's limit: until then it has ended, or stopped.
Clock ==
  /\ now < MaxNow
  /\ \A i \in Instances : Running(i) => now < run[i].at + TickLimit
  /\ Life!Tick
  /\ UNCHANGED <<shift, claims, run, sent>>

\* The employees and the sweeps, as far as a session shows it.
Attend(a) ==
  /\ \/ Life!CheckIn(a) /\ entry'[a].in >= now - TickLimit
     \/ Life!CheckOut(a) \/ Life!AutoCheckOut(a)
     \/ Life!Correct(a) \/ Life!Resume(a)
  /\ UNCHANGED <<shift, claims, run, sent>>

ChangeShift(e) ==
  /\ \E s \in Shifts :
       /\ <<s.start, s.end>> # <<shift[e].start, shift[e].end>>
       /\ shift' = [shift EXCEPT ![e] = Given(s, now)]
  /\ UNCHANGED <<now, entry, claims, run, sent>>

Next ==
  \/ Clock
  \/ \E a \in Sessions : Attend(a)
  \/ \E e \in Employees : ChangeShift(e)
  \/ \E i \in Instances :
       \/ \E reminders, digests \in BOOLEAN : StartTick(i, reminders, digests)
       \/ Collect(i)
       \/ Claim(i) \/ ClaimFails(i)
       \/ Send(i) \/ Delete(i)
       \/ EndTick(i) \/ Crash(i)

Spec == Init /\ [][Next]_vars

-----------------------------------------------------------------------------
(* Properties *)

Daily == {"checkin", "checkout", "digest-am", "digest-pm"}

Keys ==
  [kind : Daily \cup {"autoclose", "cleanup"},
   of : Employees \cup Groups \cup Sessions \cup {None}, day : Nat]

\* null is not a key.
ASSUME KeyAssumption == None \notin Keys

Runs ==
  [at : Instants \cup {NoTime}, jobs : SUBSET AllJobs, todo : SUBSET Keys,
   key : Keys \cup {None}]

TypeOK ==
  /\ now \in Instants
  /\ shift \in [Employees -> [start : Clocks, end : Clocks, since : Instants \cup {NoTime}]]
  /\ claims \subseteq [key : Keys, createdAt : Instants]
  /\ run \in [Instances -> Runs]
  /\ IsABag(sent) /\ DOMAIN sent \subseteq Keys

\* However many instances tick, crash and fail, no message is delivered twice:
\* neither while its claim is kept nor after the cleanup has deleted it (claim
\* 146-159, the 48 hours of 195, the 30 days of 400-407).
AtMostOnce == \A k \in DOMAIN sent : sent[k] = 1

\* Between which clock times a daily message is due, by the Settings or the shift
\* of its addressee.
Opening(k) ==
  AtClockTime(k.day * DayTicks,
    CASE k.kind = "checkin"   -> StartClock(shift[k.of])
      [] k.kind = "checkout"  -> EndClock(shift[k.of])
      [] k.kind = "digest-am" -> MorningClock
      [] k.kind = "digest-pm" -> EveningClock)

Closing(k) ==
  IF k.kind \in {"checkin", "digest-am"}
  THEN Opening(k) + MorningWindow ELSE (k.day + 1) * DayTicks

\* The addressee's shift has been changed since.
Moved(k, at) == k.kind \in {"checkin", "checkout"} /\ shift[k.of].since >= at

DailyDueAt(k, at) ==
  /\ DayOf(at) = k.day /\ k.day \notin DaysOff
  /\ Moved(k, at) \/ (Opening(k) # NoTime /\ Opening(k) <= at /\ at < Closing(k))
  /\ k.kind = "checkout" =>
       \E a \in Sessions :
         Owner[a] = k.of /\ OfToday(a, at) /\ entry[a].in + MinSession <= at

NoticeDueAt(k, at) ==
  LET midnight == NextMidnight(entry[k.of].in)
  IN  /\ AtClockTime(at, NoticeFrom) <= at
      /\ midnight <= now /\ at <= midnight + NoticeWindow

DueAt(k, at) == IF k.kind \in Daily THEN DailyDueAt(k, at) ELSE NoticeDueAt(k, at)

Delivered(k) == IF k \in DOMAIN sent THEN sent[k] ELSE 0

\* What is delivered was due at most TickLimit ago, though it is sent when other
\* messages have been and the server may have slept: on its working day, from its
\* clock time on and not hours late in the morning ("skipped, not sent stale",
\* line 29), to somebody who has been checked in for MinSession; a notice by day
\* and within its 48 hours (tick 89-130, isDue 161-168, 260, 322-332).
InTime ==
  [][\A k \in DOMAIN sent' :
       Delivered(k)' > Delivered(k) =>
         \E at \in (now - TickLimit) .. now : DueAt(k, at)]_vars

\* Who checks in is not reminded to, unless it happens while the reminders are
\* going out: the job reads once who has checked in, and the run goes on for
\* TickLimit (sendCheckInReminders 250-310; "reminds once, at the default time,
\* only people not checked in").
RemindedNotIn ==
  [][\A k \in DOMAIN sent' :
       k.kind = "checkin" /\ Delivered(k)' > Delivered(k) =>
         \A a \in Sessions :
           Owner[a] = k.of /\ Exists(a) /\ entry[a].in >= k.day * DayTicks
             => entry[a].in >= now - 2 * TickLimit]_vars

-----------------------------------------------------------------------------
(* What the claims are for *)

Promise == INSTANCE MessageDelivery WITH
             Senders <- Instances, NoticeSpan <- NoticeWindow, Patience <- TickLimit,
             clock <- now, begun <- [a \in Sessions |-> entry[a].in],
             claimed <- {c.key : c \in claims},
             trying <- [i \in Instances |-> run[i].key], sent <- DOMAIN sent

\* Whatever instances tick, crash and fail, a message is tried once, by the
\* instance that claimed it first and while it is good for something: a failed
\* send or a lost answer is not made up for, and the cleanup forgets no claim
\* of a message that could still be taken again ("True the first time `key` is
\* claimed - the send is then ours to make", claim 145-159; "only needed for
\* the day they guard - keep a month", cleanup 399-407).
DeliveryContract == Promise!Spec
=============================================================================
