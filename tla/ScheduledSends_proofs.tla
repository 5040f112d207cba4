------------------------ MODULE ScheduledSends_proofs ------------------------
(***************************************************************************)
(* No message is delivered twice, and each is due when it is, for any      *)
(* number of instances, people, groups and sessions, and for any windows   *)
(* that RetentionAssumption admits.                                        *)
(*                                                                         *)
(* The argument: a run works on keys that were due when it began, and ends *)
(* TickLimit later, so a key is in use for a bounded time after its birth; *)
(* a claim is made after the birth and is kept longer than that. From the  *)
(* same invariant: each message is tried once (MessageDelivery).           *)
(***************************************************************************)
EXTENDS ScheduledSends, CompanyTime_proofs

\* The first instant at which a key can be due, and for how long it can be.
Birth(k) ==
  IF k.kind = "autoclose" THEN NextMidnight(entry[k.of].in) ELSE k.day * DayTicks

Span(k) == IF k.kind = "autoclose" THEN NoticeWindow ELSE DayTicks

\* A notice is of a session that exists, a reminder of an employee.
Founded(k) ==
  /\ k.kind = "autoclose" => k.of \in Sessions /\ Exists(k.of)
  /\ k.kind \in {"checkin", "checkout"} => k.of \in Employees

EntryRecords ==
  [phase : {"none", "open", "closed"}, in : Instants \cup {NoTime},
   out : Instants \cup {NoTime}, auto : BOOLEAN]

EntryOK ==
  /\ entry \in [Sessions -> EntryRecords]
  /\ \A a \in Sessions :
       /\ Exists(a) => entry[a].in \in 0 .. now
       /\ entry[a].auto =>
            /\ entry[a].phase = "closed"
            /\ entry[a].out \in Instants
            /\ entry[a].out <= NextMidnight(entry[a].in)
            /\ NextMidnight(entry[a].in) <= now

\* What run i holds: the messages to claim and the one being sent.
Holds(i, k) == k \in run[i].todo \/ (k = run[i].key /\ k # None)

\* Who is reminded to check in has done so at most a request's time before the
\* run began.
NotIn(k, at) ==
  k.kind = "checkin" =>
    \A a \in Sessions :
      Owner[a] = k.of /\ OfToday(a, at) => entry[a].in >= at - TickLimit

\* Due when the run began.
WasDue(k, at) ==
  /\ Founded(k)
  /\ Birth(k) <= now
  /\ at <= Birth(k) + Span(k)
  /\ k.kind # "cleanup" => DueAt(k, at)
  /\ NotIn(k, at)

RunsOK ==
  \A i \in Instances :
    Running(i) =>
      /\ run[i].at <= now /\ now <= run[i].at + TickLimit
      /\ run[i].jobs \cap {"checkins", "checkouts", "digests"} # {} =>
           DayOf(run[i].at) \notin DaysOff
      /\ \A k \in Keys : Holds(i, k) => WasDue(k, run[i].at)

AsleepOK == \A i \in Instances : ~Running(i) => run[i] = Asleep

ClaimsOK ==
  \A c \in claims :
    Founded(c.key) /\ Birth(c.key) <= c.createdAt /\ c.createdAt <= now

\* Delivered, or being sent.
Handled(k) ==
  k # None /\ (k \in DOMAIN sent \/ \E i \in Instances : run[i].key = k)

\* What has been handled is claimed until nobody can hold it any more.
ClaimsKept ==
  \A k \in Keys : Handled(k) =>
    /\ Founded(k)
    /\ Claimed(k) \/ now > Birth(k) + Span(k) + TickLimit

\* A message is being sent by one run, for the first time.
Exclusive ==
  /\ \A i, j \in Instances : run[i].key # None /\ run[i].key = run[j].key => i = j
  /\ \A i \in Instances : run[i].key # None => run[i].key \notin DOMAIN sent

SInv ==
  /\ TypeOK /\ EntryOK
  /\ RunsOK /\ AsleepOK
  /\ ClaimsOK /\ ClaimsKept
  /\ Exclusive
  /\ AtMostOnce

-----------------------------------------------------------------------------
(* Time *)

LEMMA LimitsAreNumbers ==
  /\ DayTicks \in Nat /\ NoticeWindow \in Nat /\ MorningWindow \in Nat
  /\ TickLimit \in Nat /\ Retention \in Nat
BY DayTicksPositive, SchedulerAssumption

\* The d-th day.
LEMMA DayOfStart ==
  ASSUME NEW d \in Nat
  PROVE  /\ d * DayTicks \in Nat
         /\ (d + 1) * DayTicks = d * DayTicks + DayTicks
         /\ StartOfDay(d * DayTicks) = d * DayTicks
<1>1. \A m \in Nat \ {0} : /\ d * m \in Nat
                           /\ (d + 1) * m = d * m + m
                           /\ (d * m) \div m = d
  OBVIOUS
<1> QED BY <1>1, DayTicksPositive DEF StartOfDay

LEMMA DayOfInstant ==
  ASSUME NEW t \in Instants
  PROVE  /\ DayOf(t) \in Nat
         /\ DayOf(t) * DayTicks = StartOfDay(t)
         /\ StartOfDay(t) <= t /\ t < StartOfDay(t) + DayTicks
         /\ \A clock : AtClockTime(DayOf(t) * DayTicks, clock) = AtClockTime(t, clock)
<1>1. /\ DayOf(t) \in Nat
      /\ DayOf(t) * DayTicks = StartOfDay(t)
      /\ StartOfDay(t) <= t /\ t < StartOfDay(t) + DayTicks
  BY DayTicksPositive, DivisionBounds DEF DayOf, StartOfDay, Instants
<1>2. StartOfDay(DayOf(t) * DayTicks) = StartOfDay(t)
  BY <1>1, DayOfStart
<1> QED BY <1>1, <1>2 DEF AtClockTime

LEMMA MidnightIsAnInstant ==
  ASSUME NEW t \in Instants
  PROVE  NextMidnight(t) \in Nat
BY DayBounds DEF Instants

\* The lifecycle's copy of the clock is the scheduler's.
LEMMA SameClock ==
  /\ Life!NoTime = NoTime
  /\ \A t : Life!NextMidnight(t) = NextMidnight(t)
BY DEF Life!NoTime, NoTime, Life!NextMidnight, NextMidnight, Life!StartOfDay,
       StartOfDay, Life!DayTicks, DayTicks

\* Births and spans of the keys that are founded.
LEMMA KeyTimes ==
  ASSUME EntryOK, now \in Instants, NEW k \in Keys, Founded(k)
  PROVE  /\ Birth(k) \in Nat /\ Span(k) \in Nat
         /\ Span(k) + TickLimit <= Retention
<1>1. CASE k.kind = "autoclose"
  <2>1. entry[k.of].in \in Instants
    BY <1>1 DEF Founded, EntryOK, Instants
  <2> QED BY <1>1, <2>1, MidnightIsAnInstant, LimitsAreNumbers, RetentionAssumption
        DEF Birth, Span
<1>2. CASE k.kind # "autoclose"
  <2>1. k.day \in Nat
    BY DEF Keys
  <2> QED BY <1>2, <2>1, DayOfStart, LimitsAreNumbers, RetentionAssumption DEF Birth, Span
<1> QED BY <1>1, <1>2

-----------------------------------------------------------------------------
(* Sessions, as the lifecycle promises them *)

\* Check-ins do not move, sessions stay, and new ones are of now.
CheckInsStay ==
  \A a \in Sessions :
    /\ Exists(a) => Exists(a)' /\ entry'[a].in = entry[a].in
    /\ ~Exists(a) /\ Exists(a)' => entry'[a].in >= now - TickLimit

LEMMA EntrySet ==
  ASSUME EntryOK, NEW a \in Sessions, NEW phase \in {"open", "closed"},
         NEW in \in 0 .. now, NEW out \in Instants \cup {NoTime}, NEW auto \in BOOLEAN,
         now \in Instants, Life!Set(a, phase, in, out, auto),
         Exists(a) => in = entry[a].in,
         ~Exists(a) => in >= now - TickLimit,
         auto => /\ phase = "closed" /\ out \in Instants
                 /\ out <= NextMidnight(in) /\ NextMidnight(in) <= now
  PROVE  EntryOK' /\ CheckInsStay
<1> DEFINE r == [phase |-> phase, in |-> in, out |-> out, auto |-> auto]
<1>1. now' = now /\ entry' = [entry EXCEPT ![a] = r]
  BY DEF Life!Set
<1>2. r \in EntryRecords
  BY DEF EntryRecords, Instants
<1>3. entry \in [Sessions -> EntryRecords]
  BY DEF EntryOK
<1>4. /\ entry' \in [Sessions -> EntryRecords]
      /\ entry'[a] = r
      /\ \A s \in Sessions \ {a} : entry'[s] = entry[s]
  BY <1>1, <1>2, <1>3
<1>5. /\ entry'[a].phase = phase /\ entry'[a].in = in
      /\ entry'[a].out = out /\ entry'[a].auto = auto
  BY <1>4
<1>6. ASSUME NEW s \in Sessions
      PROVE  /\ Exists(s)' => entry'[s].in \in 0 .. now'
             /\ entry'[s].auto =>
                  /\ entry'[s].phase = "closed"
                  /\ entry'[s].out \in Instants
                  /\ entry'[s].out <= NextMidnight(entry'[s].in)
                  /\ NextMidnight(entry'[s].in) <= now'
  <2>1. CASE s = a
    BY <1>1, <1>5, <2>1
  <2>2. CASE s # a
    BY <1>1, <1>4, <2>2 DEF EntryOK, Exists
  <2> QED BY <2>1, <2>2
<1>7. EntryOK'
  BY <1>4, <1>6 DEF EntryOK
<1>8. CheckInsStay
  BY <1>4, <1>5 DEF CheckInsStay, Exists
<1> QED BY <1>7, <1>8

LEMMA SessionFields ==
  ASSUME EntryOK, NEW a \in Sessions
  PROVE  /\ entry[a].phase \in {"none", "open", "closed"}
         /\ entry[a].in \in Instants \cup {NoTime} /\ entry[a].out \in Instants \cup {NoTime}
         /\ entry[a].auto \in BOOLEAN
BY DEF EntryOK, EntryRecords

\* With the promise for requests that do not overlap, what a sweep has closed
\* is left as it is, or corrected.
LEMMA AttendPreserves ==
  ASSUME OneAtATime, EntryOK, now \in Instants, NEW a \in Sessions, Attend(a)
  PROVE  EntryOK' /\ CheckInsStay /\ UNCHANGED <<now, shift, claims, run, sent>>
<1> USE SessionFields, SameClock
<1>1. CASE Life!CheckIn(a) /\ entry'[a].in >= now - TickLimit
  <2>1. PICK t \in 0 .. now : Life!Set(a, "open", t, Life!NoTime, FALSE)
    BY <1>1 DEF Life!CheckIn
  <2>2. ~Exists(a)
    BY <1>1 DEF Life!CheckIn, Exists
  <2>3. entry'[a].in = t
    BY <2>1 DEF Life!Set, EntryOK
  <2>4. t >= now - TickLimit
    BY <1>1, <2>3
  <2>5. EntryOK' /\ CheckInsStay
    BY <2>1, <2>2, <2>4, EntrySet
  <2> QED BY <2>1, <2>5 DEF Attend, Life!Set
<1>2. CASE Life!CheckOut(a)
  <2>1. entry[a].phase = "open"
    BY <1>2 DEF Life!CheckOut, Life!Expects
  <2>2. entry[a].in \in 0 .. now /\ ~entry[a].auto /\ Exists(a)
    BY <2>1 DEF EntryOK, Exists
  <2>3. PICK t \in entry[a].in .. now : Life!Set(a, "closed", entry[a].in, t, entry[a].auto)
    BY <1>2 DEF Life!CheckOut
  <2>4. t \in Instants
    BY <2>2 DEF Instants
  <2>5. EntryOK' /\ CheckInsStay
    BY <2>2, <2>3, <2>4, EntrySet
  <2> QED BY <2>3, <2>5 DEF Attend, Life!Set
<1>3. CASE Life!AutoCheckOut(a)
  <2>1. entry[a].phase = "open" /\ NextMidnight(entry[a].in) <= now
    BY <1>3 DEF Life!AutoCheckOut
  <2>2. entry[a].in \in 0 .. now /\ Exists(a)
    BY <2>1 DEF EntryOK, Exists
  <2>3. PICK t \in entry[a].in + 1 .. NextMidnight(entry[a].in) :
          Life!Set(a, "closed", entry[a].in, t, TRUE)
    BY <1>3 DEF Life!AutoCheckOut, Life!RestOfDay
  <2>4. NextMidnight(entry[a].in) \in Nat
    BY <2>2, MidnightIsAnInstant DEF Instants
  <2>5. t \in Instants /\ t <= NextMidnight(entry[a].in)
    BY <2>2, <2>3, <2>4 DEF Instants
  <2>6. EntryOK' /\ CheckInsStay
    BY <2>1, <2>2, <2>3, <2>5, EntrySet
  <2> QED BY <2>3, <2>6 DEF Attend, Life!Set
<1>4. CASE Life!Correct(a)
  <2>1. entry[a].phase = "closed"
    BY <1>4 DEF Life!Correct, Life!Expects
  <2>2. entry[a].in \in 0 .. now /\ Exists(a)
    BY <2>1 DEF EntryOK, Exists
  <2>3. PICK t \in entry[a].in + 1 .. NextMidnight(entry[a].in) :
          Life!Set(a, "closed", entry[a].in, t, FALSE)
    BY <1>4, <2>1 DEF Life!Correct, Life!RestOfDay
  <2>4. NextMidnight(entry[a].in) \in Nat
    BY <2>2, MidnightIsAnInstant DEF Instants
  <2>5. t \in Instants
    BY <2>2, <2>3, <2>4 DEF Instants
  <2>6. EntryOK' /\ CheckInsStay
    BY <2>2, <2>3, <2>5, EntrySet
  <2> QED BY <2>3, <2>6 DEF Attend, Life!Set
<1>5. CASE Life!Resume(a)
  <2>1. entry[a].phase = "closed" /\ ~entry[a].auto
    BY <1>5 DEF Life!Resume, Life!Expects
  <2>2. entry[a].in \in 0 .. now /\ Exists(a)
    BY <2>1 DEF EntryOK, Exists
  <2>3. Life!Set(a, "open", entry[a].in, entry[a].out, entry[a].auto)
    BY <1>5 DEF Life!Resume
  <2>4. EntryOK' /\ CheckInsStay
    BY <2>1, <2>2, <2>3, EntrySet
  <2> QED BY <2>3, <2>4 DEF Attend, Life!Set
<1> QED BY <1>1, <1>2, <1>3, <1>4, <1>5 DEF Attend

\* What a key means does not change when sessions do.
LEMMA KeysStay ==
  ASSUME CheckInsStay, NEW k, Founded(k)
  PROVE  /\ Founded(k)' /\ Birth(k)' = Birth(k)
         /\ Span(k)' = Span(k)
<1>1. CASE k.kind = "autoclose"
  <2>1. k.of \in Sessions /\ Exists(k.of)' /\ entry'[k.of].in = entry[k.of].in
    BY <1>1 DEF Founded, CheckInsStay
  <2> QED BY <1>1, <2>1 DEF Founded, Birth, Span, Exists
<1>2. CASE k.kind # "autoclose"
  BY <1>2 DEF Founded, Birth, Span
<1> QED BY <1>1, <1>2

\* Shifts change, and the properties are told when.
ShiftsStay ==
  \A e \in Employees : shift'[e] = shift[e] \/ shift'[e].since >= now

\* What was due at an instant still counts as due at it later.
LEMMA DueStays ==
  ASSUME CheckInsStay, ShiftsStay, now' >= now, now \in Nat, now' \in Nat,
         shift' \in [Employees -> [start : Clocks, end : Clocks,
                                   since : Instants \cup {NoTime}]],
         EntryOK, NEW k \in Keys, k.kind # "cleanup", Founded(k),
         NEW at \in Nat, at <= now, DueAt(k, at)
  PROVE  DueAt(k, at)'
<1>1. CASE k.kind \in Daily
  <2>1. DailyDueAt(k, at)
    BY <1>1 DEF DueAt
  <2>2. k.kind = "checkout" =>
          \E a \in Sessions :
            Owner[a] = k.of /\ OfToday(a, at)' /\ entry'[a].in + MinSession <= at
    BY <2>1 DEF DailyDueAt, CheckInsStay, OfToday
  <2>3. CASE k.kind \in {"checkin", "checkout"} /\ shift'[k.of] # shift[k.of]
    <3>1. shift'[k.of].since >= now /\ shift'[k.of].since \in Int
      BY <2>3 DEF ShiftsStay, Instants, NoTime, Founded
    <3>2. shift'[k.of].since >= at
      BY <3>1
    <3>3. Moved(k, at)'
      BY <2>3, <3>2 DEF Moved
    <3> QED BY <1>1, <2>1, <2>2, <3>3 DEF DueAt, DailyDueAt
  <2>4. CASE k.kind \in {"checkin", "checkout"} => shift'[k.of] = shift[k.of]
    <3>1. (Moved(k, at) <=> Moved(k, at)')
      BY <2>4 DEF Moved
    <3>2. Opening(k)' = Opening(k)
      <4>1. CASE k.kind = "checkin"
        BY <2>4, <4>1 DEF Opening
      <4>2. CASE k.kind = "checkout"
        BY <2>4, <4>2 DEF Opening
      <4>3. CASE k.kind \in {"digest-am", "digest-pm"}
        BY <4>3 DEF Opening
      <4> QED BY <1>1, <4>1, <4>2, <4>3 DEF Daily
    <3>3. Closing(k)' = Closing(k)
      BY <3>2 DEF Closing
    <3> QED BY <1>1, <2>1, <2>2, <3>1, <3>2, <3>3 DEF DueAt, DailyDueAt
  <2> QED BY <2>3, <2>4
<1>2. CASE k.kind \notin Daily
  <2>1. k.kind = "autoclose"
    BY <1>2 DEF Keys
  <2>2. entry'[k.of].in = entry[k.of].in /\ entry[k.of].in \in Instants
    BY <2>1 DEF Founded, CheckInsStay, EntryOK, Instants
  <2>3. NextMidnight(entry[k.of].in) \in Nat
    BY <2>2, MidnightIsAnInstant
  <2>4. NoticeDueAt(k, at)
    BY <1>2 DEF DueAt
  <2>5. NoticeDueAt(k, at)'
    BY <2>2, <2>3, <2>4 DEF NoticeDueAt
  <2> QED BY <1>2, <2>5 DEF DueAt
<1> QED BY <1>1, <1>2

\* Nothing changes that a due time depends on.
LEMMA DueUnmoved ==
  ASSUME UNCHANGED <<now, entry, shift>>, NEW k, NEW at
  PROVE  DueAt(k, at)' <=> DueAt(k, at)
<1>1. Opening(k)' = Opening(k) /\ (Moved(k, at)' <=> Moved(k, at))
  BY DEF Opening, Moved
<1>2. Closing(k)' = Closing(k)
  BY <1>1 DEF Closing
<1>3. DailyDueAt(k, at)' <=> DailyDueAt(k, at)
  BY <1>1, <1>2 DEF DailyDueAt, OfToday, Exists
<1>4. NoticeDueAt(k, at)' <=> NoticeDueAt(k, at)
  BY DEF NoticeDueAt
<1> QED BY <1>3, <1>4 DEF DueAt

\* Sessions change, or time passes within the limit of every run.
LEMMA EnvironmentPreserves ==
  ASSUME SInv, TypeOK', EntryOK', CheckInsStay, ShiftsStay, now' >= now,
         UNCHANGED <<claims, run, sent>>,
         \A i \in Instances : Running(i) => now' <= run[i].at + TickLimit
  PROVE  SInv'
<1>1. now \in Nat /\ now' \in Nat
  BY DEF SInv, TypeOK, Instants
<1>2. ASSUME NEW k \in Keys, NEW at \in Nat, at <= now, WasDue(k, at) PROVE WasDue(k, at)'
  <2>1. Birth(k) \in Nat
    BY <1>2, <1>1, KeyTimes DEF WasDue, SInv, Instants
  <2>2. ASSUME NEW a \in Sessions, Owner[a] = k.of, k.kind = "checkin", OfToday(a, at)'
        PROVE  entry'[a].in >= at - TickLimit
    <3>1. entry'[a].in >= StartOfDay(at) /\ Exists(a)'
      BY <2>2 DEF OfToday
    <3>2. CASE Exists(a)
      BY <1>2, <2>2, <3>1, <3>2 DEF CheckInsStay, WasDue, NotIn, OfToday
    <3>3. CASE ~Exists(a)
      <4>1. entry'[a].in >= now - TickLimit
        BY <3>1, <3>3 DEF CheckInsStay
      <4>2. entry'[a].in \in Int /\ TickLimit \in Int
        BY <3>1, LimitsAreNumbers DEF EntryOK
      <4> QED BY <1>1, <1>2, <4>1, <4>2
    <3> QED BY <3>2, <3>3
  <2>3. NotIn(k, at)'
    BY <2>2 DEF NotIn
  <2>4. k.kind # "cleanup" => DueAt(k, at)'
    <3>1. shift' \in [Employees -> [start : Clocks, end : Clocks,
                                    since : Instants \cup {NoTime}]]
      BY DEF TypeOK
    <3>2. EntryOK /\ Founded(k)
      BY <1>2 DEF SInv, WasDue
    <3> QED BY <1>1, <1>2, <3>1, <3>2, DueStays DEF WasDue
  <2> QED BY <1>1, <1>2, <2>1, <2>3, <2>4, KeysStay DEF WasDue
<1>3. RunsOK'
  <2> SUFFICES ASSUME NEW i \in Instances, Running(i)'
               PROVE  (/\ run[i].at <= now /\ now <= run[i].at + TickLimit
                       /\ run[i].jobs \cap {"checkins", "checkouts", "digests"} # {} =>
                            DayOf(run[i].at) \notin DaysOff
                       /\ \A k \in Keys : Holds(i, k) => WasDue(k, run[i].at))'
    BY DEF RunsOK
  <2>1. Running(i)
    BY DEF Running
  <2>2. PICK at \in Nat : at = run[i].at /\ at <= now
    BY <2>1 DEF Running, SInv, TypeOK, Runs, RunsOK, Instants
  <2>3. at = run'[i].at
    BY <2>2
  <2>4. \A k \in Keys : Holds(i, k)' => WasDue(k, at)
    BY <2>1, <2>2 DEF SInv, RunsOK, Holds
  <2>5. \A k \in Keys : Holds(i, k)' => WasDue(k, at)'
    BY <1>2, <2>2, <2>4
  <2>6. \A k \in Keys : Holds(i, k)' => WasDue(k, run[i].at)'
    BY <2>3, <2>5 DEF WasDue, NotIn, OfToday, DueAt, DailyDueAt, NoticeDueAt, Moved
  <2>7. run'[i].jobs \cap {"checkins", "checkouts", "digests"} # {} =>
          DayOf(run'[i].at) \notin DaysOff
    BY <2>1, <2>3 DEF SInv, RunsOK
  <2> QED BY <1>1, <2>1, <2>2, <2>6, <2>7
<1>4. ClaimsOK'
  <2>1. ASSUME NEW c \in claims
        PROVE  Founded(c.key)' /\ Birth(c.key)' <= c.createdAt /\ c.createdAt <= now'
    <3>1. Founded(c.key) /\ Birth(c.key) <= c.createdAt /\ c.createdAt <= now
      BY DEF SInv, ClaimsOK
    <3>2. c.createdAt \in Nat
      BY DEF SInv, TypeOK, Instants
    <3> QED BY <1>1, <3>1, <3>2, KeysStay
  <2> QED BY <2>1 DEF ClaimsOK
<1>5. ClaimsKept'
  <2>1. ASSUME NEW k \in Keys, Handled(k)'
        PROVE  Founded(k)' /\ (Claimed(k)' \/ now' > Birth(k)' + Span(k)' + TickLimit)
    <3>1. Founded(k) /\ (Claimed(k) \/ now > Birth(k) + Span(k) + TickLimit)
      BY <2>1 DEF Handled, SInv, ClaimsKept
    <3>2. Birth(k) \in Nat /\ Span(k) \in Nat /\ TickLimit \in Nat
      BY <1>1, <3>1, KeyTimes, LimitsAreNumbers DEF SInv, Instants
    <3> QED BY <1>1, <3>1, <3>2, KeysStay DEF Claimed
  <2> QED BY <2>1 DEF ClaimsKept
<1>6. AsleepOK' /\ Exclusive' /\ AtMostOnce'
  BY DEF SInv, AsleepOK, Running, Exclusive, AtMostOnce
<1> QED BY <1>3, <1>4, <1>5, <1>6 DEF SInv

-----------------------------------------------------------------------------
(* What a query finds was due when the run began *)

\* A key of the day of the run.
LEMMA DayKeyWasDue ==
  ASSUME SInv, NEW at \in Instants, at <= now, NEW k \in Keys,
         k.kind \in Daily \cup {"cleanup"}, k.day = DayOf(at),
         k.kind \in Daily => DailyDueAt(k, at),
         k.kind \in {"checkin", "checkout"} => k.of \in Employees,
         k.kind = "checkin" => ~\E a \in Sessions : Owner[a] = k.of /\ OfToday(a, at)
  PROVE  WasDue(k, at)
<1>1. k.kind # "autoclose"
  BY DEF Daily
<1>2. /\ k.day * DayTicks = StartOfDay(at)
      /\ StartOfDay(at) <= at /\ at < StartOfDay(at) + DayTicks
  BY DayOfInstant
<1>3. at \in Nat /\ now \in Nat /\ StartOfDay(at) \in Nat
  BY DayBounds DEF SInv, TypeOK, Instants
<1>4. Founded(k) /\ Birth(k) = StartOfDay(at) /\ Span(k) = DayTicks
  BY <1>1, <1>2 DEF Founded, Birth, Span
<1>5. k.kind # "cleanup" => DueAt(k, at)
  BY DEF DueAt
<1>6. Birth(k) <= now /\ at <= Birth(k) + Span(k)
  BY <1>2, <1>3, <1>4, LimitsAreNumbers
<1>7. NotIn(k, at)
  BY DEF NotIn
<1> QED BY <1>4, <1>5, <1>6, <1>7 DEF WasDue

LEMMA NoticeWasDue ==
  ASSUME SInv, NEW at \in Instants, at <= now, NEW a \in Sessions,
         entry[a].auto, entry[a].out >= at - NoticeWindow,
         at >= AtClockTime(at, NoticeFrom)
  PROVE  WasDue(Key("autoclose", a, 0), at)
<1> DEFINE k == Key("autoclose", a, 0)
           midnight == NextMidnight(entry[a].in)
<1>1. /\ Exists(a) /\ entry[a].out \in Nat
      /\ entry[a].out <= midnight /\ midnight <= now
  BY DEF SInv, EntryOK, Exists, Instants
<1>2. entry[a].in \in Instants
  BY <1>1 DEF SInv, EntryOK, Instants
<1>3. midnight \in Nat /\ at \in Nat /\ NoticeWindow \in Nat
  BY <1>2, MidnightIsAnInstant, LimitsAreNumbers DEF Instants
<1>4. at <= midnight + NoticeWindow
  BY <1>1, <1>3
<1>5. k.kind = "autoclose" /\ k.of = a
  BY DEF Key
<1>6. Birth(k) = midnight /\ Span(k) = NoticeWindow
  BY <1>5 DEF Birth, Span
<1>7. Founded(k) /\ k.kind \notin Daily /\ NotIn(k, at)
  BY <1>1, <1>5 DEF Founded, Daily, NotIn
<1>8. AtClockTime(at, NoticeFrom) <= at
  BY <1>3, ClockTimeType DEF Instants, NoTime
<1>9. DueAt(k, at)
  BY <1>1, <1>4, <1>5, <1>7, <1>8 DEF DueAt, NoticeDueAt
<1> QED BY <1>1, <1>3, <1>4, <1>6, <1>7, <1>9 DEF WasDue

\* Employees, groups and sessions: whom keys are of.
LEMMA KeyIsAKey ==
  ASSUME NEW kind \in Daily \cup {"autoclose", "cleanup"},
         NEW of \in Employees \cup Groups \cup Sessions \cup {None}, NEW day \in Nat
  PROVE  Key(kind, of, day) \in Keys
BY DEF Key, Keys

LEMMA DueWasDue ==
  ASSUME SInv, NEW i \in Instances, Running(i), NEW job \in run[i].jobs,
         NEW reachable \in SUBSET Employees, NEW away \in SUBSET Employees,
         NEW groups \in SUBSET Groups,
         NEW k \in Due(job, run[i].at, reachable, away, groups)
  PROVE  k \in Keys /\ WasDue(k, run[i].at)
<1>1. PICK at \in Instants : at = run[i].at /\ at <= now
  BY DEF SInv, TypeOK, Runs, RunsOK, Running
<1>2. DayOf(at) \in Nat
  BY DayOfInstant
<1>3. job \in {"notices", "checkins", "checkouts", "digests", "cleanup"}
  BY DEF SInv, TypeOK, Runs, AllJobs, Rank
<1>4. job \in {"checkins", "checkouts", "digests"} => DayOf(at) \notin DaysOff
  BY <1>1 DEF SInv, RunsOK
<1>5. /\ DayOf(at) * DayTicks = StartOfDay(at) /\ at < (DayOf(at) + 1) * DayTicks
      /\ \A clock : AtClockTime(DayOf(at) * DayTicks, clock) = AtClockTime(at, clock)
  BY <1>2, DayOfInstant, DayOfStart
<1>6. k \in Keys /\ WasDue(k, at)
  <2>1. CASE job = "notices"
    <3>1. PICK a \in Sessions : /\ k = Key("autoclose", a, 0)
                                /\ entry[a].auto /\ entry[a].out >= at - NoticeWindow
                                /\ at >= AtClockTime(at, NoticeFrom)
      BY <1>1, <2>1 DEF Due, DueNotices
    <3> QED BY <1>1, <3>1, NoticeWasDue, KeyIsAKey
  <2>2. CASE job = "checkins"
    <3>1. PICK e \in Employees :
            /\ k = Key("checkin", e, DayOf(at))
            /\ ~\E a \in Sessions : Owner[a] = e /\ OfToday(a, at)
            /\ IsDueWithin(at, AtClockTime(at, StartClock(shift[e])), MorningWindow)
      BY <1>1, <2>2 DEF Due, DueCheckIns
    <3>2. k \in Keys /\ k.kind = "checkin" /\ k.of = e /\ k.day = DayOf(at)
      BY <1>2, <3>1, KeyIsAKey DEF Key, Daily
    <3>3. Opening(k) = AtClockTime(at, StartClock(shift[e]))
      BY <1>5, <3>2 DEF Opening
    <3>4. Closing(k) = Opening(k) + MorningWindow
      BY <3>2 DEF Closing
    <3>5. DailyDueAt(k, at)
      BY <1>4, <2>2, <3>1, <3>2, <3>3, <3>4 DEF DailyDueAt, IsDueWithin
    <3> QED BY <1>1, <3>1, <3>2, <3>5, DayKeyWasDue DEF Daily
  <2>3. CASE job = "checkouts"
    <3>1. PICK a \in Sessions :
            /\ k = Key("checkout", Owner[a], DayOf(at)) /\ OfToday(a, at)
            /\ AtClockTime(at, EndClock(shift[Owner[a]])) # NoTime
            /\ IsDue(at, Max({AtClockTime(at, EndClock(shift[Owner[a]])),
                              entry[a].in + MinSession}))
      BY <1>1, <2>3 DEF Due, DueCheckOuts
    <3> DEFINE clockAt == AtClockTime(at, EndClock(shift[Owner[a]]))
               from == entry[a].in + MinSession
    <3>2. Owner[a] \in Employees
      BY SchedulerAssumption
    <3>3. k \in Keys /\ k.kind = "checkout" /\ k.of = Owner[a] /\ k.day = DayOf(at)
      BY <1>2, <3>1, <3>2, KeyIsAKey DEF Key, Daily
    <3>4. Opening(k) = clockAt /\ Closing(k) = (DayOf(at) + 1) * DayTicks
      BY <1>5, <3>3 DEF Opening, Closing
    <3>5. clockAt \in Nat
      BY <1>1, <3>1, ClockTimeType DEF Instants
    <3>6. from \in Nat
      <4>1. entry[a].in \in Nat
        BY <3>1 DEF SInv, EntryOK, OfToday
      <4> QED BY <4>1, SchedulerAssumption
    <3> HIDE DEF clockAt, from
    <3>7. Max({clockAt, from}) \in Nat /\ Max({clockAt, from}) >= clockAt
            /\ Max({clockAt, from}) >= from
      BY <3>5, <3>6, LaterOfTwo
    <3>8. Max({clockAt, from}) <= at
      BY <3>1 DEF IsDue, clockAt, from
    <3>9. clockAt <= at /\ from <= at
      BY <1>1, <3>5, <3>6, <3>7, <3>8 DEF Instants
    <3>10. Opening(k) # NoTime /\ Opening(k) <= at /\ at < Closing(k)
      BY <1>5, <3>4, <3>5, <3>9 DEF NoTime
    <3>11. Owner[a] = k.of /\ OfToday(a, at) /\ entry[a].in + MinSession <= at
      BY <3>1, <3>3, <3>9 DEF from
    <3>12. DailyDueAt(k, at)
      BY <1>4, <2>3, <3>3, <3>10, <3>11 DEF DailyDueAt
    <3> QED BY <1>1, <3>2, <3>3, <3>12, DayKeyWasDue DEF Daily
  <2>4. CASE job = "digests"
    <3>1. CASE \E g \in groups :
                 /\ k = Key("digest-am", g, DayOf(at))
                 /\ IsDueWithin(at, AtClockTime(at, MorningClock), MorningWindow)
      <4>1. PICK g \in Groups : k = Key("digest-am", g, DayOf(at))
        BY <3>1
      <4>2. k \in Keys /\ k.kind = "digest-am" /\ k.day = DayOf(at)
        BY <1>2, <4>1, KeyIsAKey DEF Key, Daily
      <4>3. Opening(k) = AtClockTime(at, MorningClock)
        BY <1>5, <4>2 DEF Opening
      <4>4. Closing(k) = Opening(k) + MorningWindow
        BY <4>2 DEF Closing
      <4>5. DailyDueAt(k, at)
        BY <1>4, <2>4, <3>1, <4>2, <4>3, <4>4 DEF DailyDueAt, IsDueWithin
      <4> QED BY <1>1, <4>2, <4>5, DayKeyWasDue DEF Daily
    <3>2. CASE \E g \in groups : /\ k = Key("digest-pm", g, DayOf(at))
                                 /\ IsDue(at, AtClockTime(at, EveningClock))
      <4>1. PICK g \in Groups : k = Key("digest-pm", g, DayOf(at))
        BY <3>2
      <4>2. k \in Keys /\ k.kind = "digest-pm" /\ k.day = DayOf(at)
        BY <1>2, <4>1, KeyIsAKey DEF Key, Daily
      <4>3. Opening(k) = AtClockTime(at, EveningClock)
        BY <1>5, <4>2 DEF Opening
      <4>4. Closing(k) = (DayOf(at) + 1) * DayTicks
        BY <4>2 DEF Closing
      <4>5. DailyDueAt(k, at)
        BY <1>4, <1>5, <2>4, <3>2, <4>2, <4>3, <4>4 DEF DailyDueAt, IsDue
      <4> QED BY <1>1, <4>2, <4>5, DayKeyWasDue DEF Daily
    <3> QED BY <1>1, <2>4, <3>1, <3>2 DEF Due, DueDigests
  <2>5. CASE job = "cleanup"
    <3>1. k = Key("cleanup", None, DayOf(at))
      BY <1>1, <2>5 DEF Due, Cleanup
    <3>2. k \in Keys /\ k.kind = "cleanup" /\ k.day = DayOf(at)
      BY <1>2, <3>1, KeyIsAKey DEF Key
    <3> QED BY <1>1, <3>2, DayKeyWasDue DEF Daily
  <2> QED BY <1>3, <2>1, <2>2, <2>3, <2>4, <2>5
<1> QED BY <1>1, <1>6

-----------------------------------------------------------------------------
(* The steps of a run *)

\* What a run may come to hold.
Sound(r) ==
  /\ r.at # NoTime
  /\ r.at <= now /\ now <= r.at + TickLimit
  /\ r.jobs \cap {"checkins", "checkouts", "digests"} # {} => DayOf(r.at) \notin DaysOff
  /\ \A k \in Keys : k \in r.todo \/ (k = r.key /\ k # None) => WasDue(k, r.at)

\* One run moves.
LEMMA RunMoves ==
  ASSUME SInv, NEW i \in Instances, NEW r \in Runs, run' = [run EXCEPT ![i] = r],
         UNCHANGED <<now, entry, shift>>, r = Asleep \/ Sound(r)
  PROVE  /\ run' \in [Instances -> Runs] /\ run'[i] = r
         /\ \A j \in Instances \ {i} : run'[j] = run[j]
         /\ RunsOK' /\ AsleepOK' /\ EntryOK' /\ CheckInsStay
<1>1. /\ run' \in [Instances -> Runs] /\ run'[i] = r
      /\ \A j \in Instances \ {i} : run'[j] = run[j]
  BY DEF SInv, TypeOK
<1>2. \A k, at : WasDue(k, at)' <=> WasDue(k, at)
  BY DueUnmoved DEF WasDue, Founded, Exists, Birth, Span, NotIn, OfToday
<1>3. ASSUME NEW j \in Instances, Running(j)'
      PROVE  (/\ run[j].at <= now /\ now <= run[j].at + TickLimit
              /\ run[j].jobs \cap {"checkins", "checkouts", "digests"} # {} =>
                   DayOf(run[j].at) \notin DaysOff
              /\ \A k \in Keys : Holds(j, k) => WasDue(k, run[j].at))'
  <2>1. PICK s : s = run'[j]
    OBVIOUS
  <2>2. Sound(s)
    <3>1. CASE j = i
      BY <1>1, <1>3, <2>1, <3>1 DEF Running, Asleep
    <3>2. CASE j # i
      BY <1>1, <1>3, <2>1, <3>2 DEF Running, Sound, SInv, RunsOK, Holds
    <3> QED BY <3>1, <3>2
  <2>3. \A k \in Keys : Holds(j, k)' => WasDue(k, s.at)'
    BY <1>2, <2>1, <2>2 DEF Sound, Holds
  <2>4. \A k \in Keys : Holds(j, k)' => WasDue(k, run[j].at)'
    BY <2>1, <2>3 DEF WasDue, NotIn, OfToday, DueAt, DailyDueAt, NoticeDueAt, Moved
  <2> QED BY <2>1, <2>2, <2>4 DEF Sound
<1>4. RunsOK'
  BY <1>3 DEF RunsOK
<1>5. AsleepOK'
  <2>1. ASSUME NEW j \in Instances, ~Running(j)' PROVE run'[j] = Asleep
    <3>1. CASE j = i
      BY <1>1, <2>1, <3>1 DEF Running, Sound
    <3>2. CASE j # i
      BY <1>1, <2>1, <3>2 DEF Running, SInv, AsleepOK
    <3> QED BY <3>1, <3>2
  <2> QED BY <2>1 DEF AsleepOK, Asleep
<1>6. EntryOK' /\ CheckInsStay
  BY DEF SInv, EntryOK, CheckInsStay, Exists
<1> QED BY <1>1, <1>4, <1>5, <1>6

\* A run stops, or goes on with some of what it holds.
LEMMA RunContinues ==
  ASSUME SInv, NEW i \in Instances, Running(i), NEW jobs \in SUBSET run[i].jobs,
         NEW todo \in SUBSET Keys, NEW key \in Keys \cup {None},
         \A k \in Keys : k \in todo \/ (k = key /\ k # None) => WasDue(k, run[i].at),
         Continue(i, jobs, todo, key), UNCHANGED <<now, entry, shift>>
  PROVE  /\ run' \in [Instances -> Runs]
         /\ run'[i].key = key /\ run'[i].todo = todo
         /\ \A j \in Instances \ {i} : run'[j] = run[j]
         /\ RunsOK' /\ AsleepOK' /\ EntryOK' /\ CheckInsStay
<1> DEFINE r == [at |-> run[i].at, jobs |-> jobs, todo |-> todo, key |-> key]
<1>1. run[i] \in Runs
  BY DEF SInv, TypeOK
<1>2. r \in Runs
  BY <1>1 DEF Runs
<1>3. Sound(r)
  BY <1>1 DEF Sound, SInv, RunsOK, Running
<1>4. run' = [run EXCEPT ![i] = r]
  BY DEF Continue
<1> QED BY <1>2, <1>3, <1>4, RunMoves

LEMMA RunStops ==
  ASSUME SInv, NEW i \in Instances, Stop(i), UNCHANGED <<now, entry, shift>>
  PROVE  /\ run' \in [Instances -> Runs]
         /\ run'[i].key = None
         /\ \A j \in Instances \ {i} : run'[j] = run[j]
         /\ RunsOK' /\ AsleepOK' /\ EntryOK' /\ CheckInsStay
<1>1. Asleep \in Runs /\ Asleep.key = None
  BY DEF Asleep, Runs
<1> QED BY <1>1, RunMoves DEF Stop

\* What a run holds is a key that it may still handle.
LEMMA HeldInTime ==
  ASSUME SInv, NEW i \in Instances, Running(i), NEW k \in Keys, Holds(i, k)
  PROVE  /\ Founded(k) /\ Birth(k) <= now
         /\ now <= Birth(k) + Span(k) + TickLimit
<1>1. WasDue(k, run[i].at) /\ run[i].at <= now /\ now <= run[i].at + TickLimit
  BY DEF SInv, RunsOK
<1>2. Founded(k) /\ Birth(k) <= now /\ run[i].at <= Birth(k) + Span(k)
  BY <1>1 DEF WasDue
<1>3. now \in Nat /\ run[i].at \in Nat
  BY DEF SInv, TypeOK, Runs, Running, Instants
<1>4. Birth(k) \in Nat /\ Span(k) \in Nat /\ TickLimit \in Nat
  BY <1>2, KeyTimes, LimitsAreNumbers DEF SInv, TypeOK
<1> QED BY <1>1, <1>2, <1>3, <1>4

\* Only a run under way holds anything.
LEMMA HoldersRun ==
  ASSUME SInv, NEW i \in Instances, run[i].key # None \/ run[i].todo # {}
  PROVE  Running(i)
BY DEF SInv, AsleepOK, Asleep

\* A run that sends nothing new leaves the messages handled as they are; the
\* claims may grow.
LEMMA NothingHandled ==
  ASSUME SInv, NEW i \in Instances, run'[i].key = None,
         \A j \in Instances \ {i} : run'[j] = run[j],
         UNCHANGED <<now, entry, sent>>, claims \subseteq claims'
  PROVE  ClaimsKept' /\ Exclusive' /\ AtMostOnce'
<1>1. \A k \in Keys : Handled(k)' => Handled(k)
  BY DEF Handled
<1>2. \A k \in Keys : Claimed(k) => Claimed(k)'
  BY DEF Claimed
<1>3. \A k \in Keys : /\ Founded(k)' <=> Founded(k)
                      /\ Birth(k)' = Birth(k) /\ Span(k)' = Span(k)
  BY DEF Founded, Exists, Birth, Span
<1>4. ClaimsKept'
  BY <1>1, <1>2, <1>3 DEF SInv, ClaimsKept
<1>5. Exclusive' /\ AtMostOnce'
  BY DEF SInv, Exclusive, AtMostOnce
<1> QED BY <1>4, <1>5

\* A claim made now, for a key that is held.
LEMMA ClaimMade ==
  ASSUME SInv, NEW i \in Instances, Running(i), NEW k \in Keys, Holds(i, k),
         claims' = claims \cup {[key |-> k, createdAt |-> now]}, UNCHANGED <<now, entry, shift>>
  PROVE  /\ claims' \subseteq [key : Keys, createdAt : Instants]
         /\ Claimed(k)' /\ ClaimsOK'
<1> DEFINE row == [key |-> k, createdAt |-> now]
<1>1. row \in [key : Keys, createdAt : Instants] /\ row.key = k /\ row.createdAt = now
  BY DEF SInv, TypeOK
<1>2. Founded(k) /\ Birth(k) <= now /\ now <= now
  BY HeldInTime DEF SInv, TypeOK, Instants
<1>3. claims' \subseteq [key : Keys, createdAt : Instants] /\ Claimed(k)'
  BY <1>1 DEF SInv, TypeOK, Claimed
<1>4. \A c \in claims' :
        Founded(c.key) /\ Birth(c.key) <= c.createdAt /\ c.createdAt <= now
  BY <1>1, <1>2 DEF SInv, ClaimsOK
<1>5. ClaimsOK'
  BY <1>4 DEF ClaimsOK, Founded, Exists, Birth
<1> QED BY <1>3, <1>5

\* A step of a run that claims and sends nothing.
LEMMA QuietStep ==
  ASSUME SInv, NEW i \in Instances,
         run' \in [Instances -> Runs], run'[i].key = None,
         \A j \in Instances \ {i} : run'[j] = run[j],
         RunsOK', AsleepOK', EntryOK',
         UNCHANGED <<now, entry, shift, claims, sent>>
  PROVE  SInv'
<1>1. ClaimsKept' /\ Exclusive' /\ AtMostOnce'
  BY NothingHandled
<1>2. TypeOK'
  BY DEF SInv, TypeOK
<1>3. ClaimsOK'
  BY DEF SInv, ClaimsOK, Founded, Exists, Birth
<1> QED BY <1>1, <1>2, <1>3 DEF SInv

-----------------------------------------------------------------------------
(* Each action *)

LEMMA InitSound == Init => SInv
<1> SUFFICES ASSUME Init PROVE SInv
  OBVIOUS
<1>1. now = 0 /\ entry = [a \in Sessions |-> Life!Absent]
  BY DEF Init, Life!Init
<1>2. /\ \A a \in Sessions : entry[a].phase = "none" /\ ~entry[a].auto
      /\ entry \in [Sessions -> EntryRecords]
  BY <1>1, SameClock DEF Life!Absent, EntryRecords
<1>3. EntryOK
  BY <1>2 DEF EntryOK, Exists
<1>4. \A i \in Instances : run[i] = Asleep /\ run[i].at = NoTime /\ run[i].key = None
  BY DEF Init, Asleep
<1>5. Asleep \in Runs
  BY DEF Asleep, Runs
<1>6. IsABag(sent) /\ DOMAIN sent = {}
  BY DEF Init, EmptyBag, SetToBag, IsABag
<1>7. TypeOK
  <2>1. \A s \in Shifts : Given(s, NoTime)
                             \in [start : Clocks, end : Clocks, since : Instants \cup {NoTime}]
    BY SchedulerAssumption DEF ShiftRecords, Given
  <2>2. shift \in [Employees -> [start : Clocks, end : Clocks, since : Instants \cup {NoTime}]]
    BY <2>1 DEF Init
  <2> QED BY <1>1, <1>5, <1>6, <2>2 DEF TypeOK, Init, Instants
<1>8. RunsOK /\ AsleepOK
  BY <1>4 DEF RunsOK, AsleepOK, Running
<1>9. ClaimsOK
  BY DEF ClaimsOK, Init
<1>10. ClaimsKept /\ Exclusive /\ AtMostOnce
  BY <1>4, <1>6 DEF ClaimsKept, Handled, Exclusive, AtMostOnce
<1> QED BY <1>3, <1>7, <1>8, <1>9, <1>10 DEF SInv

LEMMA StartTickSound ==
  ASSUME SInv, NEW i \in Instances, NEW reminders \in BOOLEAN, NEW digests \in BOOLEAN,
         StartTick(i, reminders, digests)
  PROVE  SInv'
<1> DEFINE jobs == JobsOn(DayOf(now), reminders, digests)
           r == [at |-> now, jobs |-> jobs, todo |-> {}, key |-> None]
<1>1. now \in Instants /\ now \in Nat /\ TickLimit \in Nat
  BY LimitsAreNumbers DEF SInv, TypeOK, Instants
<1>2. jobs \subseteq AllJobs
  BY DEF JobsOn, AllJobs, Rank
<1>3. r \in Runs
  BY <1>1, <1>2 DEF Runs
<1>4. jobs \cap {"checkins", "checkouts", "digests"} # {} => DayOf(now) \notin DaysOff
  BY DEF JobsOn
<1>5. Sound(r)
  BY <1>1, <1>4 DEF Sound, Instants, NoTime
<1>6. run' = [run EXCEPT ![i] = r] /\ UNCHANGED <<now, entry, shift, claims, sent>>
  BY DEF StartTick
<1>7. /\ run' \in [Instances -> Runs] /\ run'[i] = r
      /\ \A j \in Instances \ {i} : run'[j] = run[j]
      /\ RunsOK' /\ AsleepOK' /\ EntryOK'
  BY <1>3, <1>5, <1>6, RunMoves
<1> QED BY <1>6, <1>7, QuietStep

LEMMA CollectSound ==
  ASSUME SInv, NEW i \in Instances, Collect(i)
  PROVE  SInv'
<1>1. PICK job \in run[i].jobs, reachable \in SUBSET Employees,
           away \in SUBSET Employees, groups \in SUBSET Groups :
        Continue(i, run[i].jobs \ {job},
                 Due(job, run[i].at, reachable, away, groups), None)
  BY DEF Collect
<1> DEFINE todo == Due(job, run[i].at, reachable, away, groups)
           jobs == run[i].jobs \ {job}
<1>2. Running(i) /\ UNCHANGED <<now, entry, shift, claims, sent>>
  BY DEF Collect
<1>3. \A k \in todo : k \in Keys /\ WasDue(k, run[i].at)
  BY <1>2, DueWasDue
<1>4. todo \in SUBSET Keys /\ jobs \in SUBSET run[i].jobs
  BY <1>3
<1>5. Continue(i, jobs, todo, None)
  BY <1>1
<1>6. \A k \in Keys : k \in todo \/ (k = None /\ k # None) => WasDue(k, run[i].at)
  BY <1>3
<1> HIDE DEF todo, jobs
<1>7. None \in Keys \cup {None} /\ UNCHANGED <<now, entry, shift>>
  BY <1>2
<1>8. /\ run' \in [Instances -> Runs]
      /\ run'[i].key = None /\ run'[i].todo = todo
      /\ \A j \in Instances \ {i} : run'[j] = run[j]
      /\ RunsOK' /\ AsleepOK' /\ EntryOK' /\ CheckInsStay
  BY <1>2, <1>4, <1>5, <1>6, <1>7, RunContinues, Zenon
<1> QED BY <1>2, <1>8, QuietStep

\* A run under way gives up some of what it holds.
LEMMA HoldsLess ==
  ASSUME SInv, NEW i \in Instances, Running(i), NEW todo \in SUBSET run[i].todo,
         NEW key, key = None \/ key \in run[i].todo,
         Continue(i, run[i].jobs, todo, key), UNCHANGED <<now, entry, shift>>
  PROVE  /\ run' \in [Instances -> Runs]
         /\ run'[i].key = key
         /\ \A j \in Instances \ {i} : run'[j] = run[j]
         /\ RunsOK' /\ AsleepOK' /\ EntryOK'
<1>1. run[i].todo \subseteq Keys
  BY DEF SInv, TypeOK, Runs
<1>2. \A k \in Keys : k \in todo \/ (k = key /\ k # None) => WasDue(k, run[i].at)
  BY DEF SInv, RunsOK, Holds
<1>3. todo \in SUBSET Keys /\ key \in Keys \cup {None}
  BY <1>1
<1>4. PICK jobs \in SUBSET run[i].jobs : jobs = run[i].jobs
  OBVIOUS
<1>5. Continue(i, jobs, todo, key)
  BY <1>4
<1> HIDE <1>4
<1>6. /\ run' \in [Instances -> Runs]
      /\ run'[i].key = key /\ run'[i].todo = todo
      /\ \A j \in Instances \ {i} : run'[j] = run[j]
      /\ RunsOK' /\ AsleepOK' /\ EntryOK' /\ CheckInsStay
  BY <1>2, <1>3, <1>5, RunContinues, Zenon
<1> QED BY <1>6

\* The claim is inserted only when nobody has handled the key, or can any more.
LEMMA ClaimSound ==
  ASSUME SInv, NEW i \in Instances, Claim(i)
  PROVE  SInv'
<1>1. PICK k \in run[i].todo :
        IF Claimed(k)
        THEN /\ Continue(i, run[i].jobs, run[i].todo \ {k}, None)
             /\ UNCHANGED claims
        ELSE /\ Continue(i, run[i].jobs, run[i].todo \ {k}, k)
             /\ claims' = claims \cup {[key |-> k, createdAt |-> now]}
  BY DEF Claim
<1> DEFINE rest == run[i].todo \ {k}
<1>2. Running(i) /\ UNCHANGED <<now, entry, shift, sent>> /\ rest \in SUBSET run[i].todo
  BY DEF Claim
<1>3. k \in Keys /\ Holds(i, k)
  BY DEF SInv, TypeOK, Runs, Holds
<1>4. CASE Claimed(k)
  <2>1. Continue(i, run[i].jobs, rest, None) /\ UNCHANGED claims
    BY <1>1, <1>4
  <2> HIDE DEF rest
  <2>2. /\ run' \in [Instances -> Runs] /\ run'[i].key = None
        /\ \A j \in Instances \ {i} : run'[j] = run[j]
        /\ RunsOK' /\ AsleepOK' /\ EntryOK'
    BY <1>2, <2>1, HoldsLess
  <2> QED BY <1>2, <2>1, <2>2, QuietStep
<1>5. CASE ~Claimed(k)
  <2>1. /\ Continue(i, run[i].jobs, rest, k)
        /\ claims' = claims \cup {[key |-> k, createdAt |-> now]}
    BY <1>1, <1>5
  <2> HIDE DEF rest
  <2>2. /\ run' \in [Instances -> Runs] /\ run'[i].key = k
        /\ \A j \in Instances \ {i} : run'[j] = run[j]
        /\ RunsOK' /\ AsleepOK' /\ EntryOK'
    BY <1>2, <2>1, HoldsLess
  <2>3. /\ claims' \subseteq [key : Keys, createdAt : Instants]
        /\ Claimed(k)' /\ ClaimsOK'
    BY <1>2, <1>3, <2>1, ClaimMade
  <2>4. ~Handled(k)
    <3>1. Founded(k) /\ now <= Birth(k) + Span(k) + TickLimit
      BY <1>2, <1>3, HeldInTime
    <3>2. Birth(k) \in Nat /\ Span(k) \in Nat /\ TickLimit \in Nat /\ now \in Nat
      BY <1>3, <3>1, KeyTimes, LimitsAreNumbers DEF SInv, TypeOK, Instants
    <3>3. ~(now > Birth(k) + Span(k) + TickLimit)
      BY <3>1, <3>2
    <3> QED BY <1>3, <1>5, <3>3 DEF SInv, ClaimsKept
  <2>5. \A q \in Keys : Handled(q)' => q = k \/ Handled(q)
    BY <1>2, <2>2 DEF Handled
  <2>6. \A q : Claimed(q) => Claimed(q)'
    BY <2>1 DEF Claimed
  <2>7. \A q \in Keys : /\ Founded(q)' <=> Founded(q)
                        /\ Birth(q)' = Birth(q) /\ Span(q)' = Span(q)
    BY <1>2 DEF Founded, Exists, Birth, Span
  <2>8. Founded(k)
    BY <1>2, <1>3, HeldInTime
  <2>9. ClaimsKept'
    <3>1. ASSUME NEW q \in Keys, Handled(q)'
          PROVE  Founded(q)' /\ (Claimed(q)' \/ now' > Birth(q)' + Span(q)' + TickLimit)
      <4>1. CASE q = k
        BY <2>3, <2>7, <2>8, <4>1
      <4>2. CASE q # k
        BY <1>2, <2>5, <2>6, <2>7, <3>1, <4>2 DEF SInv, ClaimsKept
      <4> QED BY <4>1, <4>2
    <3> QED BY <3>1 DEF ClaimsKept
  <2>10. Exclusive'
    <3>1. k # None => k \notin DOMAIN sent /\ \A j \in Instances : run[j].key # k
      BY <2>4 DEF Handled
    <3>2. ASSUME NEW j \in Instances, NEW l \in Instances,
                 run'[j].key # None, run'[j].key = run'[l].key
          PROVE  j = l
      <4>1. CASE j = i
        BY <2>2, <3>1, <3>2, <4>1
      <4>2. CASE l = i
        BY <2>2, <3>1, <3>2, <4>2
      <4>3. CASE j # i /\ l # i
        BY <2>2, <3>2, <4>3 DEF SInv, Exclusive
      <4> QED BY <4>1, <4>2, <4>3
    <3>3. ASSUME NEW j \in Instances, run'[j].key # None PROVE run'[j].key \notin DOMAIN sent'
      <4>1. CASE j = i
        BY <1>2, <2>2, <3>1, <3>3, <4>1
      <4>2. CASE j # i
        BY <1>2, <2>2, <3>3, <4>2 DEF SInv, Exclusive
      <4> QED BY <4>1, <4>2
    <3> QED BY <3>2, <3>3 DEF Exclusive
  <2>11. TypeOK' /\ AtMostOnce'
    BY <1>2, <2>2, <2>3 DEF SInv, TypeOK, AtMostOnce
  <2> QED BY <2>2, <2>3, <2>9, <2>10, <2>11 DEF SInv
<1> QED BY <1>4, <1>5

LEMMA ClaimFailsSound ==
  ASSUME SInv, NEW i \in Instances, ClaimFails(i)
  PROVE  SInv'
<1>1. PICK k \in run[i].todo :
        /\ Continue(i, run[i].jobs, {}, None)
        /\ \/ UNCHANGED claims
           \/ /\ ~Claimed(k)
              /\ claims' = claims \cup {[key |-> k, createdAt |-> now]}
  BY DEF ClaimFails
<1>2. Running(i) /\ UNCHANGED <<now, entry, shift, sent>>
  BY DEF ClaimFails
<1>3. k \in Keys /\ Holds(i, k)
  BY DEF SInv, TypeOK, Runs, Holds
<1>4. /\ run' \in [Instances -> Runs] /\ run'[i].key = None
      /\ \A j \in Instances \ {i} : run'[j] = run[j]
      /\ RunsOK' /\ AsleepOK' /\ EntryOK'
  BY <1>1, <1>2, HoldsLess
<1>5. CASE UNCHANGED claims
  BY <1>2, <1>4, <1>5, QuietStep
<1>6. CASE claims' = claims \cup {[key |-> k, createdAt |-> now]}
  <2>1. claims' \subseteq [key : Keys, createdAt : Instants] /\ ClaimsOK'
    BY <1>2, <1>3, <1>6, ClaimMade
  <2>2. ClaimsKept' /\ Exclusive' /\ AtMostOnce'
    BY <1>2, <1>4, <1>6, NothingHandled
  <2>3. TypeOK'
    BY <1>2, <1>4, <2>1 DEF SInv, TypeOK
  <2> QED BY <1>4, <2>1, <2>2, <2>3 DEF SInv
<1> QED BY <1>1, <1>5, <1>6

\* What is sent is sent for the first time.
LEMMA SendSound ==
  ASSUME SInv, NEW i \in Instances, Send(i)
  PROVE  SInv'
<1>1. PICK k \in Keys : k = run[i].key /\ k # None
  BY DEF Send, Sending, SInv, TypeOK, Runs
<1>2. PICK todo \in SUBSET run[i].todo : todo = run[i].todo
  OBVIOUS
<1>3. /\ Running(i) /\ UNCHANGED <<now, entry, shift, claims>>
      /\ sent' \in {sent, BagAdd(sent, k)}
      /\ Continue(i, run[i].jobs, todo, None)
  BY <1>1, <1>2 DEF Send
<1>4. /\ run' \in [Instances -> Runs] /\ run'[i].key = None
      /\ \A j \in Instances \ {i} : run'[j] = run[j]
      /\ RunsOK' /\ AsleepOK' /\ EntryOK'
  BY <1>3, HoldsLess
<1>5. CASE sent' = sent
  BY <1>3, <1>4, <1>5, QuietStep
<1>6. CASE sent' = BagAdd(sent, k)
  <2>1. /\ k \notin DOMAIN sent
        /\ \A j \in Instances \ {i} : run[j].key # k
    BY <1>1 DEF SInv, Exclusive
  <2>2. sent' = [e \in DOMAIN sent \cup {k} |-> IF e = k THEN 1 ELSE sent[e]]
    BY <1>6, <2>1 DEF BagAdd
  <2>3. sent \in [DOMAIN sent -> {n \in Nat : n > 0}] /\ DOMAIN sent \subseteq Keys
    BY DEF SInv, TypeOK, IsABag
  <2>4. /\ DOMAIN sent' = DOMAIN sent \cup {k}
        /\ sent' \in [DOMAIN sent \cup {k} -> {n \in Nat : n > 0}]
        /\ \A e \in DOMAIN sent \cup {k} : sent'[e] = IF e = k THEN 1 ELSE sent[e]
    BY <2>2, <2>3
  <2>5. TypeOK' /\ AtMostOnce'
    BY <1>3, <1>4, <2>3, <2>4 DEF SInv, TypeOK, IsABag, AtMostOnce
  <2>6. \A q \in Keys : Handled(q)' => Handled(q)
    BY <1>1, <1>4, <2>4 DEF Handled
  <2>7. \A q \in Keys : /\ (Founded(q)' <=> Founded(q)) /\ (Claimed(q)' <=> Claimed(q))
                        /\ Birth(q)' = Birth(q) /\ Span(q)' = Span(q)
    BY <1>3 DEF Founded, Exists, Birth, Span, Claimed
  <2>8. ClaimsKept'
    BY <1>3, <2>6, <2>7 DEF SInv, ClaimsKept
  <2>9. Exclusive'
    BY <1>4, <2>1, <2>4 DEF SInv, Exclusive
  <2>10. ClaimsOK'
    BY <1>3 DEF SInv, ClaimsOK, Founded, Exists, Birth
  <2> QED BY <1>4, <2>5, <2>8, <2>9, <2>10 DEF SInv
<1> QED BY <1>3, <1>5, <1>6

\* A claim that the cleanup deletes guards nothing any more.
LEMMA ForgottenIsOver ==
  ASSUME SInv, NEW i \in Instances, Running(i), NEW q \in Keys, Founded(q), Claimed(q),
         claims' = {c \in claims : c.createdAt >= run[i].at - Retention}
  PROVE  Claimed(q)' \/ now > Birth(q) + Span(q) + TickLimit
<1>1. PICK at \in Nat : at = run[i].at /\ at <= now
  BY DEF SInv, TypeOK, Runs, RunsOK, Running, Instants
<1>2. now \in Nat /\ Retention \in Nat /\ TickLimit \in Nat
  BY LimitsAreNumbers DEF SInv, TypeOK, Instants
<1>3. PICK c \in claims : c.key = q
  BY DEF Claimed
<1>4. CASE c \in claims'
  BY <1>3, <1>4 DEF Claimed
<1>5. CASE c \notin claims'
  <2>1. c.createdAt \in Nat /\ Birth(q) <= c.createdAt
    BY <1>3 DEF SInv, TypeOK, ClaimsOK, Instants
  <2>2. c.createdAt < at - Retention
    BY <1>1, <1>2, <1>5, <2>1
  <2>3. Birth(q) \in Nat /\ Span(q) \in Nat /\ Span(q) + TickLimit <= Retention
    BY KeyTimes DEF SInv, TypeOK
  <2> QED BY <1>1, <1>2, <2>1, <2>2, <2>3
<1> QED BY <1>4, <1>5

\* The claims that the cleanup deletes guard nothing any more.
LEMMA DeleteSound ==
  ASSUME SInv, NEW i \in Instances, Delete(i)
  PROVE  SInv'
<1>1. PICK todo \in SUBSET run[i].todo : todo = run[i].todo
  OBVIOUS
<1>2. /\ Running(i) /\ UNCHANGED <<now, entry, shift, sent>>
      /\ claims' \in {claims, {c \in claims : c.createdAt >= run[i].at - Retention}}
      /\ Continue(i, run[i].jobs, todo, None)
  BY <1>1 DEF Delete
<1>3. /\ run' \in [Instances -> Runs] /\ run'[i].key = None
      /\ \A j \in Instances \ {i} : run'[j] = run[j]
      /\ RunsOK' /\ AsleepOK' /\ EntryOK'
  BY <1>2, HoldsLess
<1>4. CASE claims' = claims
  BY <1>2, <1>3, <1>4, QuietStep
<1>5. CASE claims' = {c \in claims : c.createdAt >= run[i].at - Retention}
  <2>1. \A q \in Keys : Handled(q)' => Handled(q)
    BY <1>2, <1>3 DEF Handled
  <2>2. \A q \in Keys : /\ Founded(q)' <=> Founded(q)
                        /\ Birth(q)' = Birth(q) /\ Span(q)' = Span(q)
    BY <1>2 DEF Founded, Exists, Birth, Span
  <2>3. \A q \in Keys : Founded(q) /\ Claimed(q) =>
          Claimed(q)' \/ now > Birth(q) + Span(q) + TickLimit
    BY <1>2, <1>5, ForgottenIsOver
  <2>4. ClaimsKept'
    <3>1. ASSUME NEW q \in Keys, Handled(q)'
          PROVE  Founded(q)' /\ (Claimed(q)' \/ now' > Birth(q)' + Span(q)' + TickLimit)
      <4>1. Founded(q) /\ (Claimed(q) \/ now > Birth(q) + Span(q) + TickLimit)
        BY <2>1, <3>1 DEF SInv, ClaimsKept
      <4>2. Claimed(q)' \/ now > Birth(q) + Span(q) + TickLimit
        BY <2>3, <4>1
      <4> QED BY <1>2, <2>2, <4>1, <4>2
    <3> QED BY <3>1 DEF ClaimsKept
  <2>5. claims' \subseteq claims
    BY <1>5
  <2>6. TypeOK' /\ AtMostOnce'
    BY <1>2, <1>3, <2>5 DEF SInv, TypeOK, AtMostOnce
  <2>7. Exclusive'
    BY <1>2, <1>3 DEF SInv, Exclusive
  <2>8. ClaimsOK'
    BY <1>2, <2>5 DEF SInv, ClaimsOK, Founded, Exists, Birth
  <2> QED BY <1>3, <2>4, <2>6, <2>7, <2>8 DEF SInv
<1> QED BY <1>2, <1>4, <1>5

LEMMA EndTickSound ==
  ASSUME SInv, NEW i \in Instances, EndTick(i) \/ Crash(i)
  PROVE  SInv'
<1>1. Stop(i) /\ UNCHANGED <<now, entry, shift, claims, sent>>
  BY DEF EndTick, Crash
<1>2. /\ run' \in [Instances -> Runs] /\ run'[i].key = None
      /\ \A j \in Instances \ {i} : run'[j] = run[j]
      /\ RunsOK' /\ AsleepOK' /\ EntryOK'
  BY <1>1, RunStops
<1> QED BY <1>1, <1>2, QuietStep

LEMMA ClockSound ==
  ASSUME SInv, Clock
  PROVE  SInv'
<1>1. /\ now' = now + 1 /\ UNCHANGED <<entry, shift, claims, run, sent>>
      /\ \A i \in Instances : Running(i) => now < run[i].at + TickLimit
  BY DEF Clock, Life!Tick
<1>2. now \in Nat /\ now' \in Nat /\ now' >= now
  BY <1>1 DEF SInv, TypeOK, Instants
<1>3. TypeOK'
  BY <1>1, <1>2 DEF SInv, TypeOK, Instants
<1>4. EntryOK'
  <2>1. ASSUME NEW a \in Sessions
        PROVE  /\ Exists(a) => entry[a].in \in 0 .. now'
               /\ entry[a].auto =>
                    /\ entry[a].phase = "closed"
                    /\ entry[a].out \in Instants
                    /\ entry[a].out <= NextMidnight(entry[a].in)
                    /\ NextMidnight(entry[a].in) <= now'
    <3>1. Exists(a) => entry[a].in \in 0 .. now'
      BY <1>1, <1>2 DEF SInv, EntryOK
    <3>2. entry[a].auto =>
            /\ entry[a].phase = "closed" /\ entry[a].out \in Instants
            /\ entry[a].out <= NextMidnight(entry[a].in)
            /\ NextMidnight(entry[a].in) <= now
      BY DEF SInv, EntryOK
    <3>3. entry[a].auto => NextMidnight(entry[a].in) \in Nat
      BY <3>2, MidnightIsAnInstant DEF SInv, EntryOK, Exists, Instants
    <3> QED BY <1>1, <1>2, <3>1, <3>2, <3>3
  <2>2. entry \in [Sessions -> EntryRecords] /\ entry' = entry
    BY <1>1 DEF SInv, EntryOK
  <2> QED BY <2>1, <2>2 DEF EntryOK, Exists
<1>5. CheckInsStay /\ ShiftsStay
  BY <1>1 DEF CheckInsStay, Exists, ShiftsStay
<1>6. \A i \in Instances : Running(i) => now' <= run[i].at + TickLimit
  <2>1. ASSUME NEW i \in Instances, Running(i) PROVE now' <= run[i].at + TickLimit
    <3>1. run[i].at \in Nat /\ TickLimit \in Nat
      BY <2>1, LimitsAreNumbers DEF SInv, TypeOK, Runs, Running, Instants
    <3> QED BY <1>1, <1>2, <2>1, <3>1
  <2> QED BY <2>1
<1>7. UNCHANGED <<claims, run, sent>>
  BY <1>1
<1> QED BY <1>2, <1>3, <1>4, <1>5, <1>6, <1>7, EnvironmentPreserves

\* The sessions and the shifts change.
LEMMA OthersSound ==
  ASSUME SInv, EntryOK', CheckInsStay, UNCHANGED <<now, claims, run, sent>>,
         shift' \in [Employees -> [start : Clocks, end : Clocks,
                                   since : Instants \cup {NoTime}]],
         ShiftsStay
  PROVE  SInv'
<1>1. TypeOK'
  BY DEF SInv, TypeOK
<1>2. now' >= now
  BY DEF SInv, TypeOK, Instants
<1>3. \A i \in Instances : Running(i) => now' <= run[i].at + TickLimit
  BY DEF SInv, RunsOK
<1>4. UNCHANGED <<claims, run, sent>>
  OBVIOUS
<1> QED BY <1>1, <1>2, <1>3, <1>4, EnvironmentPreserves

LEMMA StepSound ==
  ASSUME OneAtATime, SInv, [Next]_vars
  PROVE  SInv'
<1>1. CASE Clock
  BY <1>1, ClockSound
<1>0. /\ now \in Nat
      /\ shift \in [Employees -> [start : Clocks, end : Clocks,
                                 since : Instants \cup {NoTime}]]
  BY DEF SInv, TypeOK, Instants
<1>2. ASSUME NEW a \in Sessions, Attend(a) PROVE SInv'
  <2>1. EntryOK /\ now \in Instants
    BY <1>0 DEF SInv, Instants
  <2>2. EntryOK' /\ CheckInsStay /\ UNCHANGED <<now, shift, claims, run, sent>>
    BY <1>2, <2>1, AttendPreserves
  <2>3. ShiftsStay
    BY <2>2 DEF ShiftsStay
  <2> QED BY <1>0, <2>2, <2>3, OthersSound
<1>3. ASSUME NEW e \in Employees, ChangeShift(e) PROVE SInv'
  <2>1. PICK s \in Shifts : /\ shift' = [shift EXCEPT ![e] = Given(s, now)]
                            /\ UNCHANGED <<now, entry, claims, run, sent>>
    BY <1>3 DEF ChangeShift
  <2>2. /\ s.start \in Clocks /\ s.end \in Clocks
        /\ Given(s, now) \in [start : Clocks, end : Clocks, since : Instants \cup {NoTime}]
        /\ Given(s, now).since = now
    BY <1>0, SchedulerAssumption DEF ShiftRecords, Given, Instants
  <2>3. /\ shift' \in [Employees -> [start : Clocks, end : Clocks,
                                     since : Instants \cup {NoTime}]]
        /\ ShiftsStay
    BY <1>0, <2>1, <2>2 DEF ShiftsStay
  <2>4. EntryOK' /\ CheckInsStay
    BY <2>1 DEF SInv, EntryOK, CheckInsStay, Exists
  <2> QED BY <2>1, <2>3, <2>4, OthersSound
<1>4. ASSUME NEW i \in Instances,
             \/ \E reminders, digests \in BOOLEAN : StartTick(i, reminders, digests)
             \/ Collect(i)
             \/ Claim(i) \/ ClaimFails(i)
             \/ Send(i) \/ Delete(i)
             \/ EndTick(i) \/ Crash(i)
      PROVE  SInv'
  BY <1>4, StartTickSound, CollectSound, ClaimSound, ClaimFailsSound, SendSound,
     DeleteSound, EndTickSound
<1>5. CASE UNCHANGED vars
  <2>1. UNCHANGED <<now, entry, shift, claims, run, sent>>
    BY <1>5 DEF vars
  <2>2. EntryOK' /\ CheckInsStay /\ ShiftsStay
    BY <2>1 DEF SInv, EntryOK, CheckInsStay, Exists, ShiftsStay
  <2> QED BY <1>0, <2>1, <2>2, OthersSound
<1> QED BY <1>1, <1>2, <1>3, <1>4, <1>5 DEF Next

LEMMA AlwaysSound == OneAtATime /\ Spec => []SInv
<1> SUFFICES ASSUME OneAtATime PROVE Spec => []SInv
  OBVIOUS
<1>1. Init => SInv
  BY InitSound
<1>2. SInv /\ [Next]_vars => SInv'
  BY StepSound
<1> QED BY <1>1, <1>2, PTL DEF Spec

-----------------------------------------------------------------------------
(* The theorems *)

\* Claims, runs and deliveries keep their types, when the requests about a
\* session do not overlap.
THEOREM SendTypesCorrect == ASSUME OneAtATime PROVE Spec => []TypeOK
<1>1. SInv => TypeOK
  BY DEF SInv
<1>2. Spec => []SInv
  BY AlwaysSound
<1> QED BY <1>1, <1>2, PTL

\* Whatever instances there are, and whatever fails, no message is delivered
\* twice: not even after its claim has been deleted.
THEOREM SentAtMostOnce == ASSUME OneAtATime PROVE Spec => []AtMostOnce
<1>1. SInv => AtMostOnce
  BY DEF SInv
<1>2. Spec => []SInv
  BY AlwaysSound
<1> QED BY <1>1, <1>2, PTL

\* What a step delivers was due when its run began, TickLimit ago at most.
LEMMA DeliveredWasDue ==
  ASSUME SInv, Next, NEW k \in DOMAIN sent', Delivered(k)' > Delivered(k)
  PROVE  /\ k \in Keys /\ k.kind # "cleanup"
         /\ \E at \in Nat : WasDue(k, at) /\ at <= now /\ now <= at + TickLimit
<1>1. sent # sent'
  <2>1. SUFFICES ASSUME sent' = sent PROVE FALSE
    OBVIOUS
  <2>2. Delivered(k)' = Delivered(k) /\ Delivered(k) \in Nat
    BY <2>1 DEF Delivered, SInv, TypeOK, IsABag
  <2> QED BY <2>2
<1>2. PICK i \in Instances : Send(i)
  BY <1>1 DEF Next, Clock, Attend, ChangeShift, StartTick, Collect, Claim, ClaimFails,
              Delete, EndTick, Crash
<1>3. PICK q \in Keys : q = run[i].key /\ q # None /\ q.kind # "cleanup"
  BY <1>2 DEF Send, Sending, SInv, TypeOK, Runs
<1>4. sent' = BagAdd(sent, q)
  BY <1>1, <1>2, <1>3 DEF Send
<1>5. k = q
  <2>1. SUFFICES ASSUME k # q PROVE FALSE
    OBVIOUS
  <2>2. k \in DOMAIN sent /\ sent'[k] = sent[k]
    BY <1>4, <2>1 DEF BagAdd
  <2>3. Delivered(k)' = Delivered(k) /\ Delivered(k) \in Nat
    BY <2>2 DEF Delivered, SInv, TypeOK, IsABag
  <2> QED BY <2>3
<1>6. PICK at \in Nat : at = run[i].at /\ WasDue(q, at) /\ at <= now /\ now <= at + TickLimit
  BY <1>2, <1>3 DEF Send, Running, SInv, TypeOK, Runs, RunsOK, Holds, Instants
<1> QED BY <1>3, <1>5, <1>6

LEMMA StepInTime ==
  ASSUME SInv, Next, NEW k \in DOMAIN sent', Delivered(k)' > Delivered(k)
  PROVE  \E at \in (now - TickLimit) .. now : DueAt(k, at)
<1>1. PICK at \in Nat : WasDue(k, at) /\ at <= now /\ now <= at + TickLimit
  BY DeliveredWasDue
<1>2. now \in Nat /\ TickLimit \in Nat
  BY LimitsAreNumbers DEF SInv, TypeOK, Instants
<1>3. at \in (now - TickLimit) .. now
  BY <1>1, <1>2
<1>4. DueAt(k, at)
  BY <1>1, DeliveredWasDue DEF WasDue
<1> QED BY <1>3, <1>4

\* What is delivered was due when its run began, at most TickLimit before: neither
\* too early nor, in the morning, hours late, and on a working day.
THEOREM SentInTime == ASSUME OneAtATime PROVE Spec => InTime
<1> DEFINE OnTime ==
      \A k \in DOMAIN sent' :
        Delivered(k)' > Delivered(k) =>
          \E at \in (now - TickLimit) .. now : DueAt(k, at)
<1>1. SInv /\ [Next]_vars => [OnTime]_vars
  <2> SUFFICES ASSUME SInv, Next PROVE OnTime
    OBVIOUS
  <2> QED BY StepInTime
<1>2. Spec => []SInv
  BY AlwaysSound
<1> QED BY <1>1, <1>2, PTL DEF Spec, InTime

\* Whoever is reminded to check in has not done so, or within the time that the
\* run and the request take.
THEOREM RemindersAreDue == ASSUME OneAtATime PROVE Spec => RemindedNotIn
<1> DEFINE NotReminded ==
      \A k \in DOMAIN sent' :
        k.kind = "checkin" /\ Delivered(k)' > Delivered(k) =>
          \A a \in Sessions :
            Owner[a] = k.of /\ Exists(a) /\ entry[a].in >= k.day * DayTicks
              => entry[a].in >= now - 2 * TickLimit
<1>1. SInv /\ [Next]_vars => [NotReminded]_vars
  <2> SUFFICES ASSUME SInv, Next, NEW k \in DOMAIN sent',
                      k.kind = "checkin", Delivered(k)' > Delivered(k),
                      NEW a \in Sessions, Owner[a] = k.of, Exists(a),
                      entry[a].in >= k.day * DayTicks
               PROVE  entry[a].in >= now - 2 * TickLimit
    OBVIOUS
  <2>1. k \in Keys /\ k.day \in Nat
    BY DeliveredWasDue DEF Keys
  <2>2. PICK at \in Nat : WasDue(k, at) /\ at <= now /\ now <= at + TickLimit
    BY DeliveredWasDue
  <2>3. now \in Nat /\ TickLimit \in Nat /\ entry[a].in \in Nat
    BY LimitsAreNumbers DEF SInv, TypeOK, EntryOK, Instants
  <2>4. DayOf(at) = k.day
    BY <2>2 DEF WasDue, DueAt, DailyDueAt, Daily
  <2>5. StartOfDay(at) <= k.day * DayTicks
    <3>1. at \in Instants
      BY <2>2 DEF Instants
    <3>2. DayOf(at) * DayTicks = StartOfDay(at) /\ StartOfDay(at) \in Nat
      BY <3>1, DayOfInstant, DayBounds DEF Instants
    <3>3. k.day * DayTicks = StartOfDay(at)
      BY <2>4, <3>2
    <3> QED BY <3>2, <3>3
  <2>6. OfToday(a, at)
    BY <2>1, <2>3, <2>5, DayBounds, DayOfStart DEF OfToday, Instants
  <2>7. entry[a].in >= at - TickLimit
    BY <2>2, <2>6 DEF WasDue, NotIn
  <2> QED BY <2>2, <2>3, <2>7
<1>2. Spec => []SInv
  BY AlwaysSound
<1> QED BY <1>1, <1>2, PTL DEF Spec, RemindedNotIn

-----------------------------------------------------------------------------
(* One go at each message: the scheduler implements MessageDelivery *)

\* A session that is not there has no check-in.
AbsentOK == \A a \in Sessions : ~Exists(a) => entry[a].in = NoTime

\* The contract's clock is the scheduler's, and so are its births and spans.
LEMMA SamePromise ==
  ASSUME NEW k, Founded(k)
  PROVE  /\ Promise!Birth(k) = Birth(k)
         /\ Promise!Span(k) = Span(k)
         /\ Promise!Over(k) <=> now > Birth(k) + Span(k) + TickLimit
<1>1. \A t : Promise!NextMidnight(t) = NextMidnight(t)
  BY DEF Promise!NextMidnight, NextMidnight, Promise!StartOfDay, StartOfDay,
         Promise!DayTicks, DayTicks
<1>2. Promise!DayTicks = DayTicks
  BY DEF Promise!DayTicks, DayTicks
<1>3. Promise!Birth(k) = Birth(k) /\ Promise!Span(k) = Span(k)
  BY <1>1, <1>2 DEF Promise!Birth, Birth, Promise!Span, Span, Founded
<1> QED BY <1>3 DEF Promise!Over

\* A row more is a key more.
LEMMA OneMoreKey ==
  ASSUME NEW rows, NEW k, NEW t
  PROVE  {c.key : c \in rows \cup {[key |-> k, createdAt |-> t]}} = {c.key : c \in rows} \cup {k}
<1>. PICK row : row = [key |-> k, createdAt |-> t]
  OBVIOUS
<1>1. row.key = k
  OBVIOUS
<1>2. {c.key : c \in rows \cup {row}} = {c.key : c \in rows} \cup {k}
  BY <1>1, Zenon
<1> QED BY <1>2

LEMMA PromiseUnmoved ==
  ASSUME UNCHANGED <<now, claims, sent>>,
         \A a \in Sessions : entry'[a].in = entry[a].in,
         \A i \in Instances : run'[i].key = run[i].key
  PROVE  UNCHANGED Promise!vars
BY DEF Promise!vars

\* What the job has found due and nobody has claimed, nobody has had a go at.
LEMMA FreeToTake ==
  ASSUME SInv, NEW i \in Instances, Running(i), NEW k \in run[i].todo, ~Claimed(k)
  PROVE  k \in Keys /\ k # None /\ Promise!Timely(k) /\ Promise!Untaken(k)
<1>1. k \in Keys /\ k # None /\ Holds(i, k)
  BY KeyAssumption DEF SInv, TypeOK, Runs, Holds
<1>2. Founded(k) /\ Birth(k) <= now /\ now <= Birth(k) + Span(k) + TickLimit
  BY <1>1, HeldInTime
<1>3. Birth(k) \in Nat /\ Span(k) \in Nat /\ TickLimit \in Nat /\ now \in Nat
  BY <1>1, <1>2, KeyTimes, LimitsAreNumbers DEF SInv, TypeOK, Instants
<1>4. ~Handled(k)
  BY <1>1, <1>2, <1>3 DEF SInv, ClaimsKept
<1>5. Promise!Timely(k)
  BY <1>2, <1>3, SamePromise DEF Promise!Timely
<1>6. Promise!Untaken(k)
  BY <1>1, <1>4 DEF Promise!Untaken, Handled, Claimed
<1> QED BY <1>1, <1>5, <1>6

\* A go is over, and the claims kept are some of those there were.
LEMMA GoIsOver ==
  ASSUME NEW i \in Instances, run[i].key # None, UNCHANGED <<now, entry, sent>>,
         run'[i].key = None, \A j \in Instances \ {i} : run'[j].key = run[j].key,
         claims' \subseteq claims,
         \A k : Claimed(k) /\ ~Claimed(k)' => Promise!Over(k) /\ run[i].key.kind = "cleanup"
  PROVE  Promise!Next
<1> DEFINE kept == {c.key : c \in claims'}
           were == {c.key : c \in claims}
<1>1. kept \subseteq were
  OBVIOUS
<1>2. \A k \in were \ kept : Promise!Over(k) /\ run[i].key.kind = "cleanup"
  BY DEF Claimed
<1>3. [j \in Instances |-> run'[j].key] = [[j \in Instances |-> run[j].key] EXCEPT ![i] = None]
  OBVIOUS
<1>4. [a \in Sessions |-> entry'[a].in] = [a \in Sessions |-> entry[a].in]
  OBVIOUS
<1> HIDE DEF kept, were
<1>5. Promise!GiveUp(i)
  BY <1>1, <1>2, <1>3, <1>4 DEF Promise!GiveUp, kept, were
<1> QED BY <1>5 DEF Promise!Next

LEMMA ClaimKeepsPromise ==
  ASSUME SInv, NEW i \in Instances, Claim(i)
  PROVE  [Promise!Next]_(Promise!vars)
<1>1. PICK k \in run[i].todo :
        IF Claimed(k)
        THEN /\ Continue(i, run[i].jobs, run[i].todo \ {k}, None)
             /\ UNCHANGED claims
        ELSE /\ Continue(i, run[i].jobs, run[i].todo \ {k}, k)
             /\ claims' = claims \cup {[key |-> k, createdAt |-> now]}
  BY DEF Claim
<1>2. /\ Running(i) /\ run[i].key = None /\ run \in [Instances -> Runs]
      /\ UNCHANGED <<now, entry, shift, sent>>
  BY DEF Claim, Sending, SInv, TypeOK
<1>3. CASE Claimed(k)
  <2>1. \A j \in Instances : run'[j].key = run[j].key
    BY <1>1, <1>2, <1>3 DEF Continue
  <2> QED BY <1>1, <1>2, <1>3, <2>1, PromiseUnmoved
<1>4. CASE ~Claimed(k)
  <2>1. k # None /\ Promise!Timely(k) /\ Promise!Untaken(k)
    BY <1>2, <1>4, FreeToTake
  <2>2. /\ run'[i].key = k
        /\ \A j \in Instances \ {i} : run'[j].key = run[j].key
    BY <1>1, <1>2, <1>4 DEF Continue
  <2>3. {c.key : c \in claims'} = {c.key : c \in claims} \cup {k}
    <3>1. claims' = claims \cup {[key |-> k, createdAt |-> now]}
      BY <1>1, <1>4
    <3> QED BY <3>1, OneMoreKey
  <2>4. Promise!Take(i, k)
    BY <1>2, <2>1, <2>2, <2>3 DEF Promise!Take
  <2>5. k \in {c.key : c \in claims'}
    BY <2>3
  <2> QED BY <2>4, <2>5 DEF Promise!Next
<1> QED BY <1>3, <1>4

LEMMA ClaimFailsKeepsPromise ==
  ASSUME SInv, NEW i \in Instances, ClaimFails(i)
  PROVE  [Promise!Next]_(Promise!vars)
<1>1. PICK k \in run[i].todo :
        /\ Continue(i, run[i].jobs, {}, None)
        /\ \/ UNCHANGED claims
           \/ /\ ~Claimed(k)
              /\ claims' = claims \cup {[key |-> k, createdAt |-> now]}
  BY DEF ClaimFails
<1>2. /\ Running(i) /\ run[i].key = None /\ run \in [Instances -> Runs]
      /\ UNCHANGED <<now, entry, shift, sent>>
  BY DEF ClaimFails, Sending, SInv, TypeOK
<1>3. \A j \in Instances : run'[j].key = run[j].key
  BY <1>1, <1>2 DEF Continue
<1>4. CASE UNCHANGED claims
  BY <1>2, <1>3, <1>4, PromiseUnmoved
<1>5. CASE ~Claimed(k) /\ claims' = claims \cup {[key |-> k, createdAt |-> now]}
  <2>1. Promise!Timely(k) /\ Promise!Untaken(k)
    BY <1>2, <1>5, FreeToTake
  <2>2. {c.key : c \in claims'} = {c.key : c \in claims} \cup {k}
    BY <1>5, OneMoreKey
  <2>3. Promise!Waste(k)
    BY <1>2, <1>3, <2>1, <2>2 DEF Promise!Waste
  <2>4. k \in {c.key : c \in claims'}
    BY <2>2
  <2> QED BY <2>3, <2>4 DEF Promise!Next
<1> QED BY <1>1, <1>4, <1>5

LEMMA SendKeepsPromise ==
  ASSUME SInv, NEW i \in Instances, Send(i)
  PROVE  Promise!Next
<1>1. PICK k \in Keys : k = run[i].key /\ k # None
  BY DEF Send, Sending, SInv, TypeOK, Runs
<1>2. /\ Running(i) /\ UNCHANGED <<now, entry, shift, claims>>
      /\ sent' \in {sent, BagAdd(sent, k)}
      /\ Continue(i, run[i].jobs, run[i].todo, None)
      /\ run \in [Instances -> Runs]
  BY <1>1 DEF Send, SInv, TypeOK
<1>3. /\ run'[i].key = None
      /\ \A j \in Instances \ {i} : run'[j].key = run[j].key
  BY <1>2 DEF Continue
<1>4. CASE sent' = sent
  BY <1>1, <1>2, <1>3, <1>4, GoIsOver DEF Claimed
<1>5. CASE sent' = BagAdd(sent, k)
  <2>1. k \notin DOMAIN sent
    BY <1>1 DEF SInv, Exclusive
  <2>2. DOMAIN sent' = DOMAIN sent \cup {k}
    BY <1>5, <2>1 DEF BagAdd
  <2>3. Holds(i, k)
    BY <1>1 DEF Holds
  <2>4. Founded(k) /\ Birth(k) <= now /\ now <= Birth(k) + Span(k) + TickLimit
    BY <1>2, <2>3, HeldInTime
  <2>5. Birth(k) \in Nat /\ Span(k) \in Nat /\ TickLimit \in Nat /\ now \in Nat
    BY <2>4, KeyTimes, LimitsAreNumbers DEF SInv, TypeOK, Instants
  <2>6. Promise!Timely(k)
    BY <2>4, <2>5, SamePromise DEF Promise!Timely
  <2>7. /\ [j \in Instances |-> run'[j].key]
              = [[j \in Instances |-> run[j].key] EXCEPT ![i] = None]
        /\ [j \in Instances |-> run[j].key][i] = k
    <3>1. [j \in Instances |-> run'[j].key]
            = [[j \in Instances |-> run[j].key] EXCEPT ![i] = None]
      BY <1>3
    <3>2. [j \in Instances |-> run[j].key][i] = k
      BY <1>1
    <3> QED BY <3>1, <3>2
  <2>8. Promise!Deliver(i)
    BY <1>1, <1>2, <2>1, <2>2, <2>6, <2>7 DEF Promise!Deliver
  <2> QED BY <2>8 DEF Promise!Next
<1> QED BY <1>2, <1>4, <1>5

LEMMA DeleteKeepsPromise ==
  ASSUME SInv, NEW i \in Instances, Delete(i)
  PROVE  Promise!Next
<1>1. /\ Running(i) /\ UNCHANGED <<now, entry, shift, sent>>
      /\ run[i].key # None /\ run[i].key.kind = "cleanup"
      /\ claims' \in {claims, {c \in claims : c.createdAt >= run[i].at - Retention}}
      /\ Continue(i, run[i].jobs, run[i].todo, None)
      /\ run \in [Instances -> Runs]
  BY DEF Delete, Sending, SInv, TypeOK
<1>2. /\ run'[i].key = None
      /\ \A j \in Instances \ {i} : run'[j].key = run[j].key
  BY <1>1 DEF Continue
<1>3. ASSUME NEW q, Claimed(q), ~Claimed(q)'
      PROVE  Promise!Over(q)
  <2>1. q \in Keys
    BY <1>3 DEF Claimed, SInv, TypeOK
  <2>2. Founded(q)
    BY <1>3 DEF Claimed, SInv, ClaimsOK
  <2>3. claims' = {c \in claims : c.createdAt >= run[i].at - Retention}
    BY <1>1, <1>3 DEF Claimed
  <2>4. now > Birth(q) + Span(q) + TickLimit
    BY <1>1, <1>3, <2>1, <2>2, <2>3, ForgottenIsOver
  <2> QED BY <2>2, <2>4, SamePromise
<1> QED BY <1>1, <1>2, <1>3, GoIsOver

LEMMA EndKeepsPromise ==
  ASSUME SInv, NEW i \in Instances, EndTick(i) \/ Crash(i)
  PROVE  [Promise!Next]_(Promise!vars)
<1>1. Stop(i) /\ UNCHANGED <<now, entry, shift, claims, sent>> /\ run \in [Instances -> Runs]
  BY DEF EndTick, Crash, SInv, TypeOK
<1>2. /\ run'[i].key = None
      /\ \A j \in Instances \ {i} : run'[j].key = run[j].key
  BY <1>1 DEF Stop, Asleep
<1>3. CASE run[i].key = None
  BY <1>1, <1>2, <1>3, PromiseUnmoved
<1>4. CASE run[i].key # None
  BY <1>1, <1>2, <1>4, GoIsOver DEF Claimed
<1> QED BY <1>3, <1>4

\* A session's check-in is set once, when the session comes to be.
LEMMA AttendSets ==
  ASSUME EntryOK, NEW a \in Sessions, Attend(a)
  PROVE  /\ UNCHANGED <<now, claims, run, sent>>
         /\ \A s \in Sessions \ {a} : entry'[s] = entry[s]
         /\ Exists(a)'
         /\ IF Exists(a) THEN entry'[a].in = entry[a].in ELSE entry'[a].in \in 0 .. now
<1> DEFINE Sets(phase, in) ==
             /\ UNCHANGED now
             /\ phase # "none"
             /\ \E out, auto : entry' = [entry EXCEPT ![a] = [phase |-> phase, in |-> in,
                                                              out |-> out, auto |-> auto]]
             /\ IF Exists(a) THEN in = entry[a].in ELSE in \in 0 .. now
<1>1. \E phase, in : Sets(phase, in)
  <2>1. CASE Life!CheckIn(a)
    BY <2>1 DEF Life!CheckIn, Life!Set, Exists
  <2>2. CASE Life!CheckOut(a)
    BY <2>2 DEF Life!CheckOut, Life!Expects, Life!Set, Exists
  <2>3. CASE Life!AutoCheckOut(a)
    BY <2>3 DEF Life!AutoCheckOut, Life!Set, Exists
  <2>4. CASE Life!Correct(a)
    BY <2>4 DEF Life!Correct, Life!Expects, Life!Set, Exists
  <2>5. CASE Life!Resume(a)
    BY <2>5 DEF Life!Resume, Life!Expects, Life!Set, Exists
  <2> QED BY <2>1, <2>2, <2>3, <2>4, <2>5 DEF Attend
<1>2. PICK phase, in, out, auto :
        /\ UNCHANGED now /\ phase # "none"
        /\ entry' = [entry EXCEPT ![a] = [phase |-> phase, in |-> in,
                                          out |-> out, auto |-> auto]]
        /\ IF Exists(a) THEN in = entry[a].in ELSE in \in 0 .. now
  BY <1>1
<1>3. /\ entry'[a].phase = phase /\ entry'[a].in = in
      /\ \A s \in Sessions \ {a} : entry'[s] = entry[s]
  BY <1>2 DEF EntryOK
<1> QED BY <1>2, <1>3 DEF Exists, Attend

LEMMA AttendKeepsPromise ==
  ASSUME SInv, AbsentOK, NEW a \in Sessions, Attend(a)
  PROVE  AbsentOK' /\ [Promise!Next]_(Promise!vars)
<1>1. /\ UNCHANGED <<now, claims, run, sent>>
      /\ \A s \in Sessions \ {a} : entry'[s] = entry[s]
      /\ Exists(a)'
      /\ IF Exists(a) THEN entry'[a].in = entry[a].in ELSE entry'[a].in \in 0 .. now
  BY AttendSets DEF SInv
<1>2. AbsentOK'
  BY <1>1 DEF AbsentOK, Exists
<1>3. CASE Exists(a)
  <2>1. \A s \in Sessions : entry'[s].in = entry[s].in
    BY <1>1, <1>3
  <2> QED BY <1>1, <1>2, <2>1, PromiseUnmoved
<1>4. CASE ~Exists(a)
  <2>1. entry[a].in = NoTime /\ Promise!NoTime = NoTime
    BY <1>4 DEF AbsentOK, NoTime, Promise!NoTime
  <2>2. Promise!Begin(a)
    BY <1>1, <1>4, <2>1 DEF Promise!Begin
  <2> QED BY <1>2, <2>2 DEF Promise!Next
<1> QED BY <1>2, <1>3, <1>4

LEMMA StepKeepsPromise ==
  ASSUME SInv, AbsentOK, [Next]_vars
  PROVE  AbsentOK' /\ [Promise!Next]_(Promise!vars)
<1>1. CASE Clock
  <2>1. now' = now + 1 /\ UNCHANGED <<entry, shift, claims, run, sent>>
    BY <1>1 DEF Clock, Life!Tick
  <2>2. Promise!Tick
    BY <2>1 DEF Promise!Tick
  <2>3. AbsentOK'
    BY <2>1 DEF AbsentOK, Exists
  <2> QED BY <2>2, <2>3 DEF Promise!Next
<1>2. ASSUME NEW a \in Sessions, Attend(a) PROVE AbsentOK' /\ [Promise!Next]_(Promise!vars)
  BY <1>2, AttendKeepsPromise
<1>3. ASSUME UNCHANGED entry PROVE AbsentOK'
  BY <1>3 DEF AbsentOK, Exists
<1>4. CASE UNCHANGED vars \/ \E e \in Employees : ChangeShift(e)
  <2>1. UNCHANGED <<now, entry, claims, run, sent>>
    BY <1>4 DEF vars, ChangeShift
  <2> QED BY <1>3, <2>1, PromiseUnmoved
<1>5. ASSUME NEW i \in Instances,
             \/ \E reminders, digests \in BOOLEAN : StartTick(i, reminders, digests)
             \/ Collect(i)
      PROVE  AbsentOK' /\ [Promise!Next]_(Promise!vars)
  <2>1. UNCHANGED <<now, entry, claims, sent>> /\ run \in [Instances -> Runs]
    BY <1>5 DEF StartTick, Collect, SInv, TypeOK
  <2>2. run[i].key = None
    BY <1>5 DEF StartTick, Collect, Asleep, Sending
  <2>3. \A j \in Instances : run'[j].key = run[j].key
    BY <1>5, <2>1, <2>2 DEF StartTick, Collect, Continue
  <2> QED BY <1>3, <2>1, <2>3, PromiseUnmoved
<1>6. ASSUME NEW i \in Instances,
             Claim(i) \/ ClaimFails(i) \/ Send(i) \/ Delete(i) \/ EndTick(i) \/ Crash(i)
      PROVE  AbsentOK' /\ [Promise!Next]_(Promise!vars)
  <2>1. UNCHANGED entry
    BY <1>6 DEF Claim, ClaimFails, Send, Delete, EndTick, Crash
  <2> QED BY <1>3, <1>6, <2>1, ClaimKeepsPromise, ClaimFailsKeepsPromise, SendKeepsPromise,
             DeleteKeepsPromise, EndKeepsPromise
<1> QED BY <1>1, <1>2, <1>4, <1>5, <1>6 DEF Next

\* A message is tried once, by the instance that was first to claim it and
\* within the time it is good for, whatever fails and though claims are deleted
\* (claim, send, cleanup).
THEOREM TriedOnce == ASSUME OneAtATime PROVE Spec => DeliveryContract
<1>1. Init => AbsentOK /\ Promise!Init
  <2> SUFFICES ASSUME Init PROVE AbsentOK /\ Promise!Init
    OBVIOUS
  <2>1. now = 0 /\ \A a \in Sessions : entry[a].in = NoTime
    BY SameClock DEF Init, Life!Init, Life!Absent
  <2>2. \A i \in Instances : run[i].key = None
    BY DEF Init, Asleep
  <2>3. {c.key : c \in claims} = {} /\ DOMAIN sent = {}
    BY DEF Init, EmptyBag, SetToBag
  <2>4. Promise!NoTime = NoTime
    BY DEF Promise!NoTime, NoTime
  <2> QED BY <2>1, <2>2, <2>3, <2>4 DEF Promise!Init, AbsentOK
<1>2. SInv /\ AbsentOK /\ [Next]_vars => AbsentOK' /\ [Promise!Next]_(Promise!vars)
  BY StepKeepsPromise
<1>3. Spec => []SInv
  BY AlwaysSound
<1> QED BY <1>1, <1>2, <1>3, PTL DEF Spec, DeliveryContract, Promise!Spec
=============================================================================
