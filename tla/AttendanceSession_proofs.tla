---------------------- MODULE AttendanceSession_proofs ----------------------
(***************************************************************************)
(* For any number of employees, sessions, breaks, requests and sweeps, and *)
(* whatever fails: the types, that what requests hold stays true, that a   *)
(* sweep keeps to the day of the session, and that the database calls      *)
(* implement the lifecycle.                                                *)
(*                                                                         *)
(* And when requests run one after the other and none fails (OneAtATime,   *)
(* the second half): that breaks, status, minutes and the sweep's flag     *)
(* agree, that the calls implement the strict lifecycle, and that ending a *)
(* session adds nothing to the hours its day has shown (PersonDay).        *)
(***************************************************************************)
EXTENDS PersonDay, CompanyTime_proofs

IInv == TypeOK /\ ReadsStayTrue

-----------------------------------------------------------------------------
(* What the queries answer *)

LEMMA BreaksFinite ==
  ASSUME NEW a
  PROVE  IsFiniteSet(BreaksOf(a)) /\ BreaksOf(a) \subseteq Breaks
<1>1. BreaksOf(a) \subseteq Breaks
  BY DEF BreaksOf
<1> QED BY <1>1, SessionAssumption, FS_Subset

LEMMA FiniteImage ==
  ASSUME NEW S, IsFiniteSet(S), NEW f
  PROVE  IsFiniteSet({f[x] : x \in S})
<1> DEFINE g == [x \in S |-> f[x]]
           T == {f[x] : x \in S}
<1>1. g \in Surjection(S, T)
  BY DEF Surjection
<1> QED BY <1>1, FS_Surjection

LEMMA BreakMinutesType ==
  ASSUME TypeOK, NEW a \in Sessions
  PROVE  BreakMinutesOf(a) \in Nat
<1> DEFINE f == [b \in BreaksOf(a) |-> break[b].duration]
<1>1. IsFiniteSet(DOMAIN f) /\ \A x \in DOMAIN f : f[x] \in Nat
  BY BreaksFinite DEF TypeOK, BreakRows
<1>2. SumFunction(f) \in Nat
  <2> HIDE DEF f
  <2> QED BY <1>1, SumOfNaturals
<1> QED BY <1>2 DEF BreakMinutesOf

\* What a sweep or a correction works out is well formed, whichever breaks it
\* ends and however it counts them.
LEMMA ClosingType ==
  ASSUME NEW a \in Sessions, session[a].checkIn \in Instants,
         NEW at \in Instants, NEW ids \in SUBSET Breaks,
         NEW minutes \in [BreaksOf(a) -> Nat]
  PROVE  /\ Closing(a, at, ids, minutes) \in Closings
         /\ Closing(a, at, ids, minutes).session = a
         /\ Closing(a, at, ids, minutes).at = at
<1> DEFINE taken == SumFunction(minutes)
<1>1. taken \in Nat
  BY BreaksFinite, SumOfNaturals
<1>2. NetMinutes(session[a].checkIn, at, taken) \in Nat
  <2>1. MinutesBetween(session[a].checkIn, at) \in Nat
    <3>1. session[a].checkIn \in Int /\ at \in Int
      BY DEF Instants
    <3> QED BY <3>1, MinutesAreNatural
  <2>2. MinutesBetween(session[a].checkIn, at) - taken \in Int
    BY <2>1, <1>1
  <2> QED BY <2>2, MaxWithZero DEF NetMinutes
<1> QED BY <1>1, <1>2 DEF Closing, Closings

LEMMA StampsOfBreaks ==
  ASSUME TypeOK, RowsFaithful, NEW a \in Sessions
  PROVE  BreakStamps(a) \subseteq Instants /\ IsFiniteSet(BreakStamps(a))
<1> DEFINE starts == {break[b].start : b \in BreaksOf(a)}
           ended == BreaksOf(a) \ OpenBreaksOf(a)
           ends == {break[b].end : b \in ended}
<1>1. a # None
  BY SessionAssumption
<1>2. starts \subseteq Instants
  BY <1>1 DEF RowsFaithful, BreaksOf
<1>3. ends \subseteq Instants
  BY DEF TypeOK, BreakRows, Times, OpenBreaksOf, BreaksOf
<1>4. IsFiniteSet(starts)
  <2> DEFINE f == [b \in BreaksOf(a) |-> break[b].start]
  <2>1. starts = {f[b] : b \in BreaksOf(a)}
    OBVIOUS
  <2> HIDE DEF f
  <2> QED BY <2>1, BreaksFinite, FiniteImage
<1>5. IsFiniteSet(ended)
  BY BreaksFinite, FS_Subset
<1>6. IsFiniteSet(ends)
  <2> DEFINE f == [b \in ended |-> break[b].end]
  <2>1. ends = {f[b] : b \in ended}
    OBVIOUS
  <2> HIDE DEF f, ended
  <2> QED BY <2>1, <1>5, FiniteImage
<1>7. IsFiniteSet(starts \cup ends)
  BY <1>4, <1>6, FS_Union
<1> QED BY <1>2, <1>3, <1>7 DEF BreakStamps

\* A sweep's closings are those of open sessions whose day is over.
LEMMA StaleClosingsInTheirDay ==
  ASSUME TypeOK, RowsFaithful, NEW emps
  PROVE  /\ StaleClosings(emps) \in SUBSET Closings
         /\ \A c \in StaleClosings(emps) :
              InItsDay(c) /\ NextMidnight(session[c.session].checkIn) <= now
<1> SUFFICES ASSUME NEW a \in Sessions, IsStale(a)
             PROVE  /\ AutoClosing(a) \in Closings
                    /\ InItsDay(AutoClosing(a))
                    /\ NextMidnight(session[AutoClosing(a).session].checkIn) <= now
  BY DEF StaleClosings
<1>1. Exists(a)
  BY DEF IsStale, IsOpen, Exists, OpenStatuses, Statuses
<1>2. session[a].checkIn \in Instants /\ session[a].employee \in Employees /\ now \in Instants
  BY <1>1 DEF RowsFaithful, TypeOK, Instants
<1>3. shift[session[a].employee] \in ShiftRecords
  BY <1>2, SessionAssumption DEF TypeOK
<1>4. /\ Cutoff(a) \in Instants
      /\ session[a].checkIn < Cutoff(a)
      /\ Cutoff(a) <= NextMidnight(session[a].checkIn)
  BY <1>2, <1>3, StampsOfBreaks, AutoCheckOutWithinDay DEF Cutoff
<1>5. NextMidnight(session[a].checkIn) <= now
  <2>1. session[a].checkIn < StartOfDay(now)
    BY DEF IsStale
  <2>2. NextMidnight(session[a].checkIn) <= StartOfDay(now)
    BY <2>1, <1>2, DaysApart
  <2> QED BY <2>2, <1>2, DayBounds DEF Instants
<1> DEFINE minutes == [b \in BreaksOf(a) |->
                         IF break[b].end = NoTime
                         THEN MinutesBetween(break[b].start, Cutoff(a))
                         ELSE break[b].duration]
<1>6. minutes \in [BreaksOf(a) -> Nat]
  <2> SUFFICES ASSUME NEW b \in BreaksOf(a) PROVE minutes[b] \in Nat
    OBVIOUS
  <2>1. break[b] \in BreakRows
    BY DEF TypeOK, BreaksOf
  <2>2. break[b].start \in Int /\ break[b].duration \in Nat /\ Cutoff(a) \in Int
    BY <2>1, <1>4 DEF BreakRows, Times, Instants, NoTime
  <2> QED BY <2>2, MinutesAreNatural
<1>7. OpenBreaksOf(a) \in SUBSET Breaks
  BY DEF OpenBreaksOf, BreaksOf
<1>8. /\ AutoClosing(a) \in Closings
      /\ AutoClosing(a).session = a
      /\ AutoClosing(a).at = Cutoff(a)
  <2> HIDE DEF minutes
  <2>1. AutoClosing(a) = Closing(a, Cutoff(a), OpenBreaksOf(a), minutes)
    BY DEF AutoClosing, minutes
  <2> QED BY <2>1, <1>2, <1>4, <1>6, <1>7, ClosingType
<1> QED BY <1>1, <1>4, <1>5, <1>8 DEF InItsDay

LEMMA CorrectedClosingInItsDay ==
  ASSUME TypeOK, RowsFaithful, NEW a \in Sessions, Exists(a),
         NEW at \in Instants,
         at > session[a].checkIn, at <= NextMidnight(session[a].checkIn)
  PROVE  CorrectedClosing(a, at) \in Closings /\ InItsDay(CorrectedClosing(a, at))
<1>1. session[a].checkIn \in Instants
  BY DEF RowsFaithful, Instants
<1> DEFINE clip(b) == IF break[b].end # NoTime /\ break[b].end < at
                      THEN break[b].end ELSE at
           minutes == [b \in BreaksOf(a) |-> MinutesBetween(break[b].start, clip(b))]
           ids == {b \in BreaksOf(a) : break[b].end = NoTime \/ break[b].end > at}
<1>2. minutes \in [BreaksOf(a) -> Nat]
  <2> SUFFICES ASSUME NEW b \in BreaksOf(a) PROVE minutes[b] \in Nat
    OBVIOUS
  <2>1. break[b] \in BreakRows
    BY DEF TypeOK, BreaksOf
  <2>2. break[b].start \in Int /\ clip(b) \in Int
    BY <2>1 DEF BreakRows, Times, Instants, NoTime
  <2> QED BY <2>2, MinutesAreNatural
<1>3. ids \in SUBSET Breaks
  BY DEF BreaksOf
<1>4. /\ CorrectedClosing(a, at) \in Closings
      /\ CorrectedClosing(a, at).session = a
      /\ CorrectedClosing(a, at).at = at
  <2> HIDE DEF minutes, ids
  <2>1. CorrectedClosing(a, at) = Closing(a, at, ids, minutes)
    BY DEF CorrectedClosing, minutes, ids
  <2> QED BY <2>1, <1>1, <1>2, <1>3, ClosingType
<1> QED BY <1>4, <1>1 DEF InItsDay, Instants

-----------------------------------------------------------------------------
(* What no step takes back *)

SessionsKept ==
  /\ session' \in [Sessions -> SessionRows]
  /\ \A a \in Sessions :
       Exists(a) => /\ Exists(a)'
                    /\ session'[a].checkIn = session[a].checkIn
                    /\ session'[a].employee = session[a].employee

BreaksKept ==
  /\ break' \in [Breaks -> BreakRows]
  /\ \A b \in Breaks :
       break[b].session # None => /\ break'[b].session = break[b].session
                                  /\ break'[b].start = break[b].start

NoNewRows ==
  /\ \A a \in Sessions : Exists(a)' => Exists(a)
  /\ \A b \in Breaks : break[b].session = None => break'[b].session = None

TimePasses == now' \in Instants /\ now <= now'

\* The fields of a job, by its operation.
LEMMA JobFields ==
  ASSUME TypeOK, NEW p \in Procs
  PROVE  /\ job[p].op = "sweep" => job[p] \in [op : {"sweep"}, todo : SUBSET Closings]
         /\ job[p].op = "checkIn" =>
              job[p] \in [op : {"checkIn"}, employee : Employees,
                          todo : SUBSET Closings, since : Instants]
         /\ job[p].op = "checkOut" =>
              job[p] \in [op : {"checkOut"}, session : Sessions,
                          since : Instants, breakMinutes : Nat]
         /\ job[p].op = "correct" => job[p] \in [op : {"correct"}, closing : Closings]
         /\ job[p].op \in {"startBreak", "resume"} =>
              job[p] \in [op : {"startBreak", "resume"}, session : Sessions]
         /\ job[p].op = "insertBreak" =>
              job[p] \in [op : {"insertBreak"}, session : Sessions, since : Instants]
         /\ job[p].op = "endBreak" =>
              job[p] \in [op : {"endBreak"}, break : Breaks, since : Instants]
<1>1. job[p] \in Jobs
  BY DEF TypeOK
<1> QED BY <1>1 DEF Jobs, Idle

\* What a job holds does not become wrong while others write.
LEMMA JobStaysFaithful ==
  ASSUME TypeOK, NEW p \in Procs, JobFaithful(p),
         SessionsKept, BreaksKept, TimePasses, job'[p] = job[p]
  PROVE  JobFaithful(p)'
<1> DEFINE j == job[p]
<1>1. \A c \in Closings : InItsDay(c) => InItsDay(c)'
  BY DEF InItsDay, SessionsKept, Closings
<1>2. ASSUME j.op \in {"sweep", "checkIn"}, NEW c \in j.todo
      PROVE  InItsDay(c)' /\ NextMidnight(session'[c.session].checkIn) <= now'
  <2>1. c \in Closings
    BY <1>2, JobFields
  <2>2. InItsDay(c) /\ NextMidnight(session[c.session].checkIn) <= now
    BY <1>2 DEF JobFaithful
  <2>3. /\ session'[c.session].checkIn = session[c.session].checkIn
        /\ session[c.session].checkIn \in Times
    BY <2>1, <2>2 DEF InItsDay, SessionsKept, Closings, TypeOK, SessionRows
  <2>4. NextMidnight(session[c.session].checkIn) \in Int
    BY <2>3, DayTicksPositive DEF NextMidnight, StartOfDay, Times, Instants, NoTime
  <2> QED BY <1>1, <2>1, <2>2, <2>3, <2>4 DEF TimePasses, TypeOK, Instants
<1>3. j.op = "correct" => InItsDay(j.closing)'
  BY <1>1, JobFields DEF JobFaithful
<1>4. j.op \in {"startBreak", "insertBreak", "resume"} => Exists(j.session)'
  BY JobFields DEF JobFaithful, SessionsKept
<1>5. j.op = "checkOut" => Exists(j.session)' /\ session'[j.session].checkIn <= j.since
  BY JobFields DEF JobFaithful, SessionsKept
<1>6. j.op = "endBreak" => break'[j.break].session # None
  BY JobFields DEF JobFaithful, BreaksKept
<1> QED BY <1>2, <1>3, <1>4, <1>5, <1>6 DEF JobFaithful

LEMMA RowsStayFaithful ==
  ASSUME TypeOK, RowsFaithful, SessionsKept, BreaksKept, TimePasses, NoNewRows
  PROVE  RowsFaithful'
<1>1. ASSUME NEW a \in Sessions, Exists(a)'
      PROVE  session'[a].employee \in Employees /\ session'[a].checkIn \in 0 .. now'
  BY <1>1 DEF RowsFaithful, NoNewRows, SessionsKept, TimePasses, Instants, TypeOK
<1>2. ASSUME NEW b \in Breaks, break'[b].session # None
      PROVE  Exists(break[b].session)' /\ break'[b].start \in Instants
  <2>1. break[b].session # None /\ break'[b].session = break[b].session
    BY <1>2 DEF NoNewRows, BreaksKept
  <2>2. break[b].session \in Sessions
    BY <2>1 DEF TypeOK, BreakRows
  <2>3. Exists(break[b].session) /\ break[b].start \in Instants
    BY <2>1 DEF RowsFaithful
  <2>4. session'[break[b].session].status \in Statuses
    BY <2>2, <2>3 DEF SessionsKept, Exists
  <2> QED BY <1>2, <2>1, <2>3, <2>4 DEF Exists, BreaksKept
<1> QED BY <1>1, <1>2 DEF RowsFaithful

\* A step of one job: it is enough to look at the rows and at that job.
LEMMA StepOfOne ==
  ASSUME IInv, NEW p \in Procs, NEW next \in Jobs, Proceed(p, next),
         SessionsKept, BreaksKept, TimePasses, UNCHANGED shift,
         RowsFaithful', JobFaithful(p)'
  PROVE  IInv'
<1>1. job' \in [Procs -> Jobs] /\ \A q \in Procs \ {p} : job'[q] = job[q]
  BY DEF IInv, TypeOK, Proceed
<1>2. TypeOK'
  BY <1>1 DEF IInv, TypeOK, SessionsKept, BreaksKept, TimePasses
<1>3. \A q \in Procs \ {p} : JobFaithful(q)'
  BY <1>1, JobStaysFaithful DEF IInv, ReadsStayTrue
<1> QED BY <1>2, <1>3 DEF IInv, ReadsStayTrue

\* A step that only reads.
LEMMA ReadingStep ==
  ASSUME IInv, NEW p \in Procs, NEW next \in Jobs, Proceed(p, next),
         UNCHANGED <<now, shift, session, break>>, JobFaithful(p)'
  PROVE  IInv'
<1>1. SessionsKept /\ BreaksKept /\ TimePasses /\ NoNewRows
  BY DEF SessionsKept, BreaksKept, TimePasses, NoNewRows, IInv, TypeOK, Exists, Instants
<1>2. RowsFaithful'
  BY <1>1, RowsStayFaithful DEF IInv, ReadsStayTrue
<1> QED BY <1>1, <1>2, StepOfOne

\* A session overwritten with a check-in and an employee of its own.
LEMMA SessionOverwritten ==
  ASSUME TypeOK, NEW a \in Sessions, Exists(a),
         session' \in [Sessions -> SessionRows],
         \A other \in Sessions \ {a} : session'[other] = session[other],
         session'[a].status \in Statuses,
         session'[a].checkIn = session[a].checkIn,
         session'[a].employee = session[a].employee
  PROVE  SessionsKept /\ \A x \in Sessions : Exists(x)' => Exists(x)
BY DEF SessionsKept, Exists

LEMMA BreaksEnded ==
  ASSUME TypeOK, NEW ids, NEW at \in Instants, EndBreaks(ids, at)
  PROVE  /\ BreaksKept
         /\ \A b \in Breaks : break'[b].session = break[b].session
<1>1. ASSUME NEW b \in Breaks
      PROVE  break'[b] \in BreakRows /\ break'[b].session = break[b].session
             /\ break'[b].start = break[b].start
  <2>1. break[b] \in BreakRows
    BY DEF TypeOK
  <2>2. MinutesBetween(break[b].start, at) \in Nat
    <3>1. break[b].start \in Int /\ at \in Int
      BY <2>1 DEF BreakRows, Times, Instants, NoTime
    <3> QED BY <3>1, MinutesAreNatural
  <2> QED BY <2>1, <2>2 DEF EndBreaks, BreakRows, Times
<1>2. break' \in [Breaks -> BreakRows]
  <2>1. break' = [b \in Breaks |-> break'[b]]
    BY DEF EndBreaks
  <2> QED BY <2>1, <1>1
<1> QED BY <1>1, <1>2 DEF BreaksKept

-----------------------------------------------------------------------------
(* The invariant is inductive *)

LEMMA InitEstablishes == Init => IInv
<1> SUFFICES ASSUME Init PROVE IInv
  OBVIOUS
<1>1. TypeOK
  BY SessionAssumption
  DEF Init, TypeOK, Instants, NoSession, NoBreak, Idle, Jobs, SessionRows, BreakRows, Times
<1>2. RowsFaithful
  BY DEF Init, RowsFaithful, Exists, NoSession, NoBreak, Statuses
<1>3. \A p \in Procs : JobFaithful(p)
  BY DEF Init, JobFaithful, Idle
<1> QED BY <1>1, <1>2, <1>3 DEF IInv, ReadsStayTrue

LEMMA IdleIsAJob == Idle \in Jobs /\ Idle.op = "idle"
BY DEF Jobs, Idle

\* The steps that start a request: they read and hold what they have read.
LEMMA StartsPreserve ==
  ASSUME IInv, NEW p \in Procs
  PROVE  /\ Sweep(p) => IInv'
         /\ \A e \in Employees : GetStatus(p, e) \/ CheckIn(p, e) => IInv'
         /\ \A a \in Sessions :
              CheckOut(p, a) \/ StartBreak(p, a) \/ EndBreak(p, a) => IInv'
         /\ \A a \in Sessions, clock \in Clocks : CorrectCheckOut(p, a, clock) => IInv'
<1> USE DEF IInv, ReadsStayTrue
<1>1. now \in Instants /\ job \in [Procs -> Jobs]
  BY DEF TypeOK
<1>2. ASSUME NEW emps, Proceed(p, [op |-> "sweep", todo |-> StaleClosings(emps)]),
             UNCHANGED <<now, shift, session, break>>
      PROVE  IInv'
  <2> DEFINE next == [op |-> "sweep", todo |-> StaleClosings(emps)]
  <2>1. next \in Jobs
    BY StaleClosingsInTheirDay DEF Jobs
  <2>2. job'[p] = next
    BY <1>1, <1>2 DEF Proceed
  <2>3. JobFaithful(p)'
    BY <1>2, <2>2, StaleClosingsInTheirDay DEF JobFaithful, InItsDay, Exists
  <2> HIDE DEF next
  <2> QED BY <1>2, <2>1, <2>3, ReadingStep DEF next
<1>3. Sweep(p) => IInv'
  BY <1>2 DEF Sweep
<1>4. ASSUME NEW e \in Employees, GetStatus(p, e) PROVE IInv'
  BY <1>2, <1>4 DEF GetStatus
<1>5. ASSUME NEW e \in Employees, CheckIn(p, e) PROVE IInv'
  <2> DEFINE next == [op |-> "checkIn", employee |-> e,
                      todo |-> StaleClosings({e}), since |-> now]
  <2>1. next \in Jobs
    BY <1>1, StaleClosingsInTheirDay DEF Jobs
  <2>2. job'[p] = next /\ UNCHANGED <<now, shift, session, break>> /\ Proceed(p, next)
    BY <1>1, <1>5 DEF Proceed, CheckIn
  <2>3. JobFaithful(p)'
    BY <2>2, StaleClosingsInTheirDay DEF JobFaithful, InItsDay, Exists
  <2> HIDE DEF next
  <2> QED BY <2>1, <2>2, <2>3, ReadingStep
<1>6. ASSUME NEW a \in Sessions, CheckOut(p, a) PROVE IInv'
  <2> DEFINE next == [op |-> "checkOut", session |-> a, since |-> now,
                      breakMinutes |-> BreakMinutesOf(a)]
  <2>1. next \in Jobs
    BY <1>1, BreakMinutesType DEF Jobs
  <2>2. job'[p] = next /\ UNCHANGED <<now, shift, session, break>> /\ Proceed(p, next)
    BY <1>1, <1>6 DEF Proceed, CheckOut
  <2>3. Exists(a) /\ session[a].checkIn <= now
    BY <1>6 DEF CheckOut, IsOpen, Exists, OpenStatuses, Statuses, RowsFaithful
  <2>4. JobFaithful(p)'
    BY <2>2, <2>3 DEF JobFaithful, Exists
  <2> HIDE DEF next
  <2> QED BY <2>1, <2>2, <2>4, ReadingStep
<1>7. ASSUME NEW a \in Sessions, StartBreak(p, a) PROVE IInv'
  <2> DEFINE next == [op |-> "startBreak", session |-> a]
  <2>1. next \in Jobs
    BY DEF Jobs
  <2>2. job'[p] = next /\ UNCHANGED <<now, shift, session, break>> /\ Proceed(p, next)
    BY <1>1, <1>7 DEF Proceed, StartBreak
  <2>3. JobFaithful(p)'
    BY <1>7, <2>2 DEF JobFaithful, Exists, StartBreak, Statuses
  <2> HIDE DEF next
  <2> QED BY <2>1, <2>2, <2>3, ReadingStep
<1>8. ASSUME NEW a \in Sessions, EndBreak(p, a) PROVE IInv'
  <2>1. PICK b \in OpenBreaksOf(a) : Proceed(p, [op |-> "endBreak", break |-> b, since |-> now])
    BY <1>8 DEF EndBreak
  <2> DEFINE next == [op |-> "endBreak", break |-> b, since |-> now]
  <2>2. b \in Breaks /\ break[b].session # None
    BY SessionAssumption DEF OpenBreaksOf, BreaksOf
  <2>3. next \in Jobs
    BY <1>1, <2>2 DEF Jobs
  <2>4. job'[p] = next /\ UNCHANGED <<now, shift, session, break>> /\ Proceed(p, next)
    BY <1>1, <1>8, <2>1 DEF Proceed, EndBreak
  <2>5. JobFaithful(p)'
    BY <2>2, <2>4 DEF JobFaithful
  <2> HIDE DEF next
  <2> QED BY <2>3, <2>4, <2>5, ReadingStep
<1>9. ASSUME NEW a \in Sessions, NEW clock \in Clocks, CorrectCheckOut(p, a, clock)
      PROVE  IInv'
  <2> DEFINE at == AtClockTime(session[a].checkIn, clock)
  <2>1. Exists(a) /\ session[a].checkIn \in Instants
    BY <1>9 DEF CorrectCheckOut, IsClosed, Exists, Statuses, RowsFaithful, Instants
  <2>2. /\ at \in Instants /\ at > session[a].checkIn
        /\ at <= NextMidnight(session[a].checkIn)
    BY <1>9, <2>1, ClockTimeType DEF CorrectCheckOut
  <2>3. CorrectedClosing(a, at) \in Closings /\ InItsDay(CorrectedClosing(a, at))
    <3> HIDE DEF at
    <3> QED BY <2>1, <2>2, CorrectedClosingInItsDay
  <2>4. PICK c \in Closings : c = CorrectedClosing(a, at) /\ InItsDay(c)
    <3> HIDE DEF at
    <3> QED BY <2>3
  <2> DEFINE next == [op |-> "correct", closing |-> c]
  <2>5. next \in Jobs
    BY DEF Jobs
  <2>6. job'[p] = next /\ UNCHANGED <<now, shift, session, break>> /\ Proceed(p, next)
    BY <1>1, <1>9, <2>4 DEF Proceed, CorrectCheckOut
  <2>7. JobFaithful(p)'
    BY <2>4, <2>6 DEF JobFaithful, InItsDay, Exists
  <2> HIDE DEF next
  <2> QED BY <2>5, <2>6, <2>7, ReadingStep
<1> QED BY <1>3, <1>4, <1>5, <1>6, <1>7, <1>8, <1>9

\* The transaction of a sweep.
LEMMA AutoClosingApplied ==
  ASSUME TypeOK, NEW c \in Closings, ApplyAutoClosing(c)
  PROVE  SessionsKept /\ BreaksKept /\ NoNewRows
<1> DEFINE a == c.session
<1>1. a \in Sessions /\ c.at \in Instants
  BY DEF Closings
<1>2. CASE IsOpen(a)
  <2>1. EndBreaks(c.breaks, c.at)
    BY <1>2 DEF ApplyAutoClosing
  <2>2. BreaksKept /\ \A b \in Breaks : break'[b].session = break[b].session
    BY <1>1, <2>1, BreaksEnded
  <2>3. /\ session' \in [Sessions -> SessionRows]
        /\ \A other \in Sessions \ {a} : session'[other] = session[other]
        /\ session'[a].status \in Statuses
        /\ session'[a].checkIn = session[a].checkIn
        /\ session'[a].employee = session[a].employee
    <3>1. session' = [session EXCEPT
                        ![a].checkOut = c.at,
                        ![a].status = "checked_out",
                        ![a].autoCheckedOut = TRUE,
                        ![a].workingMinutes = c.workingMinutes,
                        ![a].breakMinutes = c.breakMinutes]
      BY <1>2 DEF ApplyAutoClosing
    <3>2. c.workingMinutes \in Int /\ c.breakMinutes \in Int
      BY DEF Closings
    <3> QED BY <1>1, <3>1, <3>2 DEF TypeOK, SessionRows, Statuses, Times
  <2>4. Exists(a)
    BY <1>2 DEF IsOpen, Exists, OpenStatuses, Statuses
  <2> QED BY <1>1, <2>2, <2>3, <2>4, SessionOverwritten DEF NoNewRows
<1>3. CASE ~IsOpen(a)
  BY <1>3 DEF ApplyAutoClosing, SessionsKept, BreaksKept, NoNewRows, TypeOK, Exists
<1> QED BY <1>2, <1>3

\* The steps that write: each is one call of one request.
LEMMA WritesPreserve ==
  ASSUME IInv, NEW p \in Procs
  PROVE  Step(p) => IInv'
<1> USE DEF IInv, ReadsStayTrue
<1>1. now \in Instants /\ job \in [Procs -> Jobs]
  BY DEF TypeOK
<1>2. \A next \in Jobs : Proceed(p, next) => job'[p] = next
  BY <1>1 DEF Proceed
<1>3. Finish(p) => JobFaithful(p)'
  BY <1>2, IdleIsAJob DEF Finish, JobFaithful
<1>4. ASSUME UNCHANGED <<now, shift>>, SessionsKept, BreaksKept, NoNewRows,
             NEW next \in Jobs, Proceed(p, next), JobFaithful(p)'
      PROVE  IInv'
  <2>1. TimePasses
    BY <1>1, <1>4 DEF TimePasses, Instants
  <2>2. RowsFaithful'
    BY <1>4, <2>1, RowsStayFaithful
  <2> QED BY <1>4, <2>1, <2>2, StepOfOne
<1>5. ASSUME CloseStale(p) PROVE IInv'
  <2>1. job[p] \in [op : {"sweep"}, todo : SUBSET Closings]
    BY <1>5, JobFields DEF CloseStale
  <2>2. PICK c \in job[p].todo :
          /\ ApplyAutoClosing(c)
          /\ IF job[p].todo = {c} THEN Finish(p)
             ELSE Proceed(p, [job[p] EXCEPT !.todo = @ \ {c}])
    BY <1>5 DEF CloseStale
  <2>3. UNCHANGED <<now, shift>>
    BY <1>5 DEF CloseStale
  <2>4. SessionsKept /\ BreaksKept /\ NoNewRows
    BY <2>1, <2>2, AutoClosingApplied
  <2>5. CASE job[p].todo = {c}
    BY <1>3, <1>4, <2>2, <2>3, <2>4, <2>5, IdleIsAJob DEF Finish
  <2>6. CASE job[p].todo # {c}
    <3> DEFINE next == [job[p] EXCEPT !.todo = @ \ {c}]
    <3>1. next \in [op : {"sweep"}, todo : SUBSET Closings]
      BY <2>1
    <3>2. next \in Jobs
      BY <3>1 DEF Jobs
    <3>3. job'[p] = next /\ Proceed(p, next)
      BY <1>2, <2>2, <2>6, <3>2
    <3>4. /\ job'[p].op = "sweep" /\ job'[p].todo \subseteq job[p].todo
          /\ job'[p].todo \subseteq Closings
      BY <2>1, <3>1, <3>3
    <3>5. JobFaithful(p)'
      BY <2>1, <2>3, <2>4, <3>4 DEF JobFaithful, InItsDay, SessionsKept, Closings
    <3> QED BY <1>4, <2>3, <2>4, <3>2, <3>3, <3>5
  <2> QED BY <2>5, <2>6
<1>6. ASSUME CheckInCloseStale(p) PROVE IInv'
  <2>1. job[p] \in [op : {"checkIn"}, employee : Employees,
                    todo : SUBSET Closings, since : Instants]
    BY <1>6, JobFields DEF CheckInCloseStale
  <2>2. PICK c \in job[p].todo :
          /\ ApplyAutoClosing(c)
          /\ Proceed(p, [job[p] EXCEPT !.todo = @ \ {c}, !.since = now])
    BY <1>6 DEF CheckInCloseStale
  <2>3. UNCHANGED <<now, shift>>
    BY <1>6 DEF CheckInCloseStale
  <2>4. SessionsKept /\ BreaksKept /\ NoNewRows
    BY <2>1, <2>2, AutoClosingApplied
  <2> DEFINE next == [job[p] EXCEPT !.todo = @ \ {c}, !.since = now]
  <2>5. next \in [op : {"checkIn"}, employee : Employees,
                  todo : SUBSET Closings, since : Instants]
    BY <1>1, <2>1
  <2>6. next \in Jobs
    BY <2>5 DEF Jobs
  <2>7. job'[p] = next
    BY <1>2, <2>2, <2>6
  <2>8. /\ job'[p].op = "checkIn" /\ job'[p].todo \subseteq job[p].todo
        /\ job'[p].todo \subseteq Closings
    BY <2>1, <2>5, <2>7
  <2>9. JobFaithful(p)'
    BY <2>1, <2>3, <2>4, <2>8 DEF JobFaithful, InItsDay, SessionsKept, Closings
  <2> QED BY <1>4, <2>2, <2>3, <2>4, <2>6, <2>9
<1>7. ASSUME CheckInCreate(p) PROVE IInv'
  <2>1. job[p] \in [op : {"checkIn"}, employee : Employees,
                    todo : SUBSET Closings, since : Instants]
    BY <1>7, JobFields DEF CheckInCreate
  <2>2. PICK a \in Sessions, t \in Stamps(p) :
          /\ ~Exists(a)
          /\ session' = [session EXCEPT
                           ![a] = [NoSession EXCEPT !.status = "checked_in",
                                                    !.employee = job[p].employee,
                                                    !.checkIn = t]]
    BY <1>7 DEF CheckInCreate
  <2>3. UNCHANGED <<now, shift, break>> /\ Finish(p)
    BY <1>7 DEF CheckInCreate
  <2>4. t \in 0 .. now
    BY <1>1, <2>1 DEF Stamps, Instants
  <2>5. /\ session'[a] \in SessionRows /\ session'[a].status = "checked_in"
        /\ session'[a].employee \in Employees /\ session'[a].checkIn = t
    <3> DEFINE row == [NoSession EXCEPT !.status = "checked_in",
                                        !.employee = job[p].employee,
                                        !.checkIn = t]
    <3>1. job[p].employee \in Employees /\ t \in Instants
      BY <1>1, <2>1, <2>4 DEF Instants
    <3>2. /\ row \in SessionRows /\ row.status = "checked_in"
          /\ row.employee = job[p].employee /\ row.checkIn = t
      <4>1. NoSession \in SessionRows
        BY DEF NoSession, SessionRows, Times
      <4> QED BY <3>1, <4>1 DEF SessionRows, Statuses, Times
    <3>3. session'[a] = row
      BY <2>2 DEF TypeOK
    <3> HIDE DEF row
    <3> QED BY <3>1, <3>2, <3>3
  <2>6. \A other \in Sessions \ {a} : session'[other] = session[other]
    BY <2>2 DEF TypeOK
  <2>7. session' \in [Sessions -> SessionRows]
    BY <2>2, <2>5, <2>6 DEF TypeOK
  <2>8. SessionsKept
    BY <2>2, <2>6, <2>7 DEF SessionsKept, Exists
  <2>9. BreaksKept /\ TimePasses
    BY <1>1, <2>3 DEF BreaksKept, TimePasses, TypeOK, Instants
  <2>10. RowsFaithful'
    BY <2>3, <2>4, <2>5, <2>6, <2>8 DEF RowsFaithful, Exists, SessionsKept, TypeOK, BreakRows
  <2> QED BY <1>3, <2>3, <2>8, <2>9, <2>10, IdleIsAJob, StepOfOne DEF Finish
<1>8. ASSUME CheckOutWrite(p) PROVE IInv'
  <2> DEFINE a == job[p].session
  <2>1. job[p] \in [op : {"checkOut"}, session : Sessions,
                    since : Instants, breakMinutes : Nat]
    BY <1>8, JobFields DEF CheckOutWrite
  <2>2. PICK t \in Stamps(p) :
          session' = [session EXCEPT
                        ![a].checkOut = t,
                        ![a].status = "checked_out",
                        ![a].workingMinutes =
                           MinutesBetween(session[a].checkIn, t) - job[p].breakMinutes,
                        ![a].breakMinutes = job[p].breakMinutes]
    BY <1>8 DEF CheckOutWrite
  <2>3. UNCHANGED <<now, shift, break>> /\ Finish(p)
    BY <1>8 DEF CheckOutWrite
  <2>4. a \in Sessions /\ Exists(a) /\ session[a] \in SessionRows
    BY <1>8, <2>1 DEF CheckOutWrite, JobFaithful, TypeOK
  <2>5. t \in Instants /\ MinutesBetween(session[a].checkIn, t) \in Nat
    <3>1. t \in Instants
      BY <1>1, <2>1 DEF Stamps, Instants
    <3>2. session[a].checkIn \in Int /\ t \in Int
      BY <2>4, <3>1 DEF SessionRows, Times, Instants, NoTime
    <3> QED BY <3>1, <3>2, MinutesAreNatural
  <2>6. /\ session' \in [Sessions -> SessionRows]
        /\ \A other \in Sessions \ {a} : session'[other] = session[other]
        /\ session'[a].status \in Statuses
        /\ session'[a].checkIn = session[a].checkIn
        /\ session'[a].employee = session[a].employee
    BY <2>1, <2>2, <2>4, <2>5 DEF TypeOK, SessionRows, Statuses, Times
  <2>7. SessionsKept /\ BreaksKept /\ NoNewRows
    BY <2>3, <2>4, <2>6, SessionOverwritten DEF NoNewRows, BreaksKept, TypeOK
  <2> QED BY <1>3, <1>4, <2>3, <2>7, IdleIsAJob DEF Finish
<1>9. ASSUME CorrectWrite(p) PROVE IInv'
  <2> DEFINE c == job[p].closing
             a == c.session
  <2>1. job[p] \in [op : {"correct"}, closing : Closings]
    BY <1>9, JobFields DEF CorrectWrite
  <2>2. /\ EndBreaks(c.breaks, c.at)
        /\ session' = [session EXCEPT
                         ![a].checkOut = c.at,
                         ![a].workingMinutes = c.workingMinutes,
                         ![a].breakMinutes = c.breakMinutes,
                         ![a].autoCheckedOut = FALSE]
        /\ UNCHANGED <<now, shift>> /\ Finish(p)
    BY <1>9 DEF CorrectWrite
  <2>3. c \in Closings /\ a \in Sessions /\ Exists(a) /\ c.at \in Instants
    BY <1>9, <2>1 DEF CorrectWrite, JobFaithful, InItsDay, Closings
  <2>4. BreaksKept /\ \A b \in Breaks : break'[b].session = break[b].session
    BY <2>2, <2>3, BreaksEnded
  <2>5. /\ session' \in [Sessions -> SessionRows]
        /\ \A other \in Sessions \ {a} : session'[other] = session[other]
        /\ session'[a].status \in Statuses
        /\ session'[a].checkIn = session[a].checkIn
        /\ session'[a].employee = session[a].employee
    BY <2>2, <2>3 DEF TypeOK, SessionRows, Closings, Statuses, Times, Exists
  <2>6. SessionsKept /\ NoNewRows
    BY <2>3, <2>4, <2>5, SessionOverwritten DEF NoNewRows
  <2> QED BY <1>3, <1>4, <2>2, <2>4, <2>6, IdleIsAJob DEF Finish
<1>10. ASSUME StartBreakFlip(p) PROVE IInv'
  <2> DEFINE a == job[p].session
             next == [op |-> "insertBreak", session |-> a, since |-> now]
  <2>1. a \in Sessions /\ Exists(a)
    BY <1>10, JobFields DEF StartBreakFlip, JobFaithful
  <2>2. /\ session' = [session EXCEPT ![a].status = "on_break"]
        /\ Proceed(p, next) /\ UNCHANGED <<now, shift, break>>
    BY <1>10 DEF StartBreakFlip
  <2>3. next \in Jobs
    BY <1>1, <2>1 DEF Jobs
  <2>4. /\ session' \in [Sessions -> SessionRows]
        /\ \A other \in Sessions \ {a} : session'[other] = session[other]
        /\ session'[a].status \in Statuses
        /\ session'[a].checkIn = session[a].checkIn
        /\ session'[a].employee = session[a].employee
    BY <2>1, <2>2 DEF TypeOK, SessionRows, Statuses
  <2>5. SessionsKept /\ BreaksKept /\ NoNewRows
    BY <2>1, <2>2, <2>4, SessionOverwritten DEF NoNewRows, BreaksKept, TypeOK
  <2>6. JobFaithful(p)'
    <3>1. job'[p] = next
      BY <1>2, <2>2, <2>3
    <3>2. session'[a].status \in Statuses
      BY <2>4
    <3> QED BY <3>1, <3>2 DEF JobFaithful, Exists
  <2> HIDE DEF next
  <2> QED BY <1>4, <2>2, <2>3, <2>5, <2>6
<1>11. ASSUME StartBreakInsert(p) PROVE IInv'
  <2>1. job[p] \in [op : {"insertBreak"}, session : Sessions, since : Instants]
    BY <1>11, JobFields DEF StartBreakInsert
  <2>2. PICK b \in Breaks, t \in Stamps(p) :
          /\ break[b].session = None
          /\ break' = [break EXCEPT ![b] = [session |-> job[p].session, start |-> t,
                                            end |-> NoTime, duration |-> 0]]
    BY <1>11 DEF StartBreakInsert
  <2>3. UNCHANGED <<now, shift, session>> /\ Finish(p)
    BY <1>11 DEF StartBreakInsert
  <2>4. t \in Instants /\ job[p].session \in Sessions /\ Exists(job[p].session)
    BY <1>1, <1>11, <2>1 DEF Stamps, Instants, StartBreakInsert, JobFaithful
  <2>5. break' \in [Breaks -> BreakRows]
    BY <2>2, <2>4 DEF TypeOK, BreakRows, Times
  <2>6. BreaksKept /\ SessionsKept /\ TimePasses
    BY <1>1, <2>2, <2>3, <2>5 DEF BreaksKept, SessionsKept, TimePasses, TypeOK, Exists, Instants
  <2>7. RowsFaithful'
    BY <2>2, <2>3, <2>4 DEF RowsFaithful, TypeOK, Exists
  <2> QED BY <1>3, <2>3, <2>6, <2>7, IdleIsAJob, StepOfOne DEF Finish
<1>12. ASSUME EndBreakWrite(p) PROVE IInv'
  <2> DEFINE b == job[p].break
             next == [op |-> "resume", session |-> break[b].session]
  <2>1. job[p] \in [op : {"endBreak"}, break : Breaks, since : Instants]
    BY <1>12, JobFields DEF EndBreakWrite
  <2>2. /\ \E t \in Stamps(p) : EndBreaks({b}, t)
        /\ Proceed(p, next) /\ UNCHANGED <<now, shift, session>>
    BY <1>12 DEF EndBreakWrite
  <2>3. \A t \in Stamps(p) : t \in Instants
    BY <1>1, <2>1 DEF Stamps, Instants
  <2>4. b \in Breaks /\ break[b].session # None
    BY <1>12, <2>1 DEF EndBreakWrite, JobFaithful
  <2>5. break[b].session \in Sessions /\ Exists(break[b].session)
    BY <2>4 DEF TypeOK, BreakRows, RowsFaithful
  <2>6. BreaksKept /\ \A x \in Breaks : break'[x].session = break[x].session
    BY <2>2, <2>3, BreaksEnded
  <2>7. SessionsKept /\ NoNewRows
    BY <2>2, <2>6 DEF SessionsKept, NoNewRows, TypeOK, Exists
  <2>8. next \in Jobs
    BY <2>5 DEF Jobs
  <2>9. JobFaithful(p)'
    <3>1. job'[p] = next
      BY <1>2, <2>2, <2>8
    <3> QED BY <2>2, <2>5, <3>1 DEF JobFaithful, Exists
  <2> HIDE DEF next
  <2> QED BY <1>4, <2>2, <2>6, <2>7, <2>8, <2>9
<1>13. ASSUME EndBreakFlip(p) PROVE IInv'
  <2> DEFINE a == job[p].session
  <2>1. a \in Sessions /\ Exists(a)
    BY <1>13, JobFields DEF EndBreakFlip, JobFaithful
  <2>2. /\ session' = [session EXCEPT ![a].status = "checked_in"]
        /\ Finish(p) /\ UNCHANGED <<now, shift, break>>
    BY <1>13 DEF EndBreakFlip
  <2>3. /\ session' \in [Sessions -> SessionRows]
        /\ \A other \in Sessions \ {a} : session'[other] = session[other]
        /\ session'[a].status \in Statuses
        /\ session'[a].checkIn = session[a].checkIn
        /\ session'[a].employee = session[a].employee
    BY <2>1, <2>2 DEF TypeOK, SessionRows, Statuses
  <2>4. SessionsKept /\ BreaksKept /\ NoNewRows
    BY <2>1, <2>2, <2>3, SessionOverwritten DEF NoNewRows, BreaksKept, TypeOK
  <2> QED BY <1>3, <1>4, <2>2, <2>4, IdleIsAJob DEF Finish
<1> QED BY <1>5, <1>6, <1>7, <1>8, <1>9, <1>10, <1>11, <1>12, <1>13 DEF Step

LEMMA NextPreserves == IInv /\ [Next]_vars => IInv'
<1> SUFFICES ASSUME IInv, [Next]_vars PROVE IInv'
  OBVIOUS
<1> USE DEF IInv, ReadsStayTrue
<1>1. ASSUME TimePasses, UNCHANGED <<session, break, job>>,
             shift' \in [Employees -> Shifts]
      PROVE  IInv'
  <2>1. SessionsKept /\ BreaksKept /\ NoNewRows
    BY <1>1 DEF SessionsKept, BreaksKept, NoNewRows, TypeOK, Exists
  <2>2. RowsFaithful'
    BY <1>1, <2>1, RowsStayFaithful
  <2>3. \A p \in Procs : JobFaithful(p)'
    BY <1>1, <2>1, JobStaysFaithful
  <2> QED BY <1>1, <2>2, <2>3 DEF TypeOK, TimePasses
<1>2. CASE Tick
  BY <1>1, <1>2 DEF Tick, TimePasses, TypeOK, Instants
<1>3. ASSUME NEW e \in Employees, ChangeShift(e) PROVE IInv'
  BY <1>1, <1>3 DEF ChangeShift, TimePasses, TypeOK, Instants
<1>4. ASSUME NEW p \in Procs, Fail(p) PROVE IInv'
  <2>1. job'[p] = Idle
    BY <1>4 DEF Fail, Finish, Proceed, TypeOK
  <2>2. JobFaithful(p)'
    BY <2>1, IdleIsAJob DEF JobFaithful
  <2> QED BY <1>4, <2>2, IdleIsAJob, ReadingStep DEF Fail, Finish
<1>5. CASE UNCHANGED vars
  BY <1>1, <1>5 DEF vars, TimePasses, TypeOK, Instants
<1> QED BY <1>2, <1>3, <1>4, <1>5, StartsPreserve, WritesPreserve DEF Next

LEMMA Inductive == Spec => []IInv
BY InitEstablishes, NextPreserves, PTL DEF Spec

\* Types hold in every reachable state, whatever the constants.
THEOREM TypeCorrect == Spec => []TypeOK
<1>1. IInv => TypeOK
  BY DEF IInv
<1> QED BY <1>1, Inductive, PTL

\* What a request has read and holds stays true until it writes.
THEOREM ReadsAreSound == Spec => []ReadsStayTrue
<1>1. IInv => ReadsStayTrue
  BY DEF IInv
<1> QED BY <1>1, Inductive, PTL

-----------------------------------------------------------------------------
(* A sweep keeps to the day of the session *)

KeepsToTheDay(a) ==
  ~session[a].autoCheckedOut /\ session'[a].autoCheckedOut
    => /\ IsOpen(a)
       /\ session'[a].status = "checked_out"
       /\ session'[a].checkIn < session'[a].checkOut
       /\ session'[a].checkOut <= NextMidnight(session'[a].checkIn)
       /\ NextMidnight(session'[a].checkIn) <= now

LEMMA AutoClosingKeepsToTheDay ==
  ASSUME TypeOK, NEW c \in Closings, InItsDay(c), ApplyAutoClosing(c),
         NextMidnight(session[c.session].checkIn) <= now, NEW a \in Sessions
  PROVE  KeepsToTheDay(a)
<1>1. CASE IsOpen(c.session)
  <2>1. session' = [session EXCEPT
                      ![c.session].checkOut = c.at,
                      ![c.session].status = "checked_out",
                      ![c.session].autoCheckedOut = TRUE,
                      ![c.session].workingMinutes = c.workingMinutes,
                      ![c.session].breakMinutes = c.breakMinutes]
    BY <1>1 DEF ApplyAutoClosing
  <2>2. CASE a = c.session
    <3>1. /\ session'[a].status = "checked_out"
          /\ session'[a].checkIn = session[a].checkIn
          /\ session'[a].checkOut = c.at
      BY <2>1, <2>2 DEF TypeOK, SessionRows
    <3> QED BY <1>1, <2>2, <3>1 DEF KeepsToTheDay, InItsDay
  <2>3. CASE a # c.session
    BY <2>1, <2>3 DEF TypeOK, KeepsToTheDay
  <2> QED BY <2>2, <2>3
<1>2. CASE ~IsOpen(c.session)
  BY <1>2 DEF ApplyAutoClosing, KeepsToTheDay
<1> QED BY <1>1, <1>2

LEMMA FlagKept ==
  ASSUME NEW a \in Sessions,
         session'[a].autoCheckedOut => session[a].autoCheckedOut
  PROVE  KeepsToTheDay(a)
BY DEF KeepsToTheDay

LEMMA StepKeepsToTheDay ==
  ASSUME IInv, [Next]_vars, NEW a \in Sessions
  PROVE  KeepsToTheDay(a)
<1> USE DEF IInv, ReadsStayTrue
<1>1. CASE UNCHANGED session
  BY <1>1, FlagKept
<1>2. ASSUME NEW p \in Procs, CloseStale(p) \/ CheckInCloseStale(p)
      PROVE  KeepsToTheDay(a)
  <2>1. job[p].op \in {"sweep", "checkIn"} /\ \E c \in job[p].todo : ApplyAutoClosing(c)
    BY <1>2 DEF CloseStale, CheckInCloseStale
  <2>2. PICK c \in job[p].todo : ApplyAutoClosing(c)
    BY <2>1
  <2>3. c \in Closings
    BY <2>1, JobFields
  <2>4. InItsDay(c) /\ NextMidnight(session[c.session].checkIn) <= now
    BY <2>1 DEF JobFaithful
  <2> QED BY <2>2, <2>3, <2>4, AutoClosingKeepsToTheDay
<1>3. ASSUME NEW p \in Procs, CheckInCreate(p) PROVE KeepsToTheDay(a)
  BY <1>3, FlagKept DEF CheckInCreate, TypeOK, NoSession
<1>4. ASSUME NEW p \in Procs, CheckOutWrite(p) PROVE KeepsToTheDay(a)
  BY <1>4, FlagKept DEF CheckOutWrite, TypeOK, SessionRows
<1>5. ASSUME NEW p \in Procs, CorrectWrite(p) PROVE KeepsToTheDay(a)
  BY <1>5, FlagKept DEF CorrectWrite, TypeOK, SessionRows
<1>6. ASSUME NEW p \in Procs, StartBreakFlip(p) PROVE KeepsToTheDay(a)
  BY <1>6, FlagKept DEF StartBreakFlip, TypeOK, SessionRows
<1>7. ASSUME NEW p \in Procs, EndBreakFlip(p) PROVE KeepsToTheDay(a)
  BY <1>7, FlagKept DEF EndBreakFlip, TypeOK, SessionRows
<1>8. ASSUME NEW p \in Procs, Step(p) PROVE KeepsToTheDay(a)
  <2>1. CASE StartBreakInsert(p) \/ EndBreakWrite(p)
    BY <1>1, <2>1 DEF StartBreakInsert, EndBreakWrite
  <2> QED BY <1>2, <1>3, <1>4, <1>5, <1>6, <1>7, <1>8, <2>1 DEF Step
<1>9. CASE UNCHANGED vars
  BY <1>1, <1>9 DEF vars
<1>10. CASE Next /\ ~\E p \in Procs : Step(p)
  BY <1>1, <1>10
  DEF Next, Tick, ChangeShift, Fail, Sweep, CheckIn, GetStatus, CheckOut, StartBreak,
      EndBreak, CorrectCheckOut
<1> QED BY <1>8, <1>9, <1>10

\* Whatever runs at the same time, a sweep closes open sessions of past days
\* only, within their own day.
THEOREM SweepIsSound == Spec => SweepKeepsToTheDay
<1>1. IInv /\ [Next]_vars => [\A a \in Sessions : KeepsToTheDay(a)]_vars
  BY StepKeepsToTheDay
<1>2. (\A a \in Sessions : KeepsToTheDay(a)) <=>
      \A a \in Sessions :
        ~session[a].autoCheckedOut /\ session'[a].autoCheckedOut
          => /\ IsOpen(a)
             /\ session'[a].status = "checked_out"
             /\ session'[a].checkIn < session'[a].checkOut
             /\ session'[a].checkOut <= NextMidnight(session'[a].checkIn)
             /\ NextMidnight(session'[a].checkIn) <= now
  BY DEF KeepsToTheDay
<1> QED BY <1>1, <1>2, Inductive, PTL DEF Spec, SweepKeepsToTheDay

-----------------------------------------------------------------------------
(* The database calls implement the lifecycle *)

\* The lifecycle's copy of the clock is the service's.
LEMMA SameClock ==
  /\ Racing!NoTime = NoTime
  /\ \A t : Racing!NextMidnight(t) = NextMidnight(t)
BY DEF Racing!NoTime, NoTime, Racing!NextMidnight, NextMidnight, Racing!StartOfDay,
       StartOfDay, Racing!DayTicks, DayTicks

LEMMA PhaseOfStatus ==
  /\ Phase("none") = "none" /\ Phase("checked_out") = "closed"
  /\ Phase("checked_in") = "open" /\ Phase("on_break") = "open"
BY DEF Phase

\* A row that changes alone is an entry that is set.
LEMMA OneEntryChanges ==
  ASSUME NEW a \in Sessions, UNCHANGED now,
         \A other \in Sessions \ {a} : session'[other] = session[other]
  PROVE  Racing!Set(a, Phase(session'[a].status), session'[a].checkIn,
                    session'[a].checkOut, session'[a].autoCheckedOut)
BY DEF Entry, Racing!Set

LEMMA EntryStays ==
  UNCHANGED <<now, session>> => UNCHANGED Racing!vars
BY DEF Entry, Racing!vars

\* The entry of a row, and the phases the lifecycle tells apart.
LEMMA EntryFields ==
  ASSUME NEW a \in Sessions
  PROVE  /\ Entry[a].phase = Phase(session[a].status)
         /\ Entry[a].in = session[a].checkIn
         /\ Entry[a].out = session[a].checkOut
         /\ Entry[a].auto = session[a].autoCheckedOut
BY DEF Entry

LEMMA PhaseOfSession ==
  ASSUME NEW a \in Sessions
  PROVE  /\ Exists(a) => Entry[a].phase # "none"
         /\ IsOpen(a) => Entry[a].phase = "open"
         /\ TypeOK /\ ~Exists(a) => Entry[a].phase = "none"
<1>1. Exists(a) => session[a].status \in {"checked_in", "on_break", "checked_out"}
  BY DEF Exists, Statuses
<1>2. IsOpen(a) => session[a].status \in {"checked_in", "on_break"}
  BY DEF IsOpen, OpenStatuses
<1>3. TypeOK /\ ~Exists(a) => session[a].status = "none"
  BY DEF TypeOK, SessionRows, Exists
<1> QED BY <1>1, <1>2, <1>3, EntryFields, PhaseOfStatus

LEMMA DayOfClosing ==
  ASSUME TypeOK, NEW c \in Closings, InItsDay(c)
  PROVE  c.at \in Racing!RestOfDay(c.session)
<1>1. c.session \in Sessions /\ c.at \in Nat
  BY DEF Closings, Instants
<1>2. session[c.session].checkIn \in Int
  BY <1>1 DEF TypeOK, SessionRows, Times, Instants, NoTime
<1>3. NextMidnight(session[c.session].checkIn) \in Int
  BY <1>2, DayTicksPositive DEF NextMidnight, StartOfDay
<1> QED BY <1>1, <1>2, <1>3, EntryFields, SameClock DEF InItsDay, Racing!RestOfDay

LEMMA AutoClosingImplements ==
  ASSUME TypeOK, NEW c \in Closings, InItsDay(c), ApplyAutoClosing(c),
         NextMidnight(session[c.session].checkIn) <= now, UNCHANGED now
  PROVE  \/ c.session \in Sessions /\ Racing!AutoCheckOut(c.session)
         \/ UNCHANGED Racing!vars
<1> DEFINE a == c.session
<1>1. CASE IsOpen(a)
  <2>1. a \in Sessions /\ c.at \in Nat /\ session[a] \in SessionRows
    BY DEF Closings, Instants, TypeOK
  <2>2. /\ session'[a].status = "checked_out"
        /\ session'[a].checkIn = session[a].checkIn
        /\ session'[a].checkOut = c.at
        /\ session'[a].autoCheckedOut = TRUE
        /\ \A other \in Sessions \ {a} : session'[other] = session[other]
    BY <1>1, <2>1 DEF ApplyAutoClosing, TypeOK, SessionRows
  <2>3. Racing!Set(a, "closed", Entry[a].in, c.at, TRUE)
    BY <2>1, <2>2, EntryFields, OneEntryChanges, PhaseOfStatus
  <2>4. Racing!NextMidnight(Entry[a].in) <= now
    BY <2>1, EntryFields, SameClock
  <2>5. Racing!AutoCheckOut(a)
    BY <1>1, <2>1, <2>3, <2>4, PhaseOfSession, DayOfClosing DEF Racing!AutoCheckOut
  <2> QED BY <2>1, <2>5
<1>2. CASE ~IsOpen(a)
  BY <1>2, EntryStays DEF ApplyAutoClosing
<1> QED BY <1>1, <1>2

LEMMA InitImplements == Init => Racing!Init
<1> SUFFICES ASSUME Init PROVE Racing!Init
  OBVIOUS
<1>1. ASSUME NEW a \in Sessions
      PROVE  /\ session[a].status = "none" /\ session[a].checkIn = NoTime
             /\ session[a].checkOut = NoTime /\ session[a].autoCheckedOut = FALSE
  BY DEF Init, NoSession
<1>2. Entry = [a \in Sessions |-> Racing!Absent]
  BY <1>1, SameClock, PhaseOfStatus DEF Entry, Racing!Absent
<1> QED BY <1>2 DEF Init, Racing!Init

\* Which operation of the lifecycle a write is.
Implements(p) ==
  \/ UNCHANGED Racing!vars
  \/ \E a \in Sessions :
       \/ Racing!CheckIn(a) \/ Racing!AutoCheckOut(a)
       \/ CheckOutWrite(p) /\ a = job[p].session /\ Racing!CheckOut(a)
       \/ CorrectWrite(p) /\ a = job[p].closing.session /\ Racing!Correct(a)
       \/ /\ StartBreakFlip(p) \/ EndBreakFlip(p)
          /\ a = job[p].session /\ Racing!Resume(a)

LEMMA WritesImplement ==
  ASSUME IInv, NEW p \in Procs, Step(p)
  PROVE  Implements(p)
<1> USE DEF IInv, ReadsStayTrue
<1>1. CASE CloseStale(p) \/ CheckInCloseStale(p)
  <2>1. job[p].op \in {"sweep", "checkIn"} /\ \E c \in job[p].todo : ApplyAutoClosing(c)
    BY <1>1 DEF CloseStale, CheckInCloseStale
  <2>2. PICK c \in job[p].todo : ApplyAutoClosing(c)
    BY <2>1
  <2>3. c \in Closings
    BY <2>1, JobFields
  <2>4. InItsDay(c) /\ NextMidnight(session[c.session].checkIn) <= now
    BY <2>1 DEF JobFaithful
  <2>5. UNCHANGED now
    BY <1>1 DEF CloseStale, CheckInCloseStale
  <2> QED BY <2>2, <2>3, <2>4, <2>5, AutoClosingImplements DEF Implements
<1>2. CASE CheckInCreate(p)
  <2>1. job[p] \in [op : {"checkIn"}, employee : Employees,
                    todo : SUBSET Closings, since : Instants]
    BY <1>2, JobFields DEF CheckInCreate
  <2>2. PICK a \in Sessions, t \in Stamps(p) :
          /\ ~Exists(a)
          /\ session' = [session EXCEPT
                           ![a] = [NoSession EXCEPT !.status = "checked_in",
                                                    !.employee = job[p].employee,
                                                    !.checkIn = t]]
    BY <1>2 DEF CheckInCreate
  <2>3. t \in 0 .. now /\ UNCHANGED now
    BY <1>2, <2>1 DEF Stamps, Instants, TypeOK, CheckInCreate
  <2>4. session'[a] = [NoSession EXCEPT !.status = "checked_in",
                                        !.employee = job[p].employee,
                                        !.checkIn = t]
    BY <2>2 DEF TypeOK
  <2>5. \A other \in Sessions \ {a} : session'[other] = session[other]
    BY <2>2 DEF TypeOK
  <2>6. Racing!Set(a, "open", t, Racing!NoTime, FALSE)
    <3>1. /\ session'[a].status = "checked_in" /\ session'[a].checkIn = t
          /\ session'[a].checkOut = NoTime /\ session'[a].autoCheckedOut = FALSE
      BY <2>4 DEF NoSession
    <3> QED BY <2>3, <2>5, <3>1, SameClock, OneEntryChanges, PhaseOfStatus
  <2>7. Entry[a].phase = "none"
    BY <2>2, PhaseOfSession
  <2>8. Racing!CheckIn(a)
    BY <2>3, <2>6, <2>7 DEF Racing!CheckIn
  <2> QED BY <2>8 DEF Implements
<1>3. CASE CheckOutWrite(p)
  <2> DEFINE a == job[p].session
  <2>1. job[p] \in [op : {"checkOut"}, session : Sessions,
                    since : Instants, breakMinutes : Nat]
    BY <1>3, JobFields DEF CheckOutWrite
  <2>2. PICK t \in Stamps(p) :
          session' = [session EXCEPT
                        ![a].checkOut = t,
                        ![a].status = "checked_out",
                        ![a].workingMinutes =
                           MinutesBetween(session[a].checkIn, t) - job[p].breakMinutes,
                        ![a].breakMinutes = job[p].breakMinutes]
    BY <1>3 DEF CheckOutWrite
  <2>3. a \in Sessions /\ Exists(a) /\ session[a].checkIn <= job[p].since
    BY <1>3, <2>1 DEF CheckOutWrite, JobFaithful
  <2>4. /\ session'[a].status = "checked_out"
        /\ session'[a].checkIn = session[a].checkIn
        /\ session'[a].checkOut = t
        /\ session'[a].autoCheckedOut = session[a].autoCheckedOut
        /\ \A other \in Sessions \ {a} : session'[other] = session[other]
    BY <2>2, <2>3 DEF TypeOK, SessionRows
  <2>5. UNCHANGED now
    BY <1>3 DEF CheckOutWrite
  <2>6. t \in Entry[a].in .. now
    BY <2>1, <2>3, EntryFields DEF Stamps, RowsFaithful, TypeOK, Instants
  <2>7. Racing!Set(a, "closed", Entry[a].in, t, Entry[a].auto)
    BY <2>3, <2>4, <2>5, EntryFields, OneEntryChanges, PhaseOfStatus
  <2>8. Racing!CheckOut(a)
    BY <2>3, <2>6, <2>7, PhaseOfSession DEF Racing!CheckOut, Racing!Expects
  <2> QED BY <1>3, <2>3, <2>8 DEF Implements
<1>4. CASE CorrectWrite(p)
  <2> DEFINE c == job[p].closing
             a == c.session
  <2>1. job[p] \in [op : {"correct"}, closing : Closings]
    BY <1>4, JobFields DEF CorrectWrite
  <2>2. c \in Closings /\ a \in Sessions /\ InItsDay(c) /\ c.at \in Nat
    BY <1>4, <2>1 DEF CorrectWrite, JobFaithful, Closings, Instants
  <2>3. /\ session'[a].status = session[a].status
        /\ session'[a].checkIn = session[a].checkIn
        /\ session'[a].checkOut = c.at
        /\ session'[a].autoCheckedOut = FALSE
        /\ \A other \in Sessions \ {a} : session'[other] = session[other]
    BY <1>4, <2>2 DEF CorrectWrite, TypeOK, SessionRows
  <2>4. UNCHANGED now
    BY <1>4 DEF CorrectWrite
  <2>5. Racing!Set(a, Entry[a].phase, Entry[a].in, c.at, FALSE)
    BY <2>2, <2>3, <2>4, EntryFields, OneEntryChanges
  <2>6. Entry[a].phase # "none"
    BY <2>2, PhaseOfSession DEF InItsDay
  <2>7. Racing!Correct(a)
    BY <2>2, <2>5, <2>6, DayOfClosing DEF Racing!Correct, Racing!Expects
  <2> QED BY <1>4, <2>2, <2>7 DEF Implements
<1>5. CASE StartBreakFlip(p) \/ EndBreakFlip(p)
  <2> DEFINE a == job[p].session
  <2>1. a \in Sessions /\ Exists(a) /\ UNCHANGED now
    BY <1>5, JobFields DEF StartBreakFlip, EndBreakFlip, JobFaithful
  <2>2. /\ session'[a].status \in {"on_break", "checked_in"}
        /\ session'[a].checkIn = session[a].checkIn
        /\ session'[a].checkOut = session[a].checkOut
        /\ session'[a].autoCheckedOut = session[a].autoCheckedOut
        /\ \A other \in Sessions \ {a} : session'[other] = session[other]
    BY <1>5, <2>1 DEF StartBreakFlip, EndBreakFlip, TypeOK, SessionRows
  <2>3. Racing!Set(a, "open", Entry[a].in, Entry[a].out, Entry[a].auto)
    BY <2>1, <2>2, EntryFields, OneEntryChanges, PhaseOfStatus
  <2>4. Racing!Resume(a)
    BY <2>1, <2>3, PhaseOfSession DEF Racing!Resume, Racing!Expects
  <2> QED BY <1>5, <2>1, <2>4 DEF Implements
<1>6. CASE StartBreakInsert(p) \/ EndBreakWrite(p)
  BY <1>6, EntryStays DEF StartBreakInsert, EndBreakWrite, Implements
<1> QED BY <1>1, <1>2, <1>3, <1>4, <1>5, <1>6 DEF Step

LEMMA NextImplements ==
  ASSUME IInv, [Next]_vars
  PROVE  [Racing!Next]_(Racing!vars)
<1>1. CASE Tick
  BY <1>1 DEF Tick, Racing!Next, Racing!Tick, Entry
<1>2. ASSUME NEW p \in Procs, Step(p) PROVE [Racing!Next]_(Racing!vars)
  BY <1>2, WritesImplement DEF Implements, Racing!Next
<1>3. CASE UNCHANGED vars
  BY <1>3, EntryStays DEF vars
<1>4. CASE Next /\ ~Tick /\ ~\E p \in Procs : Step(p)
  BY <1>4, EntryStays
  DEF Next, ChangeShift, Fail, Sweep, CheckIn, GetStatus, CheckOut, StartBreak,
      EndBreak, CorrectCheckOut
<1> QED BY <1>1, <1>2, <1>3, <1>4

\* The requests and sweeps, call by call, implement the lifecycle of a session:
\* whatever overlaps and whatever fails half-way.
THEOREM ImplementsLifecycle == Spec => RacingContract
<1>1. IInv /\ [Next]_vars => [Racing!Next]_(Racing!vars)
  BY NextImplements
<1> QED BY <1>1, InitImplements, Inductive, PTL DEF Spec, RacingContract, Racing!Spec

-----------------------------------------------------------------------------
(* When requests run one after the other and none fails.                   *)
(*                                                                         *)
(* There is one slot, p.  Between two calls of its job the session the     *)
(* job is changing is out of step with its breaks: `Held` tells which.     *)
(* Every other session is settled, and what the job has read is what the   *)
(* tables still hold.                                                      *)

OneAtATime(p) == Procs = {p} /\ Fallible = {}

Held(p, a) == job[p].op \in {"insertBreak", "resume"} /\ job[p].session = a

\* The breaks taken so far fit between the check-in and t.
Fits(a, t) == session[a].checkIn + BreakMinutesOf(a) * MinuteTicks <= t

BreaksWhole ==
  \A b \in Breaks :
    break[b].session # None =>
      /\ break[b].start <= now
      /\ break[b].duration = IF break[b].end = NoTime THEN 0
                             ELSE MinutesBetween(break[b].start, break[b].end)

Sound(a) ==
  /\ \A b, c \in OpenBreaksOf(a) : b = c
  /\ \A b \in OpenBreaksOf(a) : Fits(a, break[b].start)
  /\ session[a].autoCheckedOut =>
       /\ IsClosed(a)
       /\ OpenBreaksOf(a) = {}
       /\ session[a].checkOut <= NextMidnight(session[a].checkIn)

Settled(a) ==
  /\ session[a].status = "checked_in" => OpenBreaksOf(a) = {} /\ Fits(a, now)
  /\ session[a].status = "on_break" => OpenBreaksOf(a) # {}
  /\ IsClosed(a) =>
       /\ session[a].breakMinutes = BreakMinutesOf(a)
       /\ session[a].workingMinutes =
            NetMinutes(session[a].checkIn, session[a].checkOut, session[a].breakMinutes)

\* The closing ends breaks of its session, all the open ones among them, and
\* its minutes are those the session's breaks will have.
Exact(c) ==
  /\ OpenBreaksOf(c.session) \subseteq c.breaks
  /\ c.breaks \subseteq BreaksOf(c.session)
  /\ c.breakMinutes =
       SumFunction([b \in BreaksOf(c.session) |->
                      IF b \in c.breaks THEN MinutesBetween(break[b].start, c.at)
                      ELSE break[b].duration])
  /\ c.workingMinutes =
       NetMinutes(session[c.session].checkIn, c.at, c.breakMinutes)

\* What a sweep has found of an open session, which it closes with its open breaks.
Sweepable(c) ==
  IsOpen(c.session) /\ Exact(c) /\ c.breaks \subseteq OpenBreaksOf(c.session)

Fresh(p) ==
  LET j == job[p]
      a == j.session
  IN  /\ j.op \in {"sweep", "checkIn"} =>
           /\ \A c \in j.todo : Sweepable(c)
           /\ \A c, d \in j.todo : c.session = d.session => c = d
      /\ j.op = "correct" => IsClosed(j.closing.session) /\ Exact(j.closing)
      /\ j.op = "checkOut" => /\ IsOpen(a)
                              /\ j.breakMinutes = BreakMinutesOf(a)
                              /\ Fits(a, j.since)
      /\ j.op = "startBreak" => session[a].status = "checked_in"
      /\ j.op = "insertBreak" => /\ session[a].status = "on_break"
                                 /\ OpenBreaksOf(a) = {}
                                 /\ Fits(a, j.since)
      /\ j.op = "endBreak" => /\ break[j.break].end = NoTime
                              /\ break[j.break].start <= j.since
      /\ j.op = "resume" => /\ session[a].status \in {"on_break", "checked_out"}
                            /\ OpenBreaksOf(a) = {}
                            /\ ~session[a].autoCheckedOut
                            /\ Fits(a, now)

SerialInv(p) ==
  /\ IInv
  /\ BreaksWhole
  /\ \A a \in Sessions : Sound(a) /\ (Held(p, a) \/ Settled(a))
  /\ Fresh(p)

LEMMA SerialTypes ==
  ASSUME TypeOK, NEW a \in Sessions
  PROVE  /\ session[a] \in SessionRows
         /\ session[a].checkIn \in Int /\ session[a].checkOut \in Int
         /\ BreakMinutesOf(a) \in Nat /\ BreakMinutesOf(a) * MinuteTicks \in Nat
         /\ now \in Nat
         /\ \A b \in Breaks : /\ break[b] \in BreakRows
                              /\ break[b].start \in Int /\ break[b].end \in Int
                              /\ break[b].duration \in Nat
<1>1. session[a] \in SessionRows /\ now \in Nat /\ \A b \in Breaks : break[b] \in BreakRows
  BY DEF TypeOK, Instants
<1>2. BreakMinutesOf(a) \in Nat /\ BreakMinutesOf(a) * MinuteTicks \in Nat
  BY BreakMinutesType, ClockAssumption
<1> QED BY <1>1, <1>2 DEF SessionRows, BreakRows, Times, Instants, NoTime

\* Any number of breaks are ended at once: what the queries see of their session.
LEMMA ViewsOfEndedBreaks ==
  ASSUME TypeOK, NEW a \in Sessions, NEW ids \in SUBSET BreaksOf(a),
         NEW at \in Instants, EndBreaks(ids, at)
  PROVE  /\ BreaksOf(a)' = BreaksOf(a)
         /\ OpenBreaksOf(a)' = OpenBreaksOf(a) \ ids
         /\ BreakMinutesOf(a)' =
              SumFunction([b \in BreaksOf(a) |->
                             IF b \in ids THEN MinutesBetween(break[b].start, at)
                             ELSE break[b].duration])
<1>1. \A b \in Breaks : break'[b] = IF b \in ids
                                    THEN [break[b] EXCEPT
                                            !.end = at,
                                            !.duration = MinutesBetween(break[b].start, at)]
                                    ELSE break[b]
  BY DEF EndBreaks
<1>2. ASSUME NEW b \in Breaks
      PROVE  /\ break'[b].session = break[b].session
             /\ break'[b].end = IF b \in ids THEN at ELSE break[b].end
             /\ break'[b].duration = IF b \in ids THEN MinutesBetween(break[b].start, at)
                                     ELSE break[b].duration
  BY <1>1 DEF TypeOK, BreakRows
<1>3. BreaksOf(a)' = BreaksOf(a)
  BY <1>2 DEF BreaksOf
<1>4. at # NoTime
  BY DEF Instants, NoTime
<1>5. OpenBreaksOf(a)' = OpenBreaksOf(a) \ ids
  BY <1>2, <1>3, <1>4 DEF OpenBreaksOf, BreaksOf
<1> DEFINE f == [b \in BreaksOf(a) |-> IF b \in ids THEN MinutesBetween(break[b].start, at)
                                       ELSE break[b].duration]
           g == [b \in BreaksOf(a)' |-> break'[b].duration]
<1>6. f = g
  BY <1>2, <1>3 DEF BreaksOf
<1>7. BreakMinutesOf(a)' = SumFunction(g)
  BY DEF BreakMinutesOf
<1> HIDE DEF f, g
<1>8. BreakMinutesOf(a)' = SumFunction(f)
  BY <1>6, <1>7
<1> QED BY <1>3, <1>5, <1>8 DEF f

LEMMA EndedBreaksWhole ==
  ASSUME TypeOK, BreaksWhole, NEW ids, NEW at \in Instants, EndBreaks(ids, at), UNCHANGED now
  PROVE  BreaksWhole'
<1> SUFFICES ASSUME NEW b \in Breaks, break'[b].session # None
             PROVE  /\ break'[b].start <= now
                    /\ break'[b].duration = IF break'[b].end = NoTime THEN 0
                                            ELSE MinutesBetween(break'[b].start, break'[b].end)
  BY DEF BreaksWhole
<1>1. break[b] \in BreakRows
  BY DEF TypeOK
<1>2. CASE b \notin ids
  BY <1>2 DEF EndBreaks, BreaksWhole
<1>3. CASE b \in ids
  <2>1. /\ break'[b].session = break[b].session /\ break'[b].start = break[b].start
        /\ break'[b].end = at
        /\ break'[b].duration = MinutesBetween(break[b].start, at)
    BY <1>1, <1>3 DEF EndBreaks, BreakRows
  <2>2. at # NoTime
    BY DEF Instants, NoTime
  <2> QED BY <2>1, <2>2 DEF BreaksWhole
<1> QED BY <1>2, <1>3

-----------------------------------------------------------------------------
(* What a step does not touch *)

Untouched(a) ==
  /\ session'[a] = session[a]
  /\ \A b \in Breaks : break'[b].session = a <=> break[b].session = a
  /\ \A b \in BreaksOf(a) : break'[b] = break[b]

LEMMA UntouchedViews ==
  ASSUME NEW a \in Sessions, Untouched(a)
  PROVE  /\ BreaksOf(a)' = BreaksOf(a)
         /\ OpenBreaksOf(a)' = OpenBreaksOf(a)
         /\ BreakMinutesOf(a)' = BreakMinutesOf(a)
         /\ \A t : Fits(a, t)' <=> Fits(a, t)
<1>1. BreaksOf(a)' = BreaksOf(a)
  BY DEF BreaksOf, Untouched
<1>2. OpenBreaksOf(a)' = OpenBreaksOf(a)
  BY <1>1 DEF OpenBreaksOf, Untouched
<1> DEFINE f == [b \in BreaksOf(a) |-> break[b].duration]
           g == [b \in BreaksOf(a)' |-> break'[b].duration]
<1>3. f = g
  BY <1>1 DEF Untouched
<1>4. BreakMinutesOf(a) = SumFunction(f) /\ BreakMinutesOf(a)' = SumFunction(g)
  BY DEF BreakMinutesOf
<1> HIDE DEF f, g
<1>5. BreakMinutesOf(a)' = BreakMinutesOf(a)
  BY <1>3, <1>4
<1>6. \A t : Fits(a, t)' <=> Fits(a, t)
  BY <1>5 DEF Fits, Untouched
<1> QED BY <1>1, <1>2, <1>5, <1>6

LEMMA UntouchedClosings ==
  ASSUME NEW a \in Sessions, Untouched(a), NEW c, c.session = a, Exact(c)
  PROVE  Exact(c)'
<1>1. BreaksOf(a)' = BreaksOf(a) /\ OpenBreaksOf(a)' = OpenBreaksOf(a)
  BY UntouchedViews
<1> DEFINE f == [b \in BreaksOf(a) |->
                   IF b \in c.breaks THEN MinutesBetween(break[b].start, c.at)
                   ELSE break[b].duration]
           g == [b \in BreaksOf(a)' |->
                   IF b \in c.breaks THEN MinutesBetween(break'[b].start, c.at)
                   ELSE break'[b].duration]
<1>2. f = g
  BY <1>1 DEF Untouched
<1>3. c.breakMinutes = SumFunction(f)
  BY DEF Exact
<1>4. c.breakMinutes = SumFunction(g)
  <2> HIDE DEF f, g
  <2> QED BY <1>2, <1>3
<1>5. c.workingMinutes = NetMinutes(session'[a].checkIn, c.at, c.breakMinutes)
  BY DEF Exact, Untouched
<1> QED BY <1>1, <1>4, <1>5 DEF Exact

LEMMA UntouchedStays ==
  ASSUME TypeOK, TypeOK', NEW a \in Sessions, Untouched(a), now <= now'
  PROVE  /\ Sound(a) => Sound(a)'
         /\ Settled(a) => Settled(a)'
         /\ Fits(a, now) => Fits(a, now)'
<1>1. /\ OpenBreaksOf(a)' = OpenBreaksOf(a)
      /\ BreakMinutesOf(a)' = BreakMinutesOf(a)
      /\ \A t : Fits(a, t)' <=> Fits(a, t)
      /\ session'[a] = session[a]
      /\ \A b \in OpenBreaksOf(a) : break'[b].start = break[b].start
  BY UntouchedViews DEF Untouched, OpenBreaksOf
<1>2. Fits(a, now) => Fits(a, now)'
  BY <1>1, SerialTypes DEF Fits, TypeOK, Instants
<1>3. Sound(a) => Sound(a)'
  BY <1>1 DEF Sound, IsClosed, Fits
<1>4. Settled(a) => Settled(a)'
  BY <1>1, <1>2 DEF Settled, IsClosed
<1> QED BY <1>2, <1>3, <1>4

-----------------------------------------------------------------------------
(* Minutes *)

LEMMA WholeMinutesFit ==
  ASSUME NEW d \in Nat \ {0}, NEW m \in Nat, NEW n \in Nat, m * d <= n
  PROVE  m <= n \div d
<1> DEFINE q == n \div d
<1>1. q \in Nat /\ n < q * d + d
  BY DivisionBounds
<1> SUFFICES ASSUME m > q PROVE FALSE
  BY <1>1
<1>2. q + 1 <= m
  BY <1>1
<1> HIDE DEF q
<1>3. \A k \in Nat : (q + 1 + k) * d >= (q + 1) * d
  BY <1>1
<1>4. PICK k \in Nat : m = q + 1 + k
  <2>1. m - (q + 1) \in Nat /\ m = q + 1 + (m - (q + 1))
    BY <1>1, <1>2
  <2> QED BY <2>1
<1>5. m * d >= (q + 1) * d
  BY <1>3, <1>4
<1>6. (q + 1) * d = q * d + d
  BY <1>1
<1>7. m * d \in Nat /\ q * d \in Nat
  BY <1>1
<1> QED BY <1>1, <1>5, <1>6, <1>7

\* Breaks that fit leave minutes to work.
LEMMA NetOfFitting ==
  ASSUME NEW m \in Nat, NEW from \in Int, NEW to \in Int, from + m * MinuteTicks <= to
  PROVE  MinutesBetween(from, to) - m = NetMinutes(from, to, m)
<1>1. MinutesBetween(from, to) \in Nat /\ m * MinuteTicks \in Nat
  BY MinutesAreNatural, ClockAssumption
<1>2. m <= MinutesBetween(from, to)
  <2>1. CASE to <= from
    <3>1. m * MinuteTicks = 0
      BY <1>1, <2>1
    <3>2. m = 0
      BY <3>1, ClockAssumption
    <3> QED BY <1>1, <3>2
  <2>2. CASE to > from
    <3>1. to - from \in Nat /\ m * MinuteTicks <= to - from
      BY <1>1, <2>2
    <3>2. m <= (to - from) \div MinuteTicks
      BY <3>1, ClockAssumption, WholeMinutesFit
    <3> QED BY <2>2, <3>2 DEF MinutesBetween
  <2> QED BY <2>1, <2>2
<1>3. \A n \in Nat : Max({0, n}) = n
  BY DEF Max
<1>4. MinutesBetween(from, to) - m \in Nat
  BY <1>1, <1>2
<1> QED BY <1>3, <1>4 DEF NetMinutes

\* One more break, between t and u.
LEMMA OneMoreFits ==
  ASSUME NEW from \in Int, NEW t \in Int, NEW u \in Int, NEW m \in Nat,
         from + m * MinuteTicks <= t, t <= u
  PROVE  from + (m + MinutesBetween(t, u)) * MinuteTicks <= u
<1> DEFINE n == MinutesBetween(t, u)
<1>1. n \in Nat /\ m * MinuteTicks \in Nat /\ n * MinuteTicks \in Nat
  BY MinutesAreNatural, ClockAssumption
<1>2. n * MinuteTicks <= u - t
  <2>1. CASE u <= t
    BY <2>1, ClockAssumption DEF MinutesBetween
  <2>2. CASE u > t
    <3>1. u - t \in Nat
      BY <2>2
    <3> QED BY <2>2, <3>1, ClockAssumption, DivisionBounds DEF MinutesBetween
  <2> QED BY <2>1, <2>2
<1>3. (m + n) * MinuteTicks = m * MinuteTicks + n * MinuteTicks
  BY <1>1, ClockAssumption
<1> HIDE DEF n
<1> QED BY <1>1, <1>2, <1>3 DEF n

\* A session and its breaks, closed as a sweep or a correction worked it out.
LEMMA ExactlyClosed ==
  ASSUME TypeOK, NEW c \in Closings, Exact(c), EndBreaks(c.breaks, c.at),
         IsClosed(c.session)',
         session'[c.session].checkIn = session[c.session].checkIn,
         session'[c.session].checkOut = c.at,
         session'[c.session].breakMinutes = c.breakMinutes,
         session'[c.session].workingMinutes = c.workingMinutes,
         session'[c.session].autoCheckedOut => c.at <= NextMidnight(session[c.session].checkIn)
  PROVE  Sound(c.session)' /\ Settled(c.session)'
<1> DEFINE a == c.session
<1>1. a \in Sessions /\ c.at \in Instants /\ c.breaks \in SUBSET BreaksOf(a)
  BY DEF Closings, Exact
<1>2. OpenBreaksOf(a)' = {}
  BY <1>1, ViewsOfEndedBreaks DEF Exact
<1>3. BreakMinutesOf(a)' = c.breakMinutes
  BY <1>1, ViewsOfEndedBreaks DEF Exact
<1>4. session'[a].status \notin {"checked_in", "on_break"}
  BY DEF IsClosed
<1>5. session'[a].workingMinutes =
        NetMinutes(session'[a].checkIn, session'[a].checkOut, session'[a].breakMinutes)
  BY DEF Exact
<1>6. Settled(a)'
  BY <1>3, <1>4, <1>5 DEF Settled
<1>7. Sound(a)'
  BY <1>2 DEF Sound
<1> QED BY <1>6, <1>7

\* The breaks of the other sessions are not those of a closing.
LEMMA EndedElsewhere ==
  ASSUME TypeOK, NEW a \in Sessions, NEW ids \in SUBSET BreaksOf(a), NEW at,
         EndBreaks(ids, at), NEW other \in Sessions \ {a},
         session'[other] = session[other]
  PROVE  Untouched(other)
<1>1. \A b \in Breaks : b \notin ids => break'[b] = break[b]
  BY DEF EndBreaks
<1>2. \A b \in ids : break'[b].session = break[b].session /\ break[b].session = a
  <2> SUFFICES ASSUME NEW b \in ids
               PROVE  break'[b].session = break[b].session /\ break[b].session = a
    OBVIOUS
  <2>1. b \in Breaks /\ break[b].session = a /\ break[b] \in BreakRows
    BY DEF BreaksOf, TypeOK
  <2> QED BY <2>1 DEF EndBreaks, BreakRows
<1> QED BY <1>1, <1>2 DEF Untouched, BreaksOf

\* What a sweep and a correction work out is exact.
LEMMA AutoClosingExact ==
  ASSUME NEW a \in Sessions
  PROVE  AutoClosing(a).session = a /\ Exact(AutoClosing(a))
<1> DEFINE minutes == [b \in BreaksOf(a) |->
                         IF break[b].end = NoTime
                         THEN MinutesBetween(break[b].start, Cutoff(a))
                         ELSE break[b].duration]
           counted == [b \in BreaksOf(a) |->
                         IF b \in OpenBreaksOf(a)
                         THEN MinutesBetween(break[b].start, Cutoff(a))
                         ELSE break[b].duration]
           c == AutoClosing(a)
<1>1. minutes = counted
  BY DEF OpenBreaksOf
<1>2. c = Closing(a, Cutoff(a), OpenBreaksOf(a), minutes)
  BY DEF AutoClosing
<1>3. c = Closing(a, Cutoff(a), OpenBreaksOf(a), counted)
  <2> HIDE DEF minutes, counted, c
  <2> QED BY <1>1, <1>2
<1>4. /\ c.session = a /\ c.at = Cutoff(a) /\ c.breaks = OpenBreaksOf(a)
      /\ c.breakMinutes = SumFunction(counted)
      /\ c.workingMinutes = NetMinutes(session[a].checkIn, c.at, c.breakMinutes)
  <2> HIDE DEF counted, c
  <2> QED BY <1>3 DEF Closing
<1> HIDE DEF c
<1> QED BY <1>4 DEF Exact, OpenBreaksOf, c

LEMMA CorrectedClosingExact ==
  ASSUME TypeOK, BreaksWhole, NEW a \in Sessions, NEW at \in Instants
  PROVE  CorrectedClosing(a, at).session = a /\ Exact(CorrectedClosing(a, at))
<1> DEFINE clip(b) == IF break[b].end # NoTime /\ break[b].end < at
                      THEN break[b].end ELSE at
           ids == {b \in BreaksOf(a) : break[b].end = NoTime \/ break[b].end > at}
           minutes == [b \in BreaksOf(a) |-> MinutesBetween(break[b].start, clip(b))]
           counted == [b \in BreaksOf(a) |->
                         IF b \in ids THEN MinutesBetween(break[b].start, at)
                         ELSE break[b].duration]
           c == CorrectedClosing(a, at)
<1>1. minutes = counted
  <2> SUFFICES ASSUME NEW b \in BreaksOf(a) PROVE minutes[b] = counted[b]
    OBVIOUS
  <2>1. b \in Breaks /\ break[b].session # None
    BY SessionAssumption DEF BreaksOf
  <2>2. break[b].end \in Int /\ at \in Int
    BY <2>1, SerialTypes DEF Instants
  <2>3. CASE b \in ids
    <3>1. clip(b) = at
      BY <2>2, <2>3
    <3> QED BY <2>3, <3>1
  <2>4. CASE b \notin ids
    <3>1. break[b].end # NoTime /\ break[b].end <= at
      BY <2>2, <2>4
    <3>2. clip(b) = break[b].end
      BY <2>2, <3>1
    <3>3. break[b].duration = MinutesBetween(break[b].start, break[b].end)
      BY <2>1, <3>1 DEF BreaksWhole
    <3> QED BY <2>4, <3>2, <3>3
  <2> QED BY <2>3, <2>4
<1>2. c = Closing(a, at, ids, minutes)
  BY DEF CorrectedClosing
<1>3. c = Closing(a, at, ids, counted)
  <2> HIDE DEF minutes, counted, c, ids
  <2> QED BY <1>1, <1>2
<1>4. /\ c.session = a /\ c.at = at /\ c.breaks = ids
      /\ c.breakMinutes = SumFunction(counted)
      /\ c.workingMinutes = NetMinutes(session[a].checkIn, c.at, c.breakMinutes)
  <2> HIDE DEF counted, c
  <2> QED BY <1>3 DEF Closing
<1> HIDE DEF c
<1> QED BY <1>4 DEF Exact, OpenBreaksOf, c

-----------------------------------------------------------------------------
(* The steps, with one slot *)

LEMMA OneSlot ==
  ASSUME NEW p, OneAtATime(p)
  PROVE  p \in Procs /\ \A q \in Procs : q = p /\ ~Fail(q)
BY DEF OneAtATime, Fail

RowsInStep(p) ==
  BreaksWhole /\ \A a \in Sessions : Sound(a) /\ (Held(p, a) \/ Settled(a))

LEMMA OthersStay ==
  ASSUME NEW p, SerialInv(p), TypeOK', NEW a, now <= now',
         \A other \in Sessions \ {a} : Untouched(other) /\ ~Held(p, other)
  PROVE  \A other \in Sessions \ {a} : Sound(other)' /\ Settled(other)'
BY UntouchedStays DEF SerialInv, IInv

LEMMA AllUntouched ==
  UNCHANGED <<session, break>> => \A a \in Sessions : Untouched(a)
BY DEF Untouched

\* Nothing is written: time may pass, and a job may be taken up.
LEMMA RowsAfterReading ==
  ASSUME NEW p, SerialInv(p), TypeOK', UNCHANGED <<session, break>>, now <= now',
         \A a \in Sessions : Held(p, a) => Held(p, a)'
  PROVE  RowsInStep(p)'
<1>1. BreaksWhole'
  <2> SUFFICES ASSUME NEW b \in Breaks, break[b].session # None
               PROVE  /\ break[b].start <= now'
                      /\ break[b].duration = IF break[b].end = NoTime THEN 0
                                             ELSE MinutesBetween(break[b].start, break[b].end)
    BY DEF BreaksWhole
  <2>1. break[b].start <= now
    BY DEF SerialInv, BreaksWhole
  <2>2. break[b].start \in Int /\ now \in Int /\ now' \in Int
    <3>1. break[b] \in BreakRows
      BY DEF SerialInv, IInv, TypeOK
    <3> QED BY <3>1 DEF SerialInv, IInv, TypeOK, BreakRows, Times, Instants, NoTime
  <2>3. break[b].start <= now'
    BY <2>1, <2>2
  <2> QED BY <2>3 DEF SerialInv, BreaksWhole
<1>2. \A a \in Sessions : Sound(a)' /\ (Held(p, a)' \/ Settled(a)')
  BY AllUntouched, UntouchedStays DEF SerialInv, IInv
<1> QED BY <1>1, <1>2 DEF RowsInStep

\* What the job has read is not disturbed when its session is not.
LEMMA FreshStays ==
  ASSUME NEW p \in Procs, SerialInv(p), TypeOK',
         UNCHANGED <<session, break, job>>, now <= now'
  PROVE  Fresh(p)'
<1>1. TypeOK /\ Fresh(p)
  BY DEF SerialInv, IInv
<1>2. \A c \in Closings : /\ Sweepable(c) => Sweepable(c)'
                          /\ IsClosed(c.session) /\ Exact(c) => IsClosed(c.session)' /\ Exact(c)'
  <2>1. \A c \in Closings : c.session \in Sessions
    BY DEF Closings
  <2>2. \A c \in Closings : OpenBreaksOf(c.session)' = OpenBreaksOf(c.session)
    BY <2>1, AllUntouched, UntouchedViews
  <2> QED BY <2>1, <2>2, AllUntouched, UntouchedClosings DEF Sweepable, IsOpen, IsClosed
<1>3. ASSUME job[p].op \in {"sweep", "checkIn"}
      PROVE  /\ \A c \in job[p].todo : Sweepable(c)'
             /\ \A c, d \in job[p].todo : c.session = d.session => c = d
  <2>1. job[p].todo \subseteq Closings
    BY <1>1, <1>3, JobFields
  <2> QED BY <1>1, <1>2, <1>3, <2>1 DEF Fresh
<1>4. ASSUME job[p].op = "correct"
      PROVE  IsClosed(job[p].closing.session)' /\ Exact(job[p].closing)'
  <2>1. job[p].closing \in Closings
    BY <1>1, <1>4, JobFields
  <2> QED BY <1>1, <1>2, <1>4, <2>1 DEF Fresh
<1>5. ASSUME NEW a \in Sessions
      PROVE  /\ OpenBreaksOf(a)' = OpenBreaksOf(a)
             /\ BreakMinutesOf(a)' = BreakMinutesOf(a)
             /\ \A t : Fits(a, t)' <=> Fits(a, t)
             /\ Fits(a, now) => Fits(a, now)'
  BY <1>1, AllUntouched, UntouchedViews, UntouchedStays
<1>6. job[p].op \in {"checkOut", "startBreak", "insertBreak", "resume"} => job[p].session \in Sessions
  BY <1>1, JobFields
<1>7. job[p].op = "checkOut" =>
        /\ IsOpen(job[p].session)'
        /\ job[p].breakMinutes = BreakMinutesOf(job[p].session)'
        /\ Fits(job[p].session, job[p].since)'
  BY <1>1, <1>5, <1>6 DEF Fresh, IsOpen
<1>8. job[p].op = "insertBreak" =>
        /\ session[job[p].session].status = "on_break"
        /\ OpenBreaksOf(job[p].session)' = {}
        /\ Fits(job[p].session, job[p].since)'
  BY <1>1, <1>5, <1>6 DEF Fresh
<1>9. job[p].op = "resume" =>
        /\ session[job[p].session].status \in {"on_break", "checked_out"}
        /\ OpenBreaksOf(job[p].session)' = {}
        /\ ~session[job[p].session].autoCheckedOut
        /\ Fits(job[p].session, now)'
  BY <1>1, <1>5, <1>6 DEF Fresh
<1>10. /\ job[p].op = "startBreak" => session[job[p].session].status = "checked_in"
       /\ job[p].op = "endBreak" => /\ break[job[p].break].end = NoTime
                                    /\ break[job[p].break].start <= job[p].since
  BY <1>1 DEF Fresh
<1> QED BY <1>3, <1>4, <1>7, <1>8, <1>9, <1>10 DEF Fresh

\* A job that only reads is taken up: what it has read is what there is.
LEMMA StartsInStep ==
  ASSUME NEW p \in Procs, SerialInv(p), IInv'
  PROVE  /\ Sweep(p) => SerialInv(p)'
         /\ \A e \in Employees : CheckIn(p, e) \/ GetStatus(p, e) => SerialInv(p)'
         /\ \A a \in Sessions :
              CheckOut(p, a) \/ StartBreak(p, a) \/ EndBreak(p, a) => SerialInv(p)'
         /\ \A a \in Sessions, clock \in Clocks : CorrectCheckOut(p, a, clock) => SerialInv(p)'
<1>1. TypeOK /\ TypeOK' /\ job \in [Procs -> Jobs] /\ now \in Nat
  BY DEF SerialInv, IInv, TypeOK, Instants
<1>2. ASSUME job[p] = Idle, UNCHANGED <<now, session, break>>, Fresh(p)'
      PROVE  SerialInv(p)'
  <2>1. \A a \in Sessions : ~Held(p, a)
    BY <1>2 DEF Held, Idle
  <2>2. RowsInStep(p)'
    BY <1>1, <1>2, <2>1, RowsAfterReading
  <2> QED BY <1>2, <2>2 DEF SerialInv, RowsInStep
<1>3. ASSUME UNCHANGED <<session, break>>, NEW emps
      PROVE  /\ \A c \in StaleClosings(emps) : Sweepable(c)'
             /\ \A c, d \in StaleClosings(emps) : c.session = d.session => c = d
  <2>1. \A a \in Sessions : IsStale(a) => IsOpen(a)
    BY DEF IsStale
  <2>2. ASSUME NEW a \in Sessions, IsOpen(a), NEW c, c = AutoClosing(a)
        PROVE  c.session = a /\ Sweepable(c)'
    <3>1. c.session = a /\ Exact(c) /\ c.breaks = OpenBreaksOf(a)
      BY <2>2, AutoClosingExact DEF AutoClosing, Closing
    <3>2. OpenBreaksOf(a)' = OpenBreaksOf(a)
      BY <1>3, AllUntouched, UntouchedViews
    <3> QED BY <1>3, <2>2, <3>1, <3>2, AllUntouched, UntouchedClosings DEF Sweepable, IsOpen
  <2> QED BY <2>1, <2>2 DEF StaleClosings
<1>4. job' \in [Procs -> Jobs] /\ \A next \in Jobs : Proceed(p, next) => job'[p] = next
  BY <1>1 DEF TypeOK, Proceed
<1>5. ASSUME NEW emps, job[p] = Idle, UNCHANGED <<now, shift, session, break>>,
             Proceed(p, [op |-> "sweep", todo |-> StaleClosings(emps)])
      PROVE  SerialInv(p)'
  <2>1. job'[p].op = "sweep" /\ job'[p].todo = StaleClosings(emps)
    BY <1>1, <1>5 DEF Proceed, TypeOK
  <2>2. Fresh(p)'
    BY <1>3, <1>5, <2>1 DEF Fresh
  <2> QED BY <1>2, <1>5, <2>2
<1>6. Sweep(p) => SerialInv(p)'
  BY <1>5 DEF Sweep
<1>7. ASSUME NEW e \in Employees, GetStatus(p, e) PROVE SerialInv(p)'
  BY <1>5, <1>7 DEF GetStatus
<1>8. ASSUME NEW e \in Employees, CheckIn(p, e) PROVE SerialInv(p)'
  <2>1. job'[p].op = "checkIn" /\ job'[p].todo = StaleClosings({e})
    BY <1>1, <1>8 DEF CheckIn, Proceed, TypeOK
  <2>2. Fresh(p)'
    BY <1>3, <1>8, <2>1 DEF Fresh, CheckIn
  <2> QED BY <1>2, <1>8, <2>2 DEF CheckIn
<1>9. ASSUME NEW a \in Sessions, UNCHANGED <<session, break>>
      PROVE  /\ OpenBreaksOf(a)' = OpenBreaksOf(a)
             /\ BreakMinutesOf(a)' = BreakMinutesOf(a)
             /\ \A t : Fits(a, t)' <=> Fits(a, t)
  BY <1>9, AllUntouched, UntouchedViews
<1>10. ASSUME NEW a \in Sessions, CheckOut(p, a) PROVE SerialInv(p)'
  <2>1. /\ IsOpen(a) /\ job[p] = Idle /\ UNCHANGED <<now, shift, session, break>>
        /\ Proceed(p, [op |-> "checkOut", session |-> a, since |-> now,
                       breakMinutes |-> BreakMinutesOf(a)])
    BY <1>10 DEF CheckOut
  <2>2. /\ job'[p].op = "checkOut" /\ job'[p].session = a /\ job'[p].since = now
        /\ job'[p].breakMinutes = BreakMinutesOf(a)
    BY <1>1, <2>1 DEF Proceed
  <2>3. Fits(a, now)
    <3>1. Sound(a) /\ Settled(a)
      BY <2>1 DEF SerialInv, Held, Idle
    <3>2. CASE session[a].status = "checked_in"
      BY <3>1, <3>2 DEF Settled
    <3>3. CASE session[a].status = "on_break"
      <4>1. PICK b \in OpenBreaksOf(a) : Fits(a, break[b].start)
        BY <3>1, <3>3 DEF Settled, Sound
      <4>2. b \in Breaks /\ break[b].session # None
        BY SessionAssumption DEF OpenBreaksOf, BreaksOf
      <4>3. break[b].start <= now
        BY <4>2 DEF SerialInv, BreaksWhole
      <4> QED BY <1>1, <4>1, <4>2, <4>3, SerialTypes DEF Fits
    <3> QED BY <2>1, <3>2, <3>3 DEF IsOpen, OpenStatuses
  <2>4. Fresh(p)'
    BY <1>9, <2>1, <2>2, <2>3 DEF Fresh, IsOpen
  <2> QED BY <1>2, <2>1, <2>4
<1>11. ASSUME NEW a \in Sessions, StartBreak(p, a) PROVE SerialInv(p)'
  <2>1. job'[p].op = "startBreak" /\ job'[p].session = a
    BY <1>1, <1>11 DEF StartBreak, Proceed
  <2>2. Fresh(p)'
    BY <1>11, <2>1 DEF Fresh, StartBreak
  <2> QED BY <1>2, <1>11, <2>2 DEF StartBreak
<1>12. ASSUME NEW a \in Sessions, EndBreak(p, a) PROVE SerialInv(p)'
  <2>1. PICK b \in OpenBreaksOf(a) : Proceed(p, [op |-> "endBreak", break |-> b, since |-> now])
    BY <1>12 DEF EndBreak
  <2>2. job'[p].op = "endBreak" /\ job'[p].break = b /\ job'[p].since = now
    BY <1>1, <2>1 DEF Proceed
  <2>3. break[b].end = NoTime /\ break[b].start <= now
    BY SessionAssumption DEF OpenBreaksOf, BreaksOf, SerialInv, BreaksWhole
  <2>4. Fresh(p)'
    BY <1>12, <2>2, <2>3 DEF Fresh, EndBreak
  <2> QED BY <1>2, <1>12, <2>4 DEF EndBreak
<1>13. ASSUME NEW a \in Sessions, NEW clock \in Clocks, CorrectCheckOut(p, a, clock)
       PROVE  SerialInv(p)'
  <2> DEFINE at == AtClockTime(session[a].checkIn, clock)
  <2>1. PICK c : c = CorrectedClosing(a, at)
    OBVIOUS
  <2>2. /\ IsClosed(a) /\ at # NoTime /\ job[p] = Idle /\ UNCHANGED <<now, shift, session, break>>
        /\ Proceed(p, [op |-> "correct", closing |-> c])
    BY <1>13, <2>1 DEF CorrectCheckOut
  <2>3. at \in Instants
    <3>1. session[a].checkIn \in Instants
      BY <2>2 DEF SerialInv, IInv, ReadsStayTrue, RowsFaithful, IsClosed, Exists, Statuses, Instants
    <3> QED BY <2>2, <3>1, ClockTimeType
  <2>4. c.session = a /\ Exact(c)
    <3> HIDE DEF at
    <3> QED BY <1>1, <2>1, <2>3, CorrectedClosingExact DEF SerialInv
  <2>5. job'[p].op = "correct" /\ job'[p].closing = c
    BY <1>1, <2>2 DEF Proceed
  <2>6. Exact(c)' /\ IsClosed(c.session)'
    BY <2>2, <2>4, AllUntouched, UntouchedClosings DEF IsClosed
  <2>7. Fresh(p)'
    BY <2>5, <2>6 DEF Fresh
  <2> QED BY <1>2, <2>2, <2>7
<1> QED BY <1>6, <1>7, <1>8, <1>10, <1>11, <1>12, <1>13

\* A step that writes one session, or breaks of one session, leaves the rest.
LEMMA RowsAfterWriting ==
  ASSUME NEW p, SerialInv(p), IInv', NEW a \in Sessions, UNCHANGED now,
         \A other \in Sessions \ {a} : Untouched(other) /\ ~Held(p, other),
         BreaksWhole', Sound(a)', Held(p, a)' \/ Settled(a)', Fresh(p)'
  PROVE  SerialInv(p)'
<1>1. TypeOK' /\ now <= now'
  BY DEF SerialInv, IInv, TypeOK, Instants
<1>2. \A other \in Sessions \ {a} : Sound(other)' /\ Settled(other)'
  BY <1>1, OthersStay
<1> QED BY <1>2 DEF SerialInv

\* The transaction of a sweep, and what is left to do.
LEMMA SweepInStep ==
  ASSUME NEW p \in Procs, SerialInv(p), IInv', UNCHANGED now,
         job[p].op \in {"sweep", "checkIn"},
         NEW c \in job[p].todo, ApplyAutoClosing(c)
  PROVE  /\ c.session \in Sessions /\ BreaksWhole'
         /\ Sound(c.session)' /\ Settled(c.session)'
         /\ \A other \in Sessions \ {c.session} : Untouched(other) /\ ~Held(p, other)
         /\ \A d \in job[p].todo \ {c} : Sweepable(d)'
<1>. PICK a : a = c.session
  OBVIOUS
<1>1. TypeOK /\ job[p].todo \subseteq Closings
  BY JobFields DEF SerialInv, IInv
<1>2. a \in Sessions /\ c \in Closings /\ c.at \in Instants
  BY <1>1 DEF Closings
<1>3. /\ IsOpen(a) /\ Exact(c)
      /\ \A d \in job[p].todo \ {c} : Sweepable(d) /\ d.session # a
  BY DEF SerialInv, Fresh, Sweepable
<1>4. /\ session' = [session EXCEPT
                       ![a].checkOut = c.at,
                       ![a].status = "checked_out",
                       ![a].autoCheckedOut = TRUE,
                       ![a].workingMinutes = c.workingMinutes,
                       ![a].breakMinutes = c.breakMinutes]
      /\ EndBreaks(c.breaks, c.at)
  BY <1>3 DEF ApplyAutoClosing
<1>5. /\ session'[a].status = "checked_out"
      /\ session'[a].checkIn = session[a].checkIn
      /\ session'[a].checkOut = c.at
      /\ session'[a].breakMinutes = c.breakMinutes
      /\ session'[a].workingMinutes = c.workingMinutes
      /\ \A other \in Sessions \ {a} : session'[other] = session[other]
  BY <1>1, <1>2, <1>4 DEF TypeOK, SessionRows
<1>6. c.at <= NextMidnight(session[a].checkIn)
  BY DEF SerialInv, IInv, ReadsStayTrue, JobFaithful, InItsDay
<1>7. Sound(a)' /\ Settled(a)'
  BY <1>1, <1>2, <1>3, <1>4, <1>5, <1>6, ExactlyClosed DEF IsClosed
<1>8. BreaksWhole'
  BY <1>1, <1>2, <1>4, EndedBreaksWhole DEF SerialInv
<1>9. \A other \in Sessions \ {a} : Untouched(other) /\ ~Held(p, other)
  <2>1. c.breaks \in SUBSET BreaksOf(a)
    BY <1>3 DEF Exact
  <2> QED BY <1>1, <1>2, <1>4, <1>5, <2>1, EndedElsewhere DEF Held
<1>10. \A d \in job[p].todo \ {c} : Sweepable(d)'
  <2>1. \A d \in job[p].todo \ {c} : d.session \in Sessions \ {a} /\ Untouched(d.session)
    BY <1>1, <1>3, <1>9 DEF Closings
  <2> QED BY <1>3, <1>5, <2>1, UntouchedClosings, UntouchedViews DEF Sweepable, IsOpen
<1> QED BY <1>2, <1>7, <1>8, <1>9, <1>10

LEMMA FreshIdle ==
  ASSUME NEW p \in Procs, TypeOK, Finish(p)
  PROVE  job'[p] = Idle /\ Fresh(p)'
<1>1. job'[p] = Idle
  BY DEF TypeOK, Finish, Proceed
<1> QED BY <1>1 DEF Fresh, Idle

LEMMA WritesInStep ==
  ASSUME NEW p \in Procs, SerialInv(p), IInv'
  PROVE  Step(p) => SerialInv(p)'
<1>1. /\ TypeOK /\ TypeOK' /\ job \in [Procs -> Jobs] /\ now \in Nat
      /\ session \in [Sessions -> SessionRows] /\ break \in [Breaks -> BreakRows]
      /\ Fresh(p) /\ BreaksWhole
  BY DEF SerialInv, IInv, TypeOK, Instants
<1>2. \A next : Proceed(p, next) => job'[p] = next
  BY <1>1 DEF Proceed
<1>3. ASSUME CloseStale(p) PROVE SerialInv(p)'
  <2>1. PICK c \in job[p].todo :
          /\ ApplyAutoClosing(c)
          /\ IF job[p].todo = {c} THEN Finish(p)
             ELSE Proceed(p, [job[p] EXCEPT !.todo = @ \ {c}])
    BY <1>3 DEF CloseStale
  <2>2. job[p].op = "sweep" /\ UNCHANGED now
    BY <1>3 DEF CloseStale
  <2>3. Fresh(p)'
    <3>1. CASE job[p].todo = {c}
      BY <1>1, <2>1, <3>1, FreshIdle
    <3>2. CASE job[p].todo # {c}
      <4>1. job[p] \in [op : {"sweep"}, todo : SUBSET Closings]
        BY <1>1, <2>2, JobFields
      <4>2. job'[p].op = "sweep" /\ job'[p].todo = job[p].todo \ {c}
        BY <1>2, <2>1, <3>2, <4>1
      <4>3. /\ \A d \in job'[p].todo : Sweepable(d)'
            /\ \A d, e \in job'[p].todo : d.session = e.session => d = e
        BY <1>1, <2>1, <2>2, <4>2, SweepInStep DEF Fresh
      <4> QED BY <4>2, <4>3 DEF Fresh
    <3> QED BY <3>1, <3>2
  <2> QED BY <2>1, <2>2, <2>3, SweepInStep, RowsAfterWriting
<1>4. ASSUME CheckInCloseStale(p) PROVE SerialInv(p)'
  <2>1. PICK c \in job[p].todo :
          /\ ApplyAutoClosing(c)
          /\ Proceed(p, [job[p] EXCEPT !.todo = @ \ {c}, !.since = now])
    BY <1>4 DEF CheckInCloseStale
  <2>2. job[p].op = "checkIn" /\ UNCHANGED now
    BY <1>4 DEF CheckInCloseStale
  <2>3. Fresh(p)'
    <3>1. job[p] \in [op : {"checkIn"}, employee : Employees,
                      todo : SUBSET Closings, since : Instants]
      BY <1>1, <2>2, JobFields
    <3>2. job'[p].op = "checkIn" /\ job'[p].todo = job[p].todo \ {c}
      BY <1>2, <2>1, <3>1
    <3>3. /\ \A d \in job'[p].todo : Sweepable(d)'
          /\ \A d, e \in job'[p].todo : d.session = e.session => d = e
      BY <1>1, <2>1, <2>2, <3>2, SweepInStep DEF Fresh
    <3> QED BY <3>2, <3>3 DEF Fresh
  <2> QED BY <2>1, <2>2, <2>3, SweepInStep, RowsAfterWriting
<1>5. ASSUME CheckInCreate(p) PROVE SerialInv(p)'
  <2>1. PICK a \in Sessions, t \in Stamps(p) :
          /\ ~Exists(a)
          /\ session' = [session EXCEPT
                           ![a] = [NoSession EXCEPT !.status = "checked_in",
                                                    !.employee = job[p].employee,
                                                    !.checkIn = t]]
    BY <1>5 DEF CheckInCreate
  <2>2. job[p].op = "checkIn" /\ UNCHANGED <<now, break>> /\ Finish(p)
    BY <1>5 DEF CheckInCreate
  <2>3. /\ session'[a].status = "checked_in" /\ session'[a].checkIn = t
        /\ session'[a].autoCheckedOut = FALSE
        /\ \A other \in Sessions \ {a} : session'[other] = session[other]
    BY <1>1, <2>1 DEF NoSession
  <2>4. BreaksOf(a)' = {}
    BY <2>1, <2>2, SessionAssumption DEF BreaksOf, SerialInv, IInv, ReadsStayTrue, RowsFaithful
  <2>5. OpenBreaksOf(a)' = {}
    BY <2>4 DEF OpenBreaksOf
  <2>6. BreakMinutesOf(a)' = 0
    <3> DEFINE f == [b \in BreaksOf(a)' |-> break'[b].duration]
    <3>1. BreakMinutesOf(a)' = SumFunction(f) /\ DOMAIN f = {}
      BY <2>4 DEF BreakMinutesOf
    <3> HIDE DEF f
    <3> QED BY <3>1, SumOfNothing
  <2>7. Fits(a, now)'
    <3>1. t \in Int /\ t <= now /\ 0 * MinuteTicks = 0
      <4>1. job[p].since \in Instants
        BY <1>1, <2>2, JobFields
      <4> QED BY <1>1, <4>1, ClockAssumption DEF Stamps, Instants
    <3> QED BY <1>1, <2>2, <2>3, <2>6, <3>1 DEF Fits
  <2>8. Sound(a)' /\ Settled(a)'
    BY <2>3, <2>5, <2>7 DEF Sound, Settled, IsClosed
  <2>9. \A other \in Sessions \ {a} : Untouched(other) /\ ~Held(p, other)
    BY <2>2, <2>3 DEF Untouched, Held
  <2>10. BreaksWhole'
    BY <1>1, <2>2 DEF BreaksWhole
  <2> QED BY <1>1, <2>2, <2>8, <2>9, <2>10, FreshIdle, RowsAfterWriting
<1>6. ASSUME CheckOutWrite(p) PROVE SerialInv(p)'
  <2>. PICK a : a = job[p].session
    OBVIOUS
  <2>1. PICK t \in Stamps(p) :
          session' = [session EXCEPT
                        ![a].checkOut = t,
                        ![a].status = "checked_out",
                        ![a].workingMinutes =
                           MinutesBetween(session[a].checkIn, t) - job[p].breakMinutes,
                        ![a].breakMinutes = job[p].breakMinutes]
    BY <1>6 DEF CheckOutWrite
  <2>2. job[p].op = "checkOut" /\ UNCHANGED <<now, break>> /\ Finish(p)
    BY <1>6 DEF CheckOutWrite
  <2>3. a \in Sessions /\ job[p].since \in Instants
    BY <1>1, <2>2, JobFields
  <2>4. IsOpen(a) /\ job[p].breakMinutes = BreakMinutesOf(a) /\ Fits(a, job[p].since)
    BY <1>1, <2>2 DEF Fresh
  <2>5. /\ session'[a].status = "checked_out"
        /\ session'[a].checkIn = session[a].checkIn
        /\ session'[a].checkOut = t
        /\ session'[a].autoCheckedOut = session[a].autoCheckedOut
        /\ session'[a].breakMinutes = BreakMinutesOf(a)
        /\ session'[a].workingMinutes =
             MinutesBetween(session[a].checkIn, t) - BreakMinutesOf(a)
        /\ \A other \in Sessions \ {a} : session'[other] = session[other]
    BY <1>1, <2>1, <2>3, <2>4 DEF SessionRows
  <2>6. MinutesBetween(session[a].checkIn, t) - BreakMinutesOf(a)
          = NetMinutes(session[a].checkIn, t, BreakMinutesOf(a))
    <3>1. t \in Int /\ job[p].since <= t
      BY <1>1, <2>3 DEF Stamps, Instants
    <3>2. /\ session[a].checkIn \in Int /\ BreakMinutesOf(a) \in Nat
          /\ BreakMinutesOf(a) * MinuteTicks \in Nat
      BY <1>1, <2>3, SerialTypes
    <3>3. session[a].checkIn + BreakMinutesOf(a) * MinuteTicks <= t
      BY <2>3, <2>4, <3>1, <3>2 DEF Fits, Instants
    <3> QED BY <3>1, <3>2, <3>3, NetOfFitting
  <2>7. /\ OpenBreaksOf(a)' = OpenBreaksOf(a) /\ BreakMinutesOf(a)' = BreakMinutesOf(a)
        /\ \A b \in OpenBreaksOf(a) : break'[b] = break[b]
    BY <2>2 DEF OpenBreaksOf, BreaksOf, BreakMinutesOf
  <2>8. Settled(a)'
    BY <2>5, <2>6, <2>7 DEF Settled
  <2>9. Sound(a)'
    <3>1. Sound(a) /\ ~session[a].autoCheckedOut
      BY <2>3, <2>4 DEF SerialInv, Sound, IsOpen, IsClosed, OpenStatuses
    <3> QED BY <2>5, <2>7, <3>1 DEF Sound, Fits
  <2>10. \A other \in Sessions \ {a} : Untouched(other) /\ ~Held(p, other)
    BY <2>2, <2>5 DEF Untouched, Held
  <2>11. BreaksWhole'
    BY <1>1, <2>2 DEF BreaksWhole
  <2> QED BY <1>1, <2>2, <2>3, <2>8, <2>9, <2>10, <2>11, FreshIdle, RowsAfterWriting
<1>7. ASSUME CorrectWrite(p) PROVE SerialInv(p)'
  <2>. PICK c, a : c = job[p].closing /\ a = c.session
    OBVIOUS
  <2>1. /\ EndBreaks(c.breaks, c.at)
        /\ session' = [session EXCEPT
                         ![a].checkOut = c.at,
                         ![a].workingMinutes = c.workingMinutes,
                         ![a].breakMinutes = c.breakMinutes,
                         ![a].autoCheckedOut = FALSE]
        /\ job[p].op = "correct" /\ UNCHANGED now /\ Finish(p)
    BY <1>7 DEF CorrectWrite
  <2>2. c \in Closings /\ a \in Sessions /\ c.at \in Instants
    <3>1. c \in Closings
      BY <1>1, <2>1, JobFields
    <3> QED BY <3>1 DEF Closings
  <2>3. IsClosed(a) /\ Exact(c)
    BY <1>1, <2>1 DEF Fresh
  <2>4. /\ session'[a].status = session[a].status
        /\ session'[a].checkIn = session[a].checkIn
        /\ session'[a].checkOut = c.at
        /\ session'[a].breakMinutes = c.breakMinutes
        /\ session'[a].workingMinutes = c.workingMinutes
        /\ session'[a].autoCheckedOut = FALSE
        /\ \A other \in Sessions \ {a} : session'[other] = session[other]
    BY <1>1, <2>1, <2>2 DEF SessionRows
  <2>5. Sound(a)' /\ Settled(a)'
    BY <1>1, <2>1, <2>2, <2>3, <2>4, ExactlyClosed DEF IsClosed
  <2>6. \A other \in Sessions \ {a} : Untouched(other) /\ ~Held(p, other)
    <3>1. c.breaks \in SUBSET BreaksOf(a)
      BY <2>3 DEF Exact
    <3> QED BY <1>1, <2>1, <2>2, <2>4, <3>1, EndedElsewhere DEF Held
  <2>7. BreaksWhole'
    BY <1>1, <2>1, <2>2, EndedBreaksWhole
  <2> QED BY <1>1, <2>1, <2>2, <2>5, <2>6, <2>7, FreshIdle, RowsAfterWriting

<1>8. ASSUME StartBreakFlip(p) PROVE SerialInv(p)'
  <2>. PICK a : a = job[p].session
    OBVIOUS
  <2>1. /\ session' = [session EXCEPT ![a].status = "on_break"]
        /\ Proceed(p, [op |-> "insertBreak", session |-> a, since |-> now])
        /\ job[p].op = "startBreak" /\ UNCHANGED <<now, break>>
    BY <1>8 DEF StartBreakFlip
  <2>2. a \in Sessions /\ session[a].status = "checked_in"
    BY <1>1, <2>1, JobFields DEF Fresh
  <2>3. /\ session'[a].status = "on_break"
        /\ session'[a].checkIn = session[a].checkIn
        /\ session'[a].autoCheckedOut = session[a].autoCheckedOut
        /\ \A other \in Sessions \ {a} : session'[other] = session[other]
    BY <1>1, <2>1, <2>2 DEF SessionRows
  <2>4. job'[p].op = "insertBreak" /\ job'[p].session = a /\ job'[p].since = now
    BY <1>2, <2>1
  <2>5. OpenBreaksOf(a) = {} /\ Fits(a, now) /\ ~session[a].autoCheckedOut
    BY <2>1, <2>2 DEF SerialInv, Held, Settled, Sound, IsClosed
  <2>6. OpenBreaksOf(a)' = {} /\ BreakMinutesOf(a)' = BreakMinutesOf(a)
    BY <2>1, <2>5 DEF OpenBreaksOf, BreaksOf, BreakMinutesOf
  <2>7. Fits(a, now)'
    BY <2>1, <2>3, <2>5, <2>6 DEF Fits
  <2>8. Sound(a)' /\ Held(p, a)'
    BY <2>3, <2>4, <2>5, <2>6 DEF Sound, Held
  <2>9. Fresh(p)'
    <3>1. Fits(a, job[p].since)'
      BY <2>1, <2>4, <2>7 DEF Fits
    <3> QED BY <2>3, <2>4, <2>6, <3>1 DEF Fresh
  <2>10. \A other \in Sessions \ {a} : Untouched(other) /\ ~Held(p, other)
    BY <2>1, <2>3 DEF Untouched, Held
  <2>11. BreaksWhole'
    BY <1>1, <2>1 DEF BreaksWhole
  <2> QED BY <2>1, <2>2, <2>8, <2>9, <2>10, <2>11, RowsAfterWriting
<1>9. ASSUME StartBreakInsert(p) PROVE SerialInv(p)'
  <2>. PICK a : a = job[p].session
    OBVIOUS
  <2>1. PICK b \in Breaks, t \in Stamps(p) :
          /\ break[b].session = None
          /\ break' = [break EXCEPT ![b] = [session |-> a, start |-> t,
                                            end |-> NoTime, duration |-> 0]]
    BY <1>9 DEF StartBreakInsert
  <2>2. job[p].op = "insertBreak" /\ UNCHANGED <<now, session>> /\ Finish(p)
    BY <1>9 DEF StartBreakInsert
  <2>3. a \in Sessions /\ a # None /\ job[p].since \in Instants
    BY <1>1, <2>2, JobFields, SessionAssumption
  <2>4. session[a].status = "on_break" /\ OpenBreaksOf(a) = {} /\ Fits(a, job[p].since)
    BY <1>1, <2>2 DEF Fresh
  <2>5. /\ break'[b].session = a /\ break'[b].start = t
        /\ break'[b].end = NoTime /\ break'[b].duration = 0
        /\ \A other \in Breaks \ {b} : break'[other] = break[other]
    BY <1>1, <2>1
  <2>6. b \notin BreaksOf(a) /\ BreaksOf(a)' = BreaksOf(a) \cup {b}
    BY <2>1, <2>3, <2>5 DEF BreaksOf
  <2>7. OpenBreaksOf(a)' = {b}
    BY <2>4, <2>5, <2>6 DEF OpenBreaksOf, BreaksOf
  <2>8. BreakMinutesOf(a)' = BreakMinutesOf(a)
    <3> DEFINE f == [x \in BreaksOf(a) |-> break[x].duration]
               g == [x \in BreaksOf(a)' |-> break'[x].duration]
               rest == [x \in DOMAIN g \ {b} |-> g[x]]
    <3>1. BreakMinutesOf(a) = SumFunction(f) /\ BreakMinutesOf(a)' = SumFunction(g)
      BY DEF BreakMinutesOf
    <3>2. /\ DOMAIN g = BreaksOf(a)' /\ b \in DOMAIN g /\ g[b] = 0
          /\ \A x \in DOMAIN g : g[x] \in Nat
      <4>1. \A x \in Breaks : break'[x].duration \in Nat
        BY <1>1 DEF TypeOK, BreakRows
      <4> QED BY <2>5, <2>6, <4>1 DEF BreaksOf
    <3>3. rest = f
      BY <2>5, <2>6 DEF BreaksOf
    <3>4. IsFiniteSet(BreaksOf(a)')
      BY <2>6, BreaksFinite, FS_AddElement
    <3>5. SumFunction(f) \in Nat
      BY <1>1, <2>3, <3>1, BreakMinutesType
    <3> HIDE DEF f, g
    <3>6. SumFunction(g) = g[b] + SumFunction(rest)
      BY <3>2, <3>4, SumSplits
    <3> HIDE DEF rest
    <3> QED BY <3>1, <3>2, <3>3, <3>5, <3>6
  <2>9. t \in Int /\ job[p].since <= t /\ t <= now
    BY <1>1, <2>3 DEF Stamps, Instants
  <2>10. session[a].checkIn + BreakMinutesOf(a) * MinuteTicks <= t
    BY <1>1, <2>3, <2>4, <2>9, SerialTypes DEF Fits, Instants
  <2>11. ~session[a].autoCheckedOut
    BY <2>3, <2>4 DEF SerialInv, Sound, IsClosed
  <2>12. Sound(a)'
    BY <2>2, <2>5, <2>7, <2>8, <2>10, <2>11 DEF Sound, Fits
  <2>13. Settled(a)'
    BY <2>2, <2>4, <2>7 DEF Settled, IsClosed
  <2>14. \A other \in Sessions \ {a} : Untouched(other) /\ ~Held(p, other)
    <3>1. \A other \in Sessions \ {a} : other # None
      BY SessionAssumption
    <3> QED BY <2>1, <2>2, <2>5, <3>1 DEF Untouched, Held, BreaksOf
  <2>15. BreaksWhole'
    BY <1>1, <2>2, <2>5, <2>9 DEF BreaksWhole
  <2> QED BY <1>1, <2>2, <2>3, <2>12, <2>13, <2>14, <2>15, FreshIdle, RowsAfterWriting
<1>10. ASSUME EndBreakWrite(p) PROVE SerialInv(p)'
  <2>. PICK b, a : b = job[p].break /\ a = break[b].session
    OBVIOUS
  <2>1. /\ Proceed(p, [op |-> "resume", session |-> a])
        /\ job[p].op = "endBreak" /\ UNCHANGED <<now, session>>
    BY <1>10 DEF EndBreakWrite
  <2>2. PICK t \in Stamps(p) : EndBreaks({b}, t)
    BY <1>10 DEF EndBreakWrite
  <2>3. b \in Breaks /\ job[p].since \in Instants
    BY <1>1, <2>1, JobFields
  <2>4. a \in Sessions /\ Exists(a)
    <3>1. a # None
      BY <2>1 DEF SerialInv, IInv, ReadsStayTrue, JobFaithful
    <3>2. a \in Sessions
      BY <1>1, <2>3, <3>1 DEF BreakRows
    <3> QED BY <2>3, <3>1, <3>2 DEF SerialInv, IInv, ReadsStayTrue, RowsFaithful
  <2>5. break[b].end = NoTime /\ break[b].start <= job[p].since
    BY <1>1, <2>1 DEF Fresh
  <2>6. b \in OpenBreaksOf(a) /\ b \in BreaksOf(a)
    BY <2>3, <2>5 DEF OpenBreaksOf, BreaksOf
  <2>7. Sound(a) /\ OpenBreaksOf(a) = {b} /\ Fits(a, break[b].start) /\ Settled(a)
    BY <2>1, <2>4, <2>6 DEF SerialInv, Sound, Held
  <2>8. t \in Instants /\ t \in Int /\ break[b].start \in Int /\ break[b].start <= t /\ t <= now
    <3>1. break[b].start \in Int
      BY <1>1, <2>3, <2>4, SerialTypes
    <3> QED BY <1>1, <2>3, <2>5, <3>1 DEF Stamps, Instants
  <2>9. /\ OpenBreaksOf(a)' = {} /\ BreaksOf(a)' = BreaksOf(a)
        /\ BreakMinutesOf(a)' = SumFunction([x \in BreaksOf(a) |->
                                   IF x \in {b} THEN MinutesBetween(break[x].start, t)
                                   ELSE break[x].duration])
    <3>1. {b} \in SUBSET BreaksOf(a)
      BY <2>6
    <3>2. OpenBreaksOf(a)' = OpenBreaksOf(a) \ {b}
      BY <1>1, <2>2, <2>4, <2>8, <3>1, ViewsOfEndedBreaks
    <3> QED BY <1>1, <2>2, <2>4, <2>7, <2>8, <3>1, <3>2, ViewsOfEndedBreaks
  <2>10. BreakMinutesOf(a)' = BreakMinutesOf(a) + MinutesBetween(break[b].start, t)
    <3> DEFINE f == [x \in BreaksOf(a) |-> break[x].duration]
               g == [x \in BreaksOf(a) |-> IF x \in {b} THEN MinutesBetween(break[x].start, t)
                                           ELSE break[x].duration]
               rest == [x \in BreaksOf(a) \ {b} |-> break[x].duration]
    <3>1. BreakMinutesOf(a) = SumFunction(f) /\ BreakMinutesOf(a)' = SumFunction(g)
      BY <2>9 DEF BreakMinutesOf
    <3>2. /\ DOMAIN f = BreaksOf(a) /\ DOMAIN g = BreaksOf(a)
          /\ IsFiniteSet(DOMAIN f) /\ IsFiniteSet(DOMAIN g)
          /\ b \in DOMAIN f /\ b \in DOMAIN g
      BY <2>6, BreaksFinite
    <3>3. MinutesBetween(break[b].start, t) \in Nat
      BY <2>8, MinutesAreNatural
    <3>4. f[b] = 0 /\ g[b] = MinutesBetween(break[b].start, t)
      BY <1>1, <2>3, <2>4, <2>5, <2>6, SessionAssumption DEF BreaksWhole
    <3>5. /\ \A x \in DOMAIN f : f[x] \in Nat
          /\ \A x \in DOMAIN g : g[x] \in Nat
      <4>1. \A x \in BreaksOf(a) : break[x].duration \in Nat
        BY <1>1 DEF BreaksOf, BreakRows
      <4> QED BY <3>3, <4>1
    <3>6. rest = [x \in DOMAIN f \ {b} |-> f[x]] /\ rest = [x \in DOMAIN g \ {b} |-> g[x]]
      OBVIOUS
    <3>7. SumFunction(f) \in Nat
      BY <1>1, <2>4, <3>1, BreakMinutesType
    <3> HIDE DEF f, g, rest
    <3>8. SumFunction(f) = f[b] + SumFunction(rest) /\ SumFunction(g) = g[b] + SumFunction(rest)
      BY <3>2, <3>5, <3>6, SumSplits
    <3>9. SumFunction(rest) \in Nat
      <4>1. IsFiniteSet(DOMAIN rest) /\ \A x \in DOMAIN rest : rest[x] \in Nat
        <5>1. DOMAIN rest = BreaksOf(a) \ {b} /\ \A x \in DOMAIN rest : rest[x] = f[x]
          BY <3>2 DEF rest, f
        <5> QED BY <3>2, <3>5, <5>1, FS_Subset
      <4> QED BY <4>1, SumOfNaturals
    <3> QED BY <3>1, <3>3, <3>4, <3>8, <3>9
  <2>11. Fits(a, now)'
    <3>1. session[a].checkIn \in Int /\ BreakMinutesOf(a) \in Nat
      BY <1>1, <2>4, SerialTypes
    <3>2. session[a].checkIn + BreakMinutesOf(a) * MinuteTicks <= break[b].start
      BY <2>7 DEF Fits
    <3>3. session[a].checkIn + BreakMinutesOf(a)' * MinuteTicks <= t
      BY <2>8, <2>10, <3>1, <3>2, OneMoreFits
    <3>4. BreakMinutesOf(a)' * MinuteTicks \in Nat
      <4>1. MinutesBetween(break[b].start, t) \in Nat
        BY <2>8, MinutesAreNatural
      <4>2. BreakMinutesOf(a)' \in Nat
        BY <2>10, <3>1, <4>1
      <4> QED BY <4>2, ClockAssumption
    <3> QED BY <1>1, <2>1, <2>8, <3>1, <3>3, <3>4 DEF Fits
  <2>12. job'[p].op = "resume" /\ job'[p].session = a
    BY <1>2, <2>1
  <2>13. Sound(a)' /\ Held(p, a)'
    BY <2>1, <2>6, <2>7, <2>9, <2>12 DEF Sound, Held
  <2>14. Fresh(p)'
    <3>1. session[a].status \in {"on_break", "checked_out"} /\ ~session[a].autoCheckedOut
      BY <2>4, <2>6, <2>7 DEF Sound, Settled, Exists, Statuses
    <3> QED BY <2>1, <2>9, <2>11, <2>12, <3>1 DEF Fresh
  <2>15. \A other \in Sessions \ {a} : Untouched(other) /\ ~Held(p, other)
    BY <1>1, <2>1, <2>2, <2>4, <2>6, EndedElsewhere DEF Held
  <2>16. BreaksWhole'
    BY <1>1, <2>1, <2>2, <2>8, EndedBreaksWhole
  <2> QED BY <2>1, <2>4, <2>13, <2>14, <2>15, <2>16, RowsAfterWriting
<1>11. ASSUME EndBreakFlip(p) PROVE SerialInv(p)'
  <2>. PICK a : a = job[p].session
    OBVIOUS
  <2>1. /\ session' = [session EXCEPT ![a].status = "checked_in"]
        /\ job[p].op = "resume" /\ UNCHANGED <<now, break>> /\ Finish(p)
    BY <1>11 DEF EndBreakFlip
  <2>2. a \in Sessions
    BY <1>1, <2>1, JobFields
  <2>3. OpenBreaksOf(a) = {} /\ ~session[a].autoCheckedOut /\ Fits(a, now)
    BY <1>1, <2>1 DEF Fresh
  <2>4. /\ session'[a].status = "checked_in"
        /\ session'[a].checkIn = session[a].checkIn
        /\ session'[a].autoCheckedOut = session[a].autoCheckedOut
        /\ \A other \in Sessions \ {a} : session'[other] = session[other]
    BY <1>1, <2>1, <2>2 DEF SessionRows
  <2>5. OpenBreaksOf(a)' = {} /\ BreakMinutesOf(a)' = BreakMinutesOf(a)
    BY <2>1, <2>3 DEF OpenBreaksOf, BreaksOf, BreakMinutesOf
  <2>6. Sound(a)' /\ Settled(a)'
    BY <2>1, <2>3, <2>4, <2>5 DEF Sound, Settled, Fits, IsClosed
  <2>7. \A other \in Sessions \ {a} : Untouched(other) /\ ~Held(p, other)
    BY <2>1, <2>4 DEF Untouched, Held
  <2>8. BreaksWhole'
    BY <1>1, <2>1 DEF BreaksWhole
  <2> QED BY <1>1, <2>1, <2>2, <2>6, <2>7, <2>8, FreshIdle, RowsAfterWriting
<1> QED BY <1>3, <1>4, <1>5, <1>6, <1>7, <1>8, <1>9, <1>10, <1>11 DEF Step

LEMMA SerialInductive ==
  ASSUME NEW p, OneAtATime(p)
  PROVE  Spec => []SerialInv(p)
<1>1. Init => SerialInv(p)
  <2> SUFFICES ASSUME Init PROVE SerialInv(p)
    OBVIOUS
  <2>1. IInv /\ p \in Procs
    BY InitEstablishes, OneSlot
  <2>2. BreaksWhole
    BY DEF Init, NoBreak, BreaksWhole
  <2>3. ASSUME NEW a \in Sessions PROVE Sound(a) /\ Settled(a)
    <3>1. session[a].status = "none" /\ session[a].autoCheckedOut = FALSE
      BY DEF Init, NoSession
    <3>2. OpenBreaksOf(a) = {}
      BY SessionAssumption DEF Init, NoBreak, OpenBreaksOf, BreaksOf
    <3> QED BY <3>1, <3>2 DEF Sound, Settled, IsClosed
  <2>4. Fresh(p)
    BY <2>1 DEF Init, Idle, Fresh
  <2> QED BY <2>1, <2>2, <2>3, <2>4 DEF SerialInv
<1>2. SerialInv(p) /\ [Next]_vars => SerialInv(p)'
  <2> SUFFICES ASSUME SerialInv(p), [Next]_vars PROVE SerialInv(p)'
    OBVIOUS
  <2>1. IInv'
    BY NextPreserves DEF SerialInv
  <2>2. p \in Procs /\ \A q \in Procs : q = p /\ ~Fail(q)
    BY OneSlot
  <2>3. ASSUME UNCHANGED <<session, break, job>>, now <= now' PROVE SerialInv(p)'
    <3>1. TypeOK' /\ \A a \in Sessions : Held(p, a) => Held(p, a)'
      BY <2>1, <2>3 DEF IInv, Held
    <3>2. RowsInStep(p)' /\ Fresh(p)'
      BY <2>2, <2>3, <3>1, RowsAfterReading, FreshStays
    <3> QED BY <2>1, <3>2 DEF SerialInv, RowsInStep
  <2>4. now \in Nat
    BY DEF SerialInv, IInv, TypeOK, Instants
  <2>5. CASE Tick
    BY <2>3, <2>4, <2>5 DEF Tick
  <2>6. ASSUME NEW e \in Employees, ChangeShift(e) PROVE SerialInv(p)'
    BY <2>3, <2>4, <2>6 DEF ChangeShift
  <2>7. CASE UNCHANGED vars
    BY <2>3, <2>4, <2>7 DEF vars
  <2>8. CASE Step(p)
    BY <2>1, <2>2, <2>8, WritesInStep
  <2> QED BY <2>1, <2>2, <2>5, <2>6, <2>7, <2>8, StartsInStep DEF Next
<1> QED BY <1>1, <1>2, PTL DEF Spec

LEMMA QuietIsSettled ==
  ASSUME NEW p, OneAtATime(p), SerialInv(p), Quiet, NEW a \in Sessions
  PROVE  Sound(a) /\ Settled(a)
BY OneSlot DEF SerialInv, Quiet, Held, Idle

\* When requests run one after the other and none fails, an open session is
\* on break exactly when it has a break without an end, and has no second one
\* (startBreak, endBreak).
THEOREM BreaksMatchStatus ==
  ASSUME NEW p, OneAtATime(p)
  PROVE  Spec => []OnBreakIffOpenBreak
<1>1. SerialInv(p) => OnBreakIffOpenBreak
  <2> SUFFICES ASSUME SerialInv(p), Quiet, NEW a \in Sessions, IsOpen(a)
               PROVE  /\ Cardinality(OpenBreaksOf(a)) <= 1
                      /\ session[a].status = "on_break" <=> OpenBreaksOf(a) # {}
    BY DEF OnBreakIffOpenBreak
  <2>1. Sound(a) /\ Settled(a)
    BY QuietIsSettled
  <2>2. Cardinality(OpenBreaksOf(a)) <= 1
    <3>1. CASE OpenBreaksOf(a) = {}
      BY <3>1, FS_EmptySet
    <3>2. CASE OpenBreaksOf(a) # {}
      <4>1. PICK b : OpenBreaksOf(a) = {b}
        BY <2>1, <3>2 DEF Sound
      <4> QED BY <4>1, FS_Singleton
    <3> QED BY <3>1, <3>2
  <2> QED BY <2>1, <2>2 DEF Settled, IsOpen, OpenStatuses
<1> QED BY <1>1, SerialInductive, PTL

\* Then the minutes of a closed session are those of its breaks and the rest
\* of the time, never negative: the breaks fit into the session
\* (checkOut, autoCheckOutStale, correctCheckOut).
THEOREM MinutesAreRight ==
  ASSUME NEW p, OneAtATime(p)
  PROVE  Spec => []MinutesAddUp
<1>1. SerialInv(p) => MinutesAddUp
  BY QuietIsSettled DEF MinutesAddUp, Settled
<1> QED BY <1>1, SerialInductive, PTL

\* Then a sweep leaves no break of its session open, for good.
THEOREM SweepEndsBreaks ==
  ASSUME NEW p, OneAtATime(p)
  PROVE  Spec => []AutoCloseEndsBreaks
<1>1. SerialInv(p) => AutoCloseEndsBreaks
  BY DEF AutoCloseEndsBreaks, SerialInv, Sound
<1> QED BY <1>1, SerialInductive, PTL

\* Then the flag of a sweep stands only on check-outs of the session's day.
THEOREM FlagIsTruthful ==
  ASSUME NEW p, OneAtATime(p)
  PROVE  Spec => []AutoFlagTruthful
<1>1. SerialInv(p) => AutoFlagTruthful
  BY DEF AutoFlagTruthful, SerialInv, Sound
<1> QED BY <1>1, SerialInductive, PTL

-----------------------------------------------------------------------------
(* Then the calls implement the stricter lifecycle *)

\* The two lifecycles differ only in what a person's write expects.
LEMMA StricterOperations ==
  /\ (UNCHANGED Racing!vars) => UNCHANGED Serial!vars
  /\ \A a : Racing!CheckIn(a) => Serial!CheckIn(a)
  /\ \A a : Racing!AutoCheckOut(a) => Serial!AutoCheckOut(a)
  /\ \A a : Racing!CheckOut(a) /\ Entry[a].phase = "open" => Serial!CheckOut(a)
  /\ \A a : Racing!Correct(a) /\ Entry[a].phase = "closed" => Serial!Correct(a)
  /\ \A a : Racing!Resume(a) /\ Entry[a].phase = "closed" /\ ~Entry[a].auto => Serial!Resume(a)
<1>1. /\ Serial!NoTime = Racing!NoTime
      /\ \A t : Serial!NextMidnight(t) = Racing!NextMidnight(t)
      /\ \A a : Serial!RestOfDay(a) = Racing!RestOfDay(a)
  BY DEF Serial!NoTime, Racing!NoTime, Serial!NextMidnight, Racing!NextMidnight,
         Serial!StartOfDay, Racing!StartOfDay, Serial!DayTicks, Racing!DayTicks,
         Serial!RestOfDay, Racing!RestOfDay
<1>2. \A a, phase, in, out, auto :
        Racing!Set(a, phase, in, out, auto) => Serial!Set(a, phase, in, out, auto)
  BY DEF Racing!Set, Serial!Set
<1>3. (UNCHANGED Racing!vars) => UNCHANGED Serial!vars
  BY DEF Racing!vars, Serial!vars
<1>4. \A a : Racing!CheckIn(a) => Serial!CheckIn(a)
  BY <1>1, <1>2 DEF Racing!CheckIn, Serial!CheckIn
<1>5. \A a : Racing!AutoCheckOut(a) => Serial!AutoCheckOut(a)
  BY <1>1, <1>2 DEF Racing!AutoCheckOut, Serial!AutoCheckOut
<1>6. \A a : Racing!CheckOut(a) /\ Entry[a].phase = "open" => Serial!CheckOut(a)
  BY <1>2 DEF Racing!CheckOut, Serial!CheckOut, Serial!Expects
<1>7. \A a : Racing!Correct(a) /\ Entry[a].phase = "closed" => Serial!Correct(a)
  BY <1>1, <1>2 DEF Racing!Correct, Serial!Correct, Serial!Expects
<1>8. \A a : Racing!Resume(a) /\ Entry[a].phase = "closed" /\ ~Entry[a].auto => Serial!Resume(a)
  BY <1>2 DEF Racing!Resume, Serial!Resume, Serial!Expects
<1> QED BY <1>3, <1>4, <1>5, <1>6, <1>7, <1>8

\* A session that is open and stays so is the same to the lifecycle.
LEMMA OpenStaysOpen ==
  ASSUME NEW a \in Sessions, session \in [Sessions -> SessionRows],
         IsOpen(a), UNCHANGED now,
         NEW status \in OpenStatuses, session' = [session EXCEPT ![a].status = status]
  PROVE  UNCHANGED Racing!vars
<1>1. \A s \in OpenStatuses : Phase(s) = "open"
  BY PhaseOfStatus DEF OpenStatuses
<1>2. ASSUME NEW other \in Sessions
      PROVE  /\ Phase(session'[other].status) = Phase(session[other].status)
             /\ session'[other].checkIn = session[other].checkIn
             /\ session'[other].checkOut = session[other].checkOut
             /\ session'[other].autoCheckedOut = session[other].autoCheckedOut
  <2>1. CASE other = a
    <3>1. session'[a].status = status /\ session[a].status \in OpenStatuses
      BY DEF SessionRows, IsOpen
    <3>2. Phase(session'[a].status) = Phase(session[a].status)
      BY <1>1, <3>1
    <3> QED BY <2>1, <3>2 DEF SessionRows
  <2>2. CASE other # a
    BY <2>2
  <2> QED BY <2>1, <2>2
<1> QED BY <1>2 DEF Entry, Racing!vars

LEMMA NextImplementsSerial ==
  ASSUME NEW p, OneAtATime(p), SerialInv(p), [Next]_vars
  PROVE  [Serial!Next]_(Serial!vars)
<1>1. /\ p \in Procs /\ TypeOK /\ Fresh(p) /\ session \in [Sessions -> SessionRows]
      /\ \A q \in Procs : q = p
  BY OneSlot DEF SerialInv, IInv, TypeOK
<1>2. CASE Tick
  BY <1>2 DEF Tick, Serial!Next, Serial!Tick, Entry
<1>3. CASE Step(p)
  <2>1. Implements(p)
    BY <1>1, <1>3, WritesImplement DEF SerialInv
  <2>2. CASE UNCHANGED Racing!vars
    BY <2>2, StricterOperations
  <2>3. ASSUME NEW a \in Sessions, Racing!CheckIn(a) \/ Racing!AutoCheckOut(a)
        PROVE  Serial!Next
    BY <2>3, StricterOperations DEF Serial!Next
  <2>4. ASSUME NEW a \in Sessions, CheckOutWrite(p), a = job[p].session, Racing!CheckOut(a)
        PROVE  Serial!Next
    <3>1. Entry[a].phase = "open"
      BY <1>1, <2>4, PhaseOfSession DEF CheckOutWrite, Fresh
    <3> QED BY <2>4, <3>1, StricterOperations DEF Serial!Next
  <2>5. ASSUME NEW a \in Sessions, CorrectWrite(p), a = job[p].closing.session, Racing!Correct(a)
        PROVE  Serial!Next
    <3>1. Entry[a].phase = "closed"
      BY <1>1, <2>5, EntryFields, PhaseOfStatus DEF CorrectWrite, Fresh, IsClosed
    <3> QED BY <2>5, <3>1, StricterOperations DEF Serial!Next
  <2>6. ASSUME NEW a \in Sessions, a = job[p].session, StartBreakFlip(p)
        PROVE  UNCHANGED Racing!vars
    BY <1>1, <2>6, OpenStaysOpen DEF StartBreakFlip, Fresh, IsOpen, OpenStatuses
  <2>7. ASSUME NEW a \in Sessions, a = job[p].session, EndBreakFlip(p), Racing!Resume(a)
        PROVE  Serial!Next \/ UNCHANGED Racing!vars
    <3>1. session[a].status \in {"on_break", "checked_out"} /\ ~session[a].autoCheckedOut
      BY <1>1, <2>7 DEF EndBreakFlip, Fresh
    <3>2. CASE session[a].status = "on_break"
      BY <1>1, <2>7, <3>2, OpenStaysOpen DEF EndBreakFlip, IsOpen, OpenStatuses
    <3>3. CASE session[a].status = "checked_out"
      <4>1. Entry[a].phase = "closed" /\ ~Entry[a].auto
        BY <3>1, <3>3, EntryFields, PhaseOfStatus
      <4> QED BY <2>7, <4>1, StricterOperations DEF Serial!Next
    <3> QED BY <3>1, <3>2, <3>3
  <2> QED BY <2>1, <2>2, <2>3, <2>4, <2>5, <2>6, <2>7, StricterOperations DEF Implements
<1>4. CASE UNCHANGED vars
  BY <1>4, EntryStays, StricterOperations DEF vars
<1>5. CASE Next /\ ~Tick /\ ~Step(p)
  BY <1>1, <1>5, EntryStays, StricterOperations
  DEF Next, ChangeShift, Fail, Sweep, CheckIn, GetStatus, CheckOut, StartBreak,
      EndBreak, CorrectCheckOut
<1> QED BY <1>2, <1>3, <1>4, <1>5

\* When requests run one after the other and none fails, a person's write finds
\* the session as it was read, and a session a sweep has closed stays closed.
THEOREM ImplementsSerialLifecycle ==
  ASSUME NEW p, OneAtATime(p)
  PROVE  Spec => SerialContract
<1>1. Init => Serial!Init
  <2>1. Racing!Init => Serial!Init
    BY DEF Racing!Init, Serial!Init, Racing!Absent, Serial!Absent, Racing!NoTime, Serial!NoTime
  <2> QED BY <2>1, InitImplements
<1>2. SerialInv(p) /\ [Next]_vars => [Serial!Next]_(Serial!vars)
  BY NextImplementsSerial
<1> QED BY <1>1, <1>2, SerialInductive, PTL DEF Spec, SerialContract, Serial!Spec

-----------------------------------------------------------------------------
(* Then the end of a session adds nothing to the hours that the day shows. *)
(* Hours are sums over the day's sessions, so there must be finitely many  *)
(* of these, and what each counts for must be a number of minutes.         *)

SessionsFinite == IsFiniteSet({a \in Sessions : Exists(a)})

HoursInv(p) ==
  /\ SerialInv(p)
  /\ SessionsFinite
  /\ \A a \in Sessions : session[a].workingMinutes \in Nat

\* A step writes one session at most, and numbers of minutes only.
LEMMA OneSessionWritten ==
  ASSUME NEW p, OneAtATime(p), SerialInv(p), [Next]_vars
  PROVE  \/ UNCHANGED session
         \/ \E a \in Sessions :
              /\ \A other \in Sessions \ {a} : session'[other] = session[other]
              /\ \/ session'[a].workingMinutes \in Nat
                 \/ session'[a].workingMinutes = session[a].workingMinutes
<1>1. /\ p \in Procs /\ TypeOK /\ Fresh(p) /\ session \in [Sessions -> SessionRows]
      /\ now \in Nat /\ \A q \in Procs : q = p
  BY OneSlot DEF SerialInv, IInv, TypeOK, Instants
<1> DEFINE Written(a) ==
             /\ \A other \in Sessions \ {a} : session'[other] = session[other]
             /\ \/ session'[a].workingMinutes \in Nat
                \/ session'[a].workingMinutes = session[a].workingMinutes
<1>2. ASSUME NEW c, c \in Closings, ApplyAutoClosing(c)
      PROVE  UNCHANGED session \/ \E a \in Sessions : Written(a)
  <2>1. c.session \in Sessions /\ c.workingMinutes \in Nat
    BY <1>2 DEF Closings
  <2>2. CASE ~IsOpen(c.session)
    BY <1>2, <2>2 DEF ApplyAutoClosing
  <2>3. CASE IsOpen(c.session)
    <3>1. Written(c.session)
      BY <1>1, <1>2, <2>1, <2>3 DEF ApplyAutoClosing, SessionRows
    <3> QED BY <2>1, <3>1
  <2> QED BY <2>2, <2>3
<1>3. CASE CloseStale(p) \/ CheckInCloseStale(p)
  <2>1. job[p].todo \subseteq Closings
    BY <1>1, <1>3, JobFields DEF CloseStale, CheckInCloseStale
  <2> QED BY <1>2, <1>3, <2>1 DEF CloseStale, CheckInCloseStale
<1>4. CASE CheckInCreate(p)
  <2>1. PICK a \in Sessions, t \in Stamps(p) :
          session' = [session EXCEPT
                        ![a] = [NoSession EXCEPT !.status = "checked_in",
                                                 !.employee = job[p].employee,
                                                 !.checkIn = t]]
    BY <1>4 DEF CheckInCreate
  <2>2. Written(a)
    BY <1>1, <2>1 DEF NoSession
  <2> QED BY <2>2
<1>5. CASE CheckOutWrite(p)
  <2>. PICK a : a = job[p].session
    OBVIOUS
  <2>1. PICK t \in Stamps(p) :
          session' = [session EXCEPT
                        ![a].checkOut = t,
                        ![a].status = "checked_out",
                        ![a].workingMinutes =
                           MinutesBetween(session[a].checkIn, t) - job[p].breakMinutes,
                        ![a].breakMinutes = job[p].breakMinutes]
    BY <1>5 DEF CheckOutWrite
  <2>2. a \in Sessions /\ job[p].since \in Instants /\ job[p].op = "checkOut"
    BY <1>1, <1>5, JobFields DEF CheckOutWrite
  <2>3. job[p].breakMinutes = BreakMinutesOf(a) /\ Fits(a, job[p].since)
    BY <1>1, <2>2 DEF Fresh
  <2>4. MinutesBetween(session[a].checkIn, t) - BreakMinutesOf(a) \in Nat
    <3>1. t \in Int /\ job[p].since <= t /\ job[p].since \in Int
      BY <1>1, <2>2 DEF Stamps, Instants
    <3>2. /\ session[a].checkIn \in Int /\ BreakMinutesOf(a) \in Nat
          /\ BreakMinutesOf(a) * MinuteTicks \in Nat
      BY <1>1, <2>2, SerialTypes
    <3>3. session[a].checkIn + BreakMinutesOf(a) * MinuteTicks <= t
      BY <2>2, <2>3, <3>1, <3>2 DEF Fits
    <3>4. MinutesBetween(session[a].checkIn, t) - BreakMinutesOf(a)
            = NetMinutes(session[a].checkIn, t, BreakMinutesOf(a))
      BY <3>1, <3>2, <3>3, NetOfFitting
    <3> QED BY <3>1, <3>2, <3>4, MinutesAreNatural, MaxWithZero DEF NetMinutes
  <2>5. Written(a)
    BY <1>1, <2>1, <2>2, <2>3, <2>4 DEF SessionRows
  <2> QED BY <2>2, <2>5
<1>6. CASE CorrectWrite(p)
  <2>. PICK c : c = job[p].closing
    OBVIOUS
  <2>1. c \in Closings
    BY <1>1, <1>6, JobFields DEF CorrectWrite
  <2>2. c.session \in Sessions /\ c.workingMinutes \in Nat
    BY <2>1 DEF Closings
  <2>3. Written(c.session)
    BY <1>1, <1>6, <2>2 DEF CorrectWrite, SessionRows
  <2> QED BY <2>2, <2>3
<1>7. CASE StartBreakFlip(p) \/ EndBreakFlip(p)
  <2>1. job[p].session \in Sessions
    BY <1>1, <1>7, JobFields DEF StartBreakFlip, EndBreakFlip
  <2>2. Written(job[p].session)
    BY <1>1, <1>7, <2>1 DEF StartBreakFlip, EndBreakFlip, SessionRows
  <2> QED BY <2>1, <2>2
<1>8. CASE StartBreakInsert(p) \/ EndBreakWrite(p)
  BY <1>8 DEF StartBreakInsert, EndBreakWrite
<1>9. CASE UNCHANGED vars
  BY <1>9 DEF vars
<1>10. CASE Next /\ ~Step(p)
  BY <1>1, <1>10 DEF Next, Tick, ChangeShift, Fail, Sweep, CheckIn, GetStatus, CheckOut,
      StartBreak, EndBreak, CorrectCheckOut
<1> QED BY <1>3, <1>4, <1>5, <1>6, <1>7, <1>8, <1>9, <1>10 DEF Step

LEMMA HoursInductive ==
  ASSUME NEW p, OneAtATime(p)
  PROVE  Spec => []HoursInv(p)
<1> DEFINE Sums == /\ SessionsFinite
                   /\ \A a \in Sessions : session[a].workingMinutes \in Nat
<1>1. Init => Sums
  <2> SUFFICES ASSUME Init PROVE Sums
    OBVIOUS
  <2>1. \A a \in Sessions : session[a].status = "none" /\ session[a].workingMinutes = 0
    BY DEF Init, NoSession
  <2>2. {a \in Sessions : Exists(a)} = {}
    BY <2>1 DEF Exists, Statuses
  <2> QED BY <2>1, <2>2, FS_EmptySet DEF SessionsFinite
<1>2. SerialInv(p) /\ Sums /\ [Next]_vars => Sums'
  <2> SUFFICES ASSUME SerialInv(p), Sums, [Next]_vars PROVE Sums'
    OBVIOUS
  <2> DEFINE existing == {a \in Sessions : Exists(a)}
  <2>1. CASE UNCHANGED session
    <3>1. existing' = existing
      BY <2>1 DEF Exists
    <3> QED BY <2>1, <3>1 DEF SessionsFinite
  <2>2. ASSUME NEW a \in Sessions,
               \A other \in Sessions \ {a} : session'[other] = session[other],
               \/ session'[a].workingMinutes \in Nat
               \/ session'[a].workingMinutes = session[a].workingMinutes
        PROVE  Sums'
    <3>1. existing' \subseteq existing \cup {a}
      BY <2>2 DEF Exists
    <3>2. IsFiniteSet(existing \cup {a})
      <4> HIDE DEF existing
      <4>1. IsFiniteSet(existing)
        BY DEF SessionsFinite, existing
      <4> QED BY <4>1, FS_AddElement
    <3>3. IsFiniteSet(existing')
      <4> HIDE DEF existing
      <4> QED BY <3>1, <3>2, FS_Subset
    <3>4. \A other \in Sessions : session'[other].workingMinutes \in Nat
      BY <2>2
    <3> QED BY <3>3, <3>4 DEF SessionsFinite
  <2>3. QED BY <2>1, <2>2, OneSessionWritten
<1>3. SerialInv(p) /\ Sums <=> HoursInv(p)
  BY DEF HoursInv
<1> HIDE DEF Sums
<1> QED BY <1>1, <1>2, <1>3, SerialInductive, PTL DEF Spec

LEMMA NetType ==
  ASSUME NEW from \in Int, NEW to \in Int, NEW m \in Nat
  PROVE  NetMinutes(from, to, m) \in Nat
<1>1. MinutesBetween(from, to) - m \in Int
  BY MinutesAreNatural
<1> QED BY <1>1, MaxWithZero DEF NetMinutes

\* What the rows of one session show, in minutes, is a number of minutes.
LEMMA ShownType ==
  ASSUME TypeOK, NEW a \in Sessions, session[a].workingMinutes \in Nat
  PROVE  ShownBreakMinutes(a) \in Nat /\ ShownMinutes(a) \in Nat
<1> DEFINE f == [b \in BreaksOf(a) |-> IF break[b].end = NoTime
                                       THEN MinutesBetween(break[b].start, now)
                                       ELSE break[b].duration]
<1>. now \in Int /\ session[a].checkIn \in Int
  BY SerialTypes
<1>1. ASSUME NEW b \in BreaksOf(a) PROVE f[b] \in Nat
  <2>1. break[b].start \in Int /\ break[b].duration \in Nat
    BY SerialTypes DEF BreaksOf
  <2>2. MinutesBetween(break[b].start, now) \in Nat
    BY <2>1, MinutesAreNatural
  <2> QED BY <2>1, <2>2
<1>2. ShownBreakMinutes(a) = SumFunction(f) /\ DOMAIN f = BreaksOf(a)
  BY DEF ShownBreakMinutes
<1>3. IsFiniteSet(DOMAIN f)
  BY BreaksFinite
<1> HIDE DEF f
<1>4. ShownBreakMinutes(a) \in Nat
  BY <1>1, <1>2, <1>3, SumOfNaturals
<1>5. NetMinutes(session[a].checkIn, now, ShownBreakMinutes(a)) \in Nat
  BY <1>4, NetType
<1> QED BY <1>4, <1>5 DEF ShownMinutes

\* What every row shows is a number of minutes, so that a day's sum is one.
HoursAreNumbers == \A a \in Sessions : ShownMinutes(a) \in Nat

\* The session that nobody touches shows what it showed, at the same moment.
LEMMA UntouchedShown ==
  ASSUME NEW a \in Sessions, Untouched(a), UNCHANGED now
  PROVE  ShownMinutes(a)' = ShownMinutes(a)
<1> DEFINE f == [b \in BreaksOf(a) |-> IF break[b].end = NoTime
                                       THEN MinutesBetween(break[b].start, now)
                                       ELSE break[b].duration]
           g == [b \in BreaksOf(a)' |-> IF break'[b].end = NoTime
                                        THEN MinutesBetween(break'[b].start, now')
                                        ELSE break'[b].duration]
<1>1. f = g
  BY UntouchedViews DEF Untouched
<1>2. ShownBreakMinutes(a) = SumFunction(f) /\ ShownBreakMinutes(a)' = SumFunction(g)
  BY DEF ShownBreakMinutes
<1> HIDE DEF f, g
<1>3. ShownBreakMinutes(a)' = ShownBreakMinutes(a)
  BY <1>1, <1>2
<1> QED BY <1>3 DEF ShownMinutes, Untouched

\* Without an open break the recorded minutes are the shown ones.
LEMMA NoOpenBreakShown ==
  ASSUME TypeOK, BreaksWhole, NEW a \in Sessions, OpenBreaksOf(a) = {}
  PROVE  ShownBreakMinutes(a) = BreakMinutesOf(a)
<1> DEFINE f == [b \in BreaksOf(a) |-> IF break[b].end = NoTime
                                       THEN MinutesBetween(break[b].start, now)
                                       ELSE break[b].duration]
           g == [b \in BreaksOf(a) |-> break[b].duration]
<1>1. f = g
  BY DEF OpenBreaksOf
<1>2. ShownBreakMinutes(a) = SumFunction(f) /\ BreakMinutesOf(a) = SumFunction(g)
  BY DEF ShownBreakMinutes, BreakMinutesOf
<1> HIDE DEF f, g
<1> QED BY <1>1, <1>2

\* A check-out during no break records no more than was shown.
LEMMA CheckOutAddsNothing ==
  ASSUME NEW m \in Nat, NEW from \in Int, NEW at \in Int, NEW to \in Int,
         from + m * MinuteTicks <= at, at <= to
  PROVE  MinutesBetween(from, at) - m <= NetMinutes(from, to, m)
<1>1. m * MinuteTicks \in Nat
  BY ClockAssumption
<1>2. from <= at /\ from + m * MinuteTicks <= to
  BY <1>1
<1>3. MinutesBetween(from, to) - m = NetMinutes(from, to, m)
  BY <1>1, <1>2, NetOfFitting
<1>4. MinutesBetween(from, at) <= MinutesBetween(from, to)
  BY <1>2, CutBack
<1>5. MinutesBetween(from, at) \in Nat /\ MinutesBetween(from, to) \in Nat
  BY MinutesAreNatural
<1> QED BY <1>3, <1>4, <1>5

LEMMA NetIsMonotone ==
  ASSUME NEW from \in Int, NEW at \in Int, NEW to \in Int, NEW taken \in Nat, NEW shown \in Nat,
         MinutesBetween(from, at) - taken <= MinutesBetween(from, to) - shown + 1
  PROVE  NetMinutes(from, at, taken) <= NetMinutes(from, to, shown) + 1
<1>. PICK m \in Nat, n \in Nat : m = MinutesBetween(from, at) /\ n = MinutesBetween(from, to)
  BY MinutesAreNatural
<1>1. \A k \in Int : Max({0, k}) = IF k >= 0 THEN k ELSE 0
  BY DEF Max
<1>2. m - taken \in Int /\ n - shown \in Int /\ m - taken <= n - shown + 1
  OBVIOUS
<1> QED BY <1>1, <1>2 DEF NetMinutes

\* A sweep that cuts the session back to an earlier time takes away what it
\* showed since then, and no more than a minute less than that from its break.
LEMMA ClosingAddsNothing ==
  ASSUME TypeOK, NEW a \in Sessions, Sound(a), NEW c \in Closings, c.session = a,
         Sweepable(c), session[a].checkIn <= c.at, c.at <= now
  PROVE  c.workingMinutes
           <= NetMinutes(session[a].checkIn, now, ShownBreakMinutes(a)) + 1
<1> DEFINE f == [b \in BreaksOf(a) |-> IF break[b].end = NoTime
                                       THEN MinutesBetween(break[b].start, now)
                                       ELSE break[b].duration]
           g == [b \in BreaksOf(a) |-> IF b \in c.breaks
                                       THEN MinutesBetween(break[b].start, c.at)
                                       ELSE break[b].duration]
<1>1. /\ session[a].checkIn \in Int /\ now \in Int /\ c.at \in Int
      /\ \A b \in Breaks : break[b].start \in Int /\ break[b].duration \in Nat
      /\ \A t, u \in Int : MinutesBetween(t, u) \in Nat
  <2>1. \A t, u \in Int : MinutesBetween(t, u) \in Nat
    BY MinutesAreNatural
  <2>2. c.at \in Int
    BY DEF Closings, Instants
  <2>3. /\ session[a].checkIn \in Int /\ now \in Int
        /\ \A b \in Breaks : break[b].start \in Int /\ break[b].duration \in Nat
    BY SerialTypes
  <2> QED BY <2>1, <2>2, <2>3
<1>2. c.breaks = OpenBreaksOf(a)
  BY DEF Sweepable, Exact
<1>3. /\ ShownBreakMinutes(a) = SumFunction(f) /\ c.breakMinutes = SumFunction(g)
      /\ c.workingMinutes = NetMinutes(session[a].checkIn, c.at, c.breakMinutes)
  BY DEF ShownBreakMinutes, Sweepable, Exact
<1>4. /\ DOMAIN f = BreaksOf(a) /\ DOMAIN g = BreaksOf(a)
      /\ \A b \in BreaksOf(a) : f[b] \in Nat /\ g[b] \in Nat
      /\ \A b \in BreaksOf(a) \ OpenBreaksOf(a) : f[b] = g[b]
      /\ \A b \in OpenBreaksOf(a) : /\ f[b] = MinutesBetween(break[b].start, now)
                                    /\ g[b] = MinutesBetween(break[b].start, c.at)
  BY <1>1, <1>2 DEF BreaksOf, OpenBreaksOf
<1>5. IsFiniteSet(BreaksOf(a))
  BY BreaksFinite
<1>6. f \in [BreaksOf(a) -> Nat] /\ g \in [BreaksOf(a) -> Nat]
  BY <1>4
<1> HIDE DEF f, g
<1>7. SumFunction(f) \in Nat /\ SumFunction(g) \in Nat
  BY <1>4, <1>5, SumOfNaturals
<1>8. MinutesBetween(session[a].checkIn, c.at) - SumFunction(g)
          <= MinutesBetween(session[a].checkIn, now) - SumFunction(f) + 1
        => NetMinutes(session[a].checkIn, c.at, SumFunction(g))
             <= NetMinutes(session[a].checkIn, now, SumFunction(f)) + 1
  BY <1>1, <1>7, NetIsMonotone
<1>9. CASE OpenBreaksOf(a) = {}
  <2>1. f = g
    BY <1>4, <1>6, <1>9
  <2>2. MinutesBetween(session[a].checkIn, c.at) <= MinutesBetween(session[a].checkIn, now)
    BY <1>1, CutBack
  <2>3. MinutesBetween(session[a].checkIn, c.at) - SumFunction(f)
          <= MinutesBetween(session[a].checkIn, now) - SumFunction(f) + 1
    <3>. PICK m \in Nat, n \in Nat : /\ m = MinutesBetween(session[a].checkIn, c.at)
                                     /\ n = MinutesBetween(session[a].checkIn, now)
      BY <1>1
    <3> QED BY <1>7, <2>2
  <2> QED BY <1>3, <1>8, <2>1, <2>3
<1>10. CASE OpenBreaksOf(a) # {}
  <2>1. PICK b : OpenBreaksOf(a) = {b}
    BY <1>10 DEF Sound
  <2>2. b \in BreaksOf(a) /\ b \in Breaks
    BY <2>1 DEF OpenBreaksOf, BreaksOf
  <2> DEFINE others == BreaksOf(a) \ {b}
             h == [x \in others |-> f[x]]
             k == [x \in others |-> g[x]]
  <2>3. h = k /\ DOMAIN h = others /\ \A x \in DOMAIN h : h[x] \in Nat
    BY <1>4, <2>1
  <2>4. SumFunction(f) = f[b] + SumFunction(h)
    BY <1>4, <1>5, <2>2, SumSplits
  <2>5. SumFunction(g) = g[b] + SumFunction(k)
    BY <1>4, <1>5, <2>2, SumSplits
  <2>6. IsFiniteSet(others)
    BY <1>5, FS_Subset
  <2> HIDE DEF others, h, k
  <2>7. SumFunction(h) \in Nat
    BY <2>3, <2>6, SumOfNaturals
  <2>8. MinutesBetween(session[a].checkIn, c.at) - MinutesBetween(break[b].start, c.at)
          <= MinutesBetween(session[a].checkIn, now) - MinutesBetween(break[b].start, now) + 1
    BY <1>1, <2>2, CutBack
  <2>9. MinutesBetween(session[a].checkIn, c.at) - SumFunction(g)
          <= MinutesBetween(session[a].checkIn, now) - SumFunction(f) + 1
    <3>. PICK m \in Nat, n \in Nat, x \in Nat, y \in Nat, rest \in Nat :
           /\ m = MinutesBetween(session[a].checkIn, c.at)
           /\ n = MinutesBetween(session[a].checkIn, now)
           /\ x = MinutesBetween(break[b].start, c.at)
           /\ y = MinutesBetween(break[b].start, now)
           /\ rest = SumFunction(h)
      BY <1>1, <2>2, <2>7
    <3>1. SumFunction(f) = y + rest /\ SumFunction(g) = x + rest
      BY <1>4, <2>1, <2>3, <2>4, <2>5
    <3>2. m - x <= n - y + 1
      BY <2>8
    <3>3. m - (x + rest) <= n - (y + rest) + 1
      BY <3>2
    <3> QED BY <3>1, <3>3
  <2> QED BY <1>3, <1>8, <2>9
<1> QED BY <1>9, <1>10

\* A step that ends a session: what it records, and that it does nothing else.
LEMMA EndOfOne ==
  ASSUME NEW p, OneAtATime(p), SerialInv(p), IInv', [Next]_vars,
         NEW a \in Sessions, IsOpen(a), IsClosed(a)', OpenBreaksOf(a)' = {}
  PROVE  /\ UNCHANGED now
         /\ session'[a].employee = session[a].employee
         /\ session'[a].checkIn = session[a].checkIn
         /\ session'[a].checkOut # NoTime
         /\ session'[a].workingMinutes
              <= NetMinutes(session[a].checkIn, now, ShownBreakMinutes(a)) + 1
         /\ \A other \in Sessions \ {a} : Untouched(other)
<1>1. /\ p \in Procs /\ TypeOK /\ BreaksWhole /\ Fresh(p)
      /\ session \in [Sessions -> SessionRows] /\ session[a] \in SessionRows
      /\ now \in Nat /\ \A q \in Procs : q = p
      /\ session[a].checkIn \in Int
  BY OneSlot, SerialTypes DEF SerialInv, IInv, TypeOK, Instants
<1>2. session[a].status \in {"checked_in", "on_break"} /\ session'[a].status = "checked_out"
  BY DEF IsOpen, OpenStatuses, IsClosed
<1>3. ASSUME job[p].op \in {"sweep", "checkIn"}, UNCHANGED now,
             NEW c \in job[p].todo, ApplyAutoClosing(c)
      PROVE  /\ session'[a].employee = session[a].employee
             /\ session'[a].checkIn = session[a].checkIn
             /\ session'[a].checkOut # NoTime
             /\ session'[a].workingMinutes
                  <= NetMinutes(session[a].checkIn, now, ShownBreakMinutes(a)) + 1
             /\ \A other \in Sessions \ {a} : Untouched(other)
  <2>1. c \in Closings /\ c.session \in Sessions /\ c.at \in Nat /\ Sweepable(c)
    <3>1. job[p].todo \subseteq Closings
      BY <1>1, <1>3, JobFields
    <3> QED BY <1>1, <1>3, <3>1 DEF Closings, Fresh, Instants
  <2>2. \A other \in Sessions \ {c.session} : Untouched(other)
    BY <1>1, <1>3, SweepInStep
  <2>3. c.session = a
    BY <1>2, <2>2 DEF Untouched
  <2>4. /\ session'[a].employee = session[a].employee
        /\ session'[a].checkIn = session[a].checkIn
        /\ session'[a].checkOut = c.at
        /\ session'[a].workingMinutes = c.workingMinutes
    BY <1>1, <1>3, <2>1, <2>3 DEF ApplyAutoClosing, SessionRows
  <2>5. session[a].checkIn <= c.at /\ c.at <= now
    <3>1. InItsDay(c) /\ NextMidnight(session[a].checkIn) <= now
      BY <1>1, <1>3, <2>3 DEF SerialInv, IInv, ReadsStayTrue, JobFaithful
    <3>2. session[a].checkIn < c.at /\ c.at <= NextMidnight(session[a].checkIn)
      BY <2>3, <3>1 DEF InItsDay
    <3>3. NextMidnight(session[a].checkIn) \in Int
      BY <3>1, DayBounds, <2>3 DEF InItsDay, Instants, SerialInv, IInv, ReadsStayTrue, RowsFaithful
    <3> QED BY <1>1, <2>1, <3>1, <3>2, <3>3
  <2>6. c.workingMinutes <= NetMinutes(session[a].checkIn, now, ShownBreakMinutes(a)) + 1
    <3>1. Sound(a)
      BY DEF SerialInv
    <3> QED BY <1>1, <2>1, <2>3, <2>5, <3>1, ClosingAddsNothing
  <2> QED BY <2>1, <2>2, <2>3, <2>4, <2>6 DEF NoTime
<1>4. CASE CloseStale(p) \/ CheckInCloseStale(p)
  BY <1>3, <1>4 DEF CloseStale, CheckInCloseStale
<1>5. CASE CheckOutWrite(p)
  <2>. PICK e : e = job[p].session
    OBVIOUS
  <2>1. PICK t \in Stamps(p) :
          session' = [session EXCEPT
                        ![e].checkOut = t,
                        ![e].status = "checked_out",
                        ![e].workingMinutes =
                           MinutesBetween(session[e].checkIn, t) - job[p].breakMinutes,
                        ![e].breakMinutes = job[p].breakMinutes]
    BY <1>5 DEF CheckOutWrite
  <2>2. e = a /\ job[p].op = "checkOut" /\ UNCHANGED <<now, break>> /\ job[p].since \in Instants
    <3>1. session'[a] # session[a]
      BY <1>2
    <3> QED BY <1>1, <1>5, <2>1, <3>1, JobFields DEF CheckOutWrite
  <2>3. job[p].breakMinutes = BreakMinutesOf(a) /\ Fits(a, job[p].since)
    BY <1>1, <2>2 DEF Fresh
  <2>4. /\ session'[a].employee = session[a].employee
        /\ session'[a].checkIn = session[a].checkIn
        /\ session'[a].checkOut = t
        /\ session'[a].workingMinutes
             = MinutesBetween(session[a].checkIn, t) - BreakMinutesOf(a)
        /\ \A other \in Sessions \ {a} : session'[other] = session[other]
    BY <1>1, <2>1, <2>2, <2>3 DEF SessionRows
  <2>5. OpenBreaksOf(a) = {}
    BY <2>2 DEF OpenBreaksOf, BreaksOf
  <2>6. ShownBreakMinutes(a) = BreakMinutesOf(a)
    BY <1>1, <2>5, NoOpenBreakShown
  <2>7. t \in Nat /\ job[p].since <= t /\ t <= now /\ job[p].since \in Int
    BY <1>1, <2>2 DEF Stamps, Instants
  <2>8. BreakMinutesOf(a) \in Nat /\ BreakMinutesOf(a) * MinuteTicks \in Nat
    BY <1>1, SerialTypes
  <2>9. session[a].checkIn + BreakMinutesOf(a) * MinuteTicks <= t
    BY <1>1, <2>3, <2>7, <2>8 DEF Fits
  <2>10. session'[a].workingMinutes
           <= NetMinutes(session[a].checkIn, now, ShownBreakMinutes(a))
    <3>1. now \in Int /\ t \in Int
      BY <1>1, <2>7
    <3>2. MinutesBetween(session[a].checkIn, t) - BreakMinutesOf(a)
            <= NetMinutes(session[a].checkIn, now, BreakMinutesOf(a))
      BY <1>1, <2>7, <2>8, <2>9, <3>1, CheckOutAddsNothing
    <3> QED BY <2>4, <2>6, <3>2
  <2>11. /\ session'[a].workingMinutes \in Int
         /\ NetMinutes(session[a].checkIn, now, ShownBreakMinutes(a)) \in Int
    <3>1. session'[a].workingMinutes \in Int
      <4>1. session'[a] \in SessionRows
        BY DEF IInv, TypeOK
      <4> QED BY <4>1 DEF SessionRows
    <3>2. session[a].checkIn \in Int /\ now \in Int
      BY <1>1, SerialTypes
    <3>3. NetMinutes(session[a].checkIn, now, BreakMinutesOf(a)) \in Nat
      BY <2>8, <3>2, NetType
    <3> QED BY <2>6, <3>1, <3>3
  <2>12. \A other \in Sessions \ {a} : Untouched(other)
    BY <2>2, <2>4 DEF Untouched
  <2> QED BY <2>2, <2>4, <2>7, <2>10, <2>11, <2>12 DEF NoTime
<1>6. ~CheckInCreate(p)
  BY <1>1, <1>2 DEF CheckInCreate, Exists, Statuses, NoSession
<1>7. ~CorrectWrite(p)
  <2> SUFFICES ASSUME CorrectWrite(p) PROVE FALSE
    OBVIOUS
  <2>1. session'[a].status = session[a].status
    <3>1. job[p].closing.session \in Sessions
      BY <1>1, JobFields DEF CorrectWrite, Closings
    <3> QED BY <1>1, <3>1 DEF CorrectWrite, SessionRows
  <2> QED BY <1>2, <2>1
<1>8. ~StartBreakFlip(p) /\ ~EndBreakFlip(p)
  BY <1>1, <1>2 DEF StartBreakFlip, EndBreakFlip, SessionRows
<1>9. session' # session
  BY <1>2
<1>10. ~StartBreakInsert(p) /\ ~EndBreakWrite(p) /\ ~UNCHANGED vars
  BY <1>9 DEF StartBreakInsert, EndBreakWrite, vars
<1>11. Step(p)
  BY <1>1, <1>9, <1>10 DEF Next, Tick, ChangeShift, Fail, Sweep, CheckIn, GetStatus, CheckOut,
     StartBreak, EndBreak, CorrectCheckOut
<1>12. UNCHANGED now
  BY <1>6, <1>7, <1>8, <1>10, <1>11 DEF Step, CloseStale, CheckInCloseStale, CheckOutWrite
<1> QED BY <1>4, <1>5, <1>6, <1>7, <1>8, <1>10, <1>11, <1>12 DEF Step

\* When requests run one after the other and none fails, a check-out during no
\* break, or a sweep, adds no more than a lost minute to what the day showed
\* while the session ran (checkOut, autoCheckOutStale; buildPersonDay).
THEOREM EndsAddNoHours ==
  ASSUME NEW p, OneAtATime(p)
  PROVE  Spec => EndAddsNoHours
<1>1. ASSUME HoursInv(p), HoursInv(p)', HoursAreNumbers, HoursAreNumbers', [Next]_vars, NEW a \in Sessions,
             IsOpen(a), session[a].checkOut = NoTime, IsClosed(a)', OpenBreaksOf(a)' = {}
      PROVE  LET e == session[a].employee
                 d == session[a].checkIn \div DayTicks
             IN  WorkedMinutes(e, d)' <= WorkedMinutes(e, d) + 1
  <2> DEFINE e == session[a].employee
             d == session[a].checkIn \div DayTicks
             S == SessionsOf(e, d)
             f == [x \in S |-> ShownMinutes(x)]
             g == [x \in S' |-> ShownMinutes(x)']
  <2>1. TypeOK /\ TypeOK' /\ SerialInv(p) /\ IInv'
    BY <1>1 DEF HoursInv, SerialInv, IInv
  <2>2. /\ UNCHANGED now
        /\ session'[a].employee = session[a].employee
        /\ session'[a].checkIn = session[a].checkIn
        /\ session'[a].checkOut # NoTime
        /\ session'[a].workingMinutes
             <= NetMinutes(session[a].checkIn, now, ShownBreakMinutes(a)) + 1
        /\ \A other \in Sessions \ {a} : Untouched(other)
    BY <1>1, <2>1, EndOfOne
  <2>3. Exists(a) /\ Exists(a)'
    BY <1>1 DEF IsOpen, IsClosed, Exists, OpenStatuses, Statuses
  <2>4. S' = S
    <3>1. \A x \in Sessions : /\ Exists(x)' <=> Exists(x)
                              /\ session'[x].employee = session[x].employee
                              /\ session'[x].checkIn = session[x].checkIn
      BY <2>2, <2>3 DEF Untouched, Exists
    <3> QED BY <2>2, <3>1 DEF SessionsOf
  <2>5. a \in S /\ S \subseteq Sessions
    BY <2>3 DEF SessionsOf
  <2>6. IsFiniteSet(S)
    <3>1. S \subseteq {x \in Sessions : Exists(x)}
      BY DEF SessionsOf
    <3> HIDE DEF S
    <3> QED BY <1>1, <3>1, FS_Subset DEF HoursInv, SessionsFinite
  <2>7. \A x \in Sessions : ShownMinutes(x) \in Nat /\ ShownMinutes(x)' \in Nat
    BY <1>1 DEF HoursAreNumbers
  <2>8. \A x \in Sessions \ {a} : ShownMinutes(x)' = ShownMinutes(x)
    BY <2>2, UntouchedShown
  <2>9. ShownMinutes(a)' <= ShownMinutes(a) + 1
    BY <1>1, <2>2 DEF ShownMinutes
  <2>10. WorkedMinutes(e, d) = SumFunction(f) /\ WorkedMinutes(e, d)' = SumFunction(g)
    BY DEF WorkedMinutes
  <2>11. /\ DOMAIN f = S /\ DOMAIN g = S
         /\ \A x \in S : f[x] \in Nat /\ g[x] \in Nat
         /\ \A x \in S \ {a} : f[x] = g[x]
         /\ g[a] <= f[a] + 1
    BY <2>4, <2>5, <2>7, <2>8, <2>9
  <2> HIDE DEF f, g, S
  <2> DEFINE others == S \ {a}
             h == [x \in others |-> f[x]]
             k == [x \in others |-> g[x]]
  <2>12. h = k /\ DOMAIN h = others /\ \A x \in DOMAIN h : h[x] \in Nat
    BY <2>11
  <2>13. SumFunction(f) = f[a] + SumFunction(h)
    BY <2>5, <2>6, <2>11, SumSplits
  <2>14. SumFunction(g) = g[a] + SumFunction(k)
    BY <2>5, <2>6, <2>11, SumSplits
  <2>15. IsFiniteSet(others)
    BY <2>6, FS_Subset
  <2> HIDE DEF others, h, k
  <2>16. SumFunction(h) \in Nat
    BY <2>12, <2>15, SumOfNaturals
  <2>17. SumFunction(g) <= SumFunction(f) + 1
    BY <2>5, <2>11, <2>12, <2>13, <2>14, <2>16
  <2> QED BY <2>10, <2>17
<1>2. HoursInv(p) => HoursAreNumbers
  BY ShownType DEF HoursInv, SerialInv, IInv, HoursAreNumbers
<1>3. HoursInv(p) /\ HoursInv(p)' /\ HoursAreNumbers /\ HoursAreNumbers' /\ [Next]_vars
        => [\A a \in Sessions :
              /\ IsOpen(a) /\ session[a].checkOut = NoTime
              /\ IsClosed(a)' /\ OpenBreaksOf(a)' = {}
              => LET e == session[a].employee
                     d == session[a].checkIn \div DayTicks
                 IN  WorkedMinutes(e, d)' <= WorkedMinutes(e, d) + 1]_vars
  BY <1>1
<1> QED BY <1>2, <1>3, HoursInductive, PTL DEF Spec, EndAddsNoHours
=============================================================================
