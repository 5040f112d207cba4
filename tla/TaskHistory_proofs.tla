------------------------- MODULE TaskHistory_proofs -------------------------
(***************************************************************************)
(* For any number of people, tasks and fields, and whatever overlaps: the  *)
(* log of a task joins up except where an edit has put back what changed   *)
(* behind its back, and only who may correct a task gets into it.          *)
(***************************************************************************)
EXTENDS TaskHistory, WellFoundedInduction, TLAPS

LEMMA JobKinds ==
  ASSUME TypeOK, NEW p \in Requests
  PROVE  /\ job[p] = Idle \/ job[p].op \in {"rule", "write"}
         /\ job[p].op = "rule" =>
              job[p] \in [op : {"rule"}, user : Users, task : Tasks, input : Inputs,
                          read : Rows]
         /\ job[p].op = "write" =>
              job[p] \in [op : {"write"}, user : Users, task : Tasks, read : Rows,
                          next : Rows, changes : ChangeSets, decided : Nat]
BY DEF TypeOK, Jobs, Idle

\* Reading a job's row and input gives a whole row and a set of changes.
LEMMA CorrectedIsRow ==
  ASSUME NEW j, j.input \in Inputs, j.read \in Rows
  PROVE  /\ Corrected(j) \in Rows
         /\ Changes(j) \in ChangeSets
         /\ DOMAIN Changes(j) = {f \in Fields : Corrected(j)[f] # j.read[f]}
         /\ \A f \in DOMAIN Changes(j) :
              Changes(j)[f] = [before |-> j.read[f], after |-> Corrected(j)[f]]
<1>1. PICK fields \in SUBSET Fields : j.input \in [fields -> Values]
  BY DEF Inputs
<1>2. \A f \in Fields : f \in DOMAIN j.input => j.input[f] \in Values
  BY <1>1
<1>3. \A f \in Fields : j.read[f] \in Values
  BY DEF Rows
<1>4. Corrected(j) \in Rows
  BY <1>2, <1>3 DEF Corrected, Rows
<1> DEFINE D == {f \in Fields : Corrected(j)[f] # j.read[f]}
<1>5. Changes(j) = [f \in D |-> [before |-> j.read[f], after |-> Corrected(j)[f]]]
  BY DEF Changes
<1>6. Changes(j) \in [D -> [before : Values, after : Values]]
  BY <1>3, <1>4, <1>5 DEF Rows
<1>7. Changes(j) \in ChangeSets
  BY <1>6 DEF ChangeSets
<1> QED BY <1>4, <1>5, <1>7

-----------------------------------------------------------------------------
(* Types *)

LEMMA TypeInit == Init => TypeOK
BY HistoryAssumption DEF Init, TypeOK, Jobs, Rows, Base

\* One step of editTask.
LEMMA TypeEdit ==
  ASSUME TypeOK, NEW p \in Requests, NEW u \in Users, NEW t \in Tasks,
         NEW input \in Inputs, EditTask(p, u, t, input)
  PROVE  TypeOK'
<1>1. job'[p] \in Jobs /\ \A q \in Requests : q # p => job'[q] = job[q]
  BY DEF EditTask, Proceed, TypeOK, Jobs
<1>2. job' = [job EXCEPT ![p] = job'[p]]
  BY DEF EditTask, Proceed, TypeOK
<1>3. job' \in [Requests -> Jobs]
  BY <1>1, <1>2 DEF TypeOK
<1> QED BY <1>3 DEF EditTask, TypeOK

LEMMA TypeDecide ==
  ASSUME TypeOK, NEW p \in Requests, Decide(p)
  PROVE  TypeOK'
<1>1. job[p].input \in Inputs /\ job[p].read \in Rows /\ job[p].user \in Users
        /\ job[p].task \in Tasks
  BY JobKinds DEF Decide
<1>2. Corrected(job[p]) \in Rows /\ Changes(job[p]) \in ChangeSets
  BY <1>1, CorrectedIsRow
<1>3. Idle \in Jobs
        /\ [op |-> "write", user |-> job[p].user, task |-> job[p].task,
            read |-> job[p].read, next |-> Corrected(job[p]),
            changes |-> Changes(job[p]), decided |-> today] \in Jobs
  BY <1>1, <1>2 DEF TypeOK, Jobs
<1>4. job' \in [Requests -> Jobs]
  BY <1>3 DEF Decide, Proceed, TypeOK
<1> QED BY <1>4 DEF Decide, TypeOK

LEMMA TypeWrite ==
  ASSUME TypeOK, NEW p \in Requests, Write(p)
  PROVE  TypeOK'
<1> DEFINE j == job[p]
           e == [by |-> j.user, changes |-> j.changes, decided |-> j.decided]
           E == [by : Users, changes : ChangeSets, decided : Nat]
<1>1. j.task \in Tasks /\ j.next \in Rows /\ e \in E
  BY JobKinds DEF Write
<1>2. edits[j.task] \in Seq(E)
  BY <1>1 DEF TypeOK
<1>3. Append(edits[j.task], e) \in Seq(E)
  BY <1>1, <1>2
<1>4. edits' \in [Tasks -> Seq(E)] /\ value' \in [Tasks -> Rows]
  BY <1>1, <1>3 DEF Write, TypeOK
<1>5. job' \in [Requests -> Jobs]
  BY DEF Write, Proceed, TypeOK, Jobs
<1>6. base' \in [Tasks -> [row : Rows, entries : Nat, lost : SUBSET Fields]]
  <2>1. base' \in {base, [base EXCEPT ![j.task].lost = @ \cup Overtaken(j)]}
    BY DEF Write
  <2>2. Overtaken(j) \subseteq Fields
    BY DEF Overtaken
  <2>3. base[j.task] \in [row : Rows, entries : Nat, lost : SUBSET Fields]
    BY <1>1 DEF TypeOK
  <2>4. [base[j.task] EXCEPT !.lost = base[j.task].lost \cup Overtaken(j)]
          \in [row : Rows, entries : Nat, lost : SUBSET Fields]
    BY <2>2, <2>3
  <2> QED BY <1>1, <2>1, <2>4 DEF TypeOK
<1> QED BY <1>4, <1>5, <1>6 DEF Write, TypeOK

LEMMA TypeNext == TypeOK /\ [Next]_vars => TypeOK'
<1> SUFFICES ASSUME TypeOK, [Next]_vars PROVE TypeOK'
  OBVIOUS
<1>1. CASE Tick
  <2>1. today' \in Nat
    BY <1>1 DEF Tick, TypeOK
  <2>2. UNCHANGED <<reports, led, state, day, value, edits, base, job>>
    BY <1>1 DEF Tick
  <2> QED BY <2>1, <2>2 DEF TypeOK
<1>2. ASSUME NEW u \in Users, Reorganise(u) PROVE TypeOK'
  <2>1. reports' \in [Users -> SUBSET Users] /\ led' \in [Users -> SUBSET Users]
    BY <1>2 DEF Reorganise, TypeOK
  <2>2. UNCHANGED <<today, state, day, value, edits, base, job>>
    BY <1>2 DEF Reorganise
  <2> QED BY <2>1, <2>2 DEF TypeOK
<1>3. ASSUME NEW u \in Users, NEW d \in 0 .. today, NEW new \in SUBSET Tasks,
             SavePlan(u, d, new)
      PROVE  TypeOK'
  <2>1. d \in Nat
    BY DEF TypeOK
  <2>2. day' \in [Tasks -> Nat] /\ value' \in [Tasks -> Rows]
    BY <1>3, <2>1, HistoryAssumption DEF SavePlan, TypeOK
  <2>3. state' \in [Tasks -> {"unused", "live", "deleted"}]
    BY <1>3 DEF SavePlan, TypeOK
  <2>4. edits' \in [Tasks -> Seq([by : Users, changes : ChangeSets, decided : Nat])]
    <3> DEFINE E == [by : Users, changes : ChangeSets, decided : Nat]
    <3>1. edits \in [Tasks -> Seq(E)]
      BY DEF TypeOK
    <3>2. edits' = [t \in Tasks |-> IF t \in DayOf(u, d) THEN <<>> ELSE edits[t]]
      BY <1>3 DEF SavePlan
    <3> HIDE DEF E
    <3>3. <<>> \in Seq(E)
      OBVIOUS
    <3> QED BY <3>1, <3>2, <3>3 DEF E
  <2>5. UNCHANGED <<today, reports, led, job>>
    BY <1>3 DEF SavePlan
  <2>6. base' \in [Tasks -> [row : Rows, entries : Nat, lost : SUBSET Fields]]
    BY <1>3, HistoryAssumption DEF SavePlan, TypeOK, Base
  <2> QED BY <2>2, <2>3, <2>4, <2>5, <2>6 DEF TypeOK
<1>4. ASSUME NEW t \in Tasks, NEW v \in Rows, Progress(t, v) PROVE TypeOK'
  <2>1. base' \in [Tasks -> [row : Rows, entries : Nat, lost : SUBSET Fields]]
    BY <1>4 DEF Progress, TypeOK, Base
  <2>2. value' \in [Tasks -> Rows]
    BY <1>4 DEF Progress, TypeOK
  <2> QED BY <1>4, <2>1, <2>2 DEF Progress, TypeOK
<1>5. CASE UNCHANGED vars
  BY <1>5 DEF vars, TypeOK
<1> QED BY <1>1, <1>2, <1>3, <1>4, <1>5, TypeEdit, TypeDecide, TypeWrite DEF Next

\* The type invariant of the tasks, their log and the edits in flight.
THEOREM TypeCorrect == Spec => []TypeOK
BY TypeInit, TypeNext, PTL DEF Spec

-----------------------------------------------------------------------------
(* Who gets into the log *)

\* An edit on its way to the log is of a task that existed, and was decided by
\* the rule.
Entitled(u, t, on) ==
  \/ u \in Admins
  \/ u = Owner[t] /\ on <= day[t] + SelfEditDays
  \/ Owner[t] \in led[u]

EntitledInv ==
  /\ TypeOK
  /\ \A u \in Users : reports[u] \subseteq led[u]
  /\ \A p \in Requests : job[p] # Idle => state[job[p].task] # "unused"
  /\ \A p \in Requests :
       job[p].op = "write" => Entitled(job[p].user, job[p].task, job[p].decided)

LEMMA EntitledInit == Init => EntitledInv
<1> SUFFICES ASSUME Init PROVE EntitledInv
  OBVIOUS
<1>1. TypeOK
  BY TypeInit
<1>2. \A p \in Requests : job[p] = Idle /\ job[p].op # "write"
  BY DEF Init, Idle
<1>3. \A u \in Users : reports[u] \subseteq led[u]
  BY DEF Init
<1> QED BY <1>1, <1>2, <1>3 DEF EntitledInv

\* A job that stays as it is keeps what it was entitled to when its task's day
\* stays and nobody who has led the person is forgotten.
LEMMA EntitledStays ==
  ASSUME EntitledInv, TypeOK', UNCHANGED job,
         \A t \in Tasks : state[t] # "unused" => day'[t] = day[t] /\ state'[t] # "unused",
         \A u \in Users : led[u] \subseteq led'[u] /\ reports'[u] \subseteq led'[u]
  PROVE  EntitledInv'
<1>1. ASSUME NEW p \in Requests, job[p] # Idle
      PROVE  /\ job[p].task \in Tasks /\ job[p].user \in Users
             /\ state[job[p].task] # "unused"
  BY <1>1, JobKinds DEF EntitledInv
<1>2. \A p \in Requests : job[p].op = "write" => job[p] # Idle
  BY DEF Idle
<1>3. ASSUME NEW p \in Requests, job'[p].op = "write"
      PROVE  Entitled(job[p].user, job[p].task, job[p].decided)'
  BY <1>1, <1>2, <1>3 DEF EntitledInv, Entitled
<1> QED BY <1>1, <1>3 DEF EntitledInv

LEMMA EntitledNext == EntitledInv /\ [Next]_vars => EntitledInv'
<1> SUFFICES ASSUME EntitledInv, [Next]_vars PROVE EntitledInv'
  OBVIOUS
<1>t. TypeOK /\ TypeOK'
  BY TypeNext DEF EntitledInv
<1>w. \A p \in Requests : job[p].op \in {"rule", "write"} => job[p] # Idle
  BY DEF Idle
<1>1. CASE Tick
  BY <1>1, <1>t, EntitledStays DEF Tick, EntitledInv
<1>2. ASSUME NEW u \in Users, Reorganise(u) PROVE EntitledInv'
  <2>1. \A v \in Users : led[v] \subseteq led'[v] /\ reports'[v] \subseteq led'[v]
    BY <1>2 DEF Reorganise, EntitledInv, TypeOK
  <2> QED BY <1>2, <1>t, <2>1, EntitledStays DEF Reorganise
<1>3. ASSUME NEW u \in Users, NEW d \in 0 .. today, NEW new \in SUBSET Tasks,
             SavePlan(u, d, new)
      PROVE  EntitledInv'
  <2>1. \A t \in Tasks : state[t] # "unused" => day'[t] = day[t] /\ state'[t] # "unused"
    BY <1>3 DEF SavePlan
  <2>2. UNCHANGED <<reports, led, job>>
    BY <1>3 DEF SavePlan
  <2> QED BY <1>t, <2>1, <2>2, EntitledStays DEF EntitledInv
<1>4. ASSUME NEW t \in Tasks, NEW v \in Rows, Progress(t, v) PROVE EntitledInv'
  BY <1>4, <1>t, EntitledStays DEF Progress, EntitledInv
<1>5. ASSUME NEW p \in Requests, NEW u \in Users, NEW t \in Tasks,
             NEW input \in Inputs, EditTask(p, u, t, input)
      PROVE  EntitledInv'
  <2>1. job'[p].op = "rule" /\ job'[p].task = t /\ state[t] = "live"
    BY <1>5, <1>t DEF EditTask, Proceed, TypeOK, Live
  <2>2. \A q \in Requests : q # p => job'[q] = job[q]
    BY <1>5, <1>t DEF EditTask, Proceed, TypeOK
  <2>3. UNCHANGED <<reports, led, state, day>>
    BY <1>5 DEF EditTask
  <2> QED BY <1>t, <2>1, <2>2, <2>3 DEF EntitledInv, Entitled
<1>6. ASSUME NEW p \in Requests, Decide(p) PROVE EntitledInv'
  <2> DEFINE j == job[p]
  <2>1. j # Idle /\ j.user \in Users /\ j.task \in Tasks
    BY <1>6, <1>t, <1>w, JobKinds DEF Decide
  <2>2. \A q \in Requests : q # p => job'[q] = job[q]
    BY <1>6, <1>t DEF Decide, Proceed, TypeOK
  <2>3. UNCHANGED <<reports, led, state, day>>
    BY <1>6 DEF Decide
  <2>4. \/ job'[p] = Idle
        \/ /\ job'[p].op = "write" /\ job'[p].user = j.user /\ job'[p].task = j.task
           /\ job'[p].decided = today /\ CanEdit(j.user, j.task)
    BY <1>6, <1>t DEF Decide, Proceed, TypeOK
  <2>5. CanEdit(j.user, j.task) => Entitled(j.user, j.task, today)
    BY <2>1, <1>t DEF CanEdit, Entitled, EntitledInv, TypeOK
  <2>6. job'[p].op = "write" => Entitled(job'[p].user, job'[p].task, job'[p].decided)
    BY <2>4, <2>5 DEF Idle
  <2>7. job'[p] # Idle => state[job'[p].task] # "unused"
    BY <2>1, <2>4 DEF EntitledInv
  <2> QED BY <1>t, <2>2, <2>3, <2>6, <2>7 DEF EntitledInv, Entitled
<1>7. ASSUME NEW p \in Requests, Write(p) PROVE EntitledInv'
  <2>1. job'[p] = Idle /\ \A q \in Requests : q # p => job'[q] = job[q]
    BY <1>7, <1>t DEF Write, Proceed, TypeOK
  <2>2. UNCHANGED <<reports, led, state, day>>
    BY <1>7 DEF Write
  <2> QED BY <1>t, <2>1, <2>2 DEF EntitledInv, Entitled, Idle
<1>8. CASE UNCHANGED vars
  BY <1>8, <1>t, EntitledStays DEF vars, EntitledInv
<1> QED BY <1>1, <1>2, <1>3, <1>4, <1>5, <1>6, <1>7, <1>8 DEF Next

-----------------------------------------------------------------------------
(* What a step adds to the log *)

LEMMA OnlyWriteLogs ==
  ASSUME TypeOK, [Next]_vars, NEW t \in Tasks, Logged(t)
  PROVE  \E p \in Requests :
           /\ job[p].op = "write" /\ job[p].task = t /\ Live(t)
           /\ value' = [value EXCEPT ![t] = job[p].next]
           /\ Entry(t) = [by |-> job[p].user, changes |-> job[p].changes,
                          decided |-> job[p].decided]
<1>1. Len(edits[t]) \in Nat
  BY DEF TypeOK
<1>2. ASSUME UNCHANGED edits PROVE FALSE
  BY <1>1, <1>2 DEF Logged
<1>3. ASSUME NEW u \in Users, NEW d \in 0 .. today, NEW new \in SUBSET Tasks,
             SavePlan(u, d, new)
      PROVE  FALSE
  <2>1. edits'[t] = <<>> \/ edits'[t] = edits[t]
    BY <1>3 DEF SavePlan
  <2>2. Len(<<>>) = 0
    OBVIOUS
  <2> QED BY <1>1, <2>1, <2>2 DEF Logged
<1>4. PICK p \in Requests : Write(p)
  BY <1>2, <1>3 DEF Next, vars, Tick, Reorganise, Progress, EditTask, Decide
<1> DEFINE j == job[p]
           e == [by |-> j.user, changes |-> j.changes, decided |-> j.decided]
<1>5. j.op = "write" /\ j.task \in Tasks
  BY <1>4, JobKinds DEF Write
<1>6. Live(j.task) /\ edits' = [edits EXCEPT ![j.task] = Append(@, e)]
        /\ value' = [value EXCEPT ![j.task] = j.next]
  BY <1>2, <1>4 DEF Write
<1>7. j.task = t
  <2>1. SUFFICES ASSUME j.task # t PROVE FALSE
    OBVIOUS
  <2>2. edits'[t] = edits[t]
    BY <1>6, <2>1 DEF TypeOK
  <2> QED BY <1>1, <2>2 DEF Logged
<1>8. edits'[t] = Append(edits[t], e)
  BY <1>6, <1>7 DEF TypeOK
<1>9. edits[t] \in Seq([by : Users, changes : ChangeSets, decided : Nat])
  BY DEF TypeOK
<1>10. e \in [by : Users, changes : ChangeSets, decided : Nat]
  BY <1>5, JobKinds
<1>11. Entry(t) = e
  BY <1>8, <1>9, <1>10 DEF Entry
<1> QED BY <1>5, <1>6, <1>7, <1>11

\* Whatever overlaps, and however late an edit is written: only administrators,
\* those who have led the person and, for SELF_EDIT_DAYS, the person get into
\* the log.
THEOREM OnlyTheEntitledEdit == Spec => SelfServiceEnds
<1>1. ASSUME EntitledInv, [Next]_vars, NEW t \in Tasks, Logged(t)
      PROVE  LET e == Entry(t)
             IN  \/ e.by \in Admins
                 \/ e.by = Owner[t] /\ e.decided <= day[t] + SelfEditDays
                 \/ Owner[t] \in led[e.by]
  <2>1. TypeOK
    BY <1>1 DEF EntitledInv
  <2>2. PICK p \in Requests :
           /\ job[p].op = "write" /\ job[p].task = t
           /\ Entry(t) = [by |-> job[p].user, changes |-> job[p].changes,
                          decided |-> job[p].decided]
    BY <1>1, <2>1, OnlyWriteLogs
  <2>3. Entitled(job[p].user, t, job[p].decided)
    BY <1>1, <2>2 DEF EntitledInv
  <2> QED BY <2>2, <2>3 DEF Entitled
<1>2. EntitledInv /\ [Next]_vars
        => [\A t \in Tasks :
              Logged(t) => LET e == Entry(t)
                           IN  \/ e.by \in Admins
                               \/ e.by = Owner[t] /\ e.decided <= day[t] + SelfEditDays
                               \/ Owner[t] \in led[e.by]]_vars
  BY <1>1
<1> QED BY EntitledInit, EntitledNext, <1>2, PTL DEF Spec, SelfServiceEnds

-----------------------------------------------------------------------------
(* What the log says *)

\* The entries after the first ones of b, and not after the n-th, that name f.
Naming(log, b, f, n) == {i \in (b.entries + 1) .. n : f \in DOMAIN log[i].changes}

LEMMA MaxIsThere ==
  ASSUME NEW n \in Nat, NEW S \in SUBSET (0 .. n), S # {}
  PROVE  Max(S) \in S
<1> DEFINE T == {m \in Nat : \A y \in S : m >= y}
           R == OpToRel(<, Nat)
<1>1. n \in T
  OBVIOUS
<1>2. PICK m \in T : \A k \in T : ~ (<<k, m>> \in R)
  <2>1. IsWellFoundedOn(R, Nat)
    BY NatLessThanWellFounded
  <2> HIDE DEF R
  <2> QED BY <1>1, <2>1, WFMin
<1>3. \A k \in T : ~ (k < m)
  BY <1>2 DEF OpToRel
<1> HIDE DEF R
<1>4. m \in Nat /\ \A y \in S : y \in Nat /\ m >= y
  OBVIOUS
<1> HIDE DEF T
<1>5. m \in S
  <2> SUFFICES ASSUME m \notin S PROVE FALSE
    OBVIOUS
  <2>1. \A y \in S : m > y
    BY <1>4
  <2>2. PICK y \in S : TRUE
    OBVIOUS
  <2>3. m - 1 \in Nat /\ \A x \in S : m - 1 >= x
    BY <1>4, <2>1, <2>2
  <2>4. m - 1 \in T
    BY <2>3 DEF T
  <2> QED BY <1>3, <1>4, <2>4
<1> QED BY <1>4, <1>5 DEF Max

\* One entry more.
LEMMA ToldOfLast ==
  ASSUME NEW log, NEW b, NEW f, NEW n \in Nat, b.entries \in Nat, b.entries <= n
  PROVE  Told(log, b, f, n + 1) =
           IF f \in DOMAIN log[n + 1].changes
           THEN log[n + 1].changes[f].after
           ELSE Told(log, b, f, n)
<1> DEFINE N == Naming(log, b, f, n)
           M == Naming(log, b, f, n + 1)
<1>1. CASE f \in DOMAIN log[n + 1].changes
  <2>1. n + 1 \in M /\ \A i \in M : i \in Int /\ i <= n + 1
    BY <1>1 DEF Naming
  <2>2. Max(M) = n + 1
    <3> HIDE DEF M
    <3> QED BY <2>1 DEF Max
  <2> QED BY <1>1, <2>1, <2>2 DEF Told, Naming
<1>2. CASE f \notin DOMAIN log[n + 1].changes
  <2>1. M = N
    BY <1>2 DEF Naming
  <2> QED BY <1>2, <2>1 DEF Told, Naming
<1> QED BY <1>1, <1>2

\* What the first n entries tell is not changed by what comes after them.
LEMMA ToldOfPrefix ==
  ASSUME NEW log, NEW more, NEW b, NEW f, NEW n \in Nat, b.entries \in Nat,
         \A i \in 1 .. n : more[i] = log[i]
  PROVE  Told(more, b, f, n) = Told(log, b, f, n)
<1> DEFINE N == Naming(log, b, f, n)
<1>1. Naming(more, b, f, n) = N
  BY DEF Naming
<1>2. N \subseteq 1 .. n /\ N \subseteq 0 .. n
  BY DEF Naming
<1>3. CASE N = {}
  BY <1>1, <1>3 DEF Told, Naming
<1>4. CASE N # {}
  <2>1. Max(N) \in N
    BY <1>2, <1>4, MaxIsThere
  <2>2. more[Max(N)] = log[Max(N)]
    BY <1>2, <2>1
  <2> QED BY <1>1, <1>4, <2>2 DEF Told, Naming
<1> QED BY <1>3, <1>4

\* No entry has been written since.
LEMMA ToldOfNone ==
  ASSUME NEW log, NEW b, NEW f, b.entries \in Nat
  PROVE  Told(log, b, f, b.entries) = b.row[f]
<1>1. Naming(log, b, f, b.entries) = {}
  BY DEF Naming
<1> QED BY <1>1 DEF Told, Naming

\* The log of one task, and one field of it.
Joined(log, b, f, now) ==
  /\ now = Told(log, b, f, Len(log))
  /\ \A i \in (b.entries + 1) .. Len(log) :
       f \in DOMAIN log[i].changes
         => log[i].changes[f].before = Told(log, b, f, i - 1)

\* An entry that begins where the others have left off, and ends with the value
\* the row now has, joins the log.
LEMMA EntryJoins ==
  ASSUME NEW E, NEW log \in Seq(E), NEW e \in E, NEW b, NEW f, NEW now, NEW next,
         b.entries \in Nat, b.entries <= Len(log), Joined(log, b, f, now),
         IF f \in DOMAIN e.changes
         THEN e.changes[f] = [before |-> now, after |-> next]
         ELSE next = now
  PROVE  Joined(Append(log, e), b, f, next)
<1> DEFINE more == Append(log, e)
           n == Len(log)
<1>1. /\ n \in Nat /\ Len(more) = n + 1 /\ more[n + 1] = e
      /\ \A i \in 1 .. n : more[i] = log[i]
  OBVIOUS
<1> HIDE DEF more, n
<1>2. \A m \in 0 .. n : Told(more, b, f, m) = Told(log, b, f, m)
  <2> SUFFICES ASSUME NEW m \in 0 .. n
               PROVE  Told(more, b, f, m) = Told(log, b, f, m)
    OBVIOUS
  <2>1. m \in Nat /\ \A i \in 1 .. m : more[i] = log[i]
    BY <1>1
  <2> QED BY <2>1, ToldOfPrefix
<1>3. now = Told(more, b, f, n)
  BY <1>1, <1>2 DEF Joined, n
<1>4. next = Told(more, b, f, n + 1)
  <2>1. Told(more, b, f, n + 1) = IF f \in DOMAIN more[n + 1].changes
                                  THEN more[n + 1].changes[f].after
                                  ELSE Told(more, b, f, n)
    BY <1>1, ToldOfLast DEF n
  <2> QED BY <1>1, <1>3, <2>1
<1>5. ASSUME NEW i \in (b.entries + 1) .. (n + 1), f \in DOMAIN more[i].changes
      PROVE  more[i].changes[f].before = Told(more, b, f, i - 1)
  <2>1. CASE i = n + 1
    BY <1>1, <1>3, <1>5, <2>1
  <2>2. CASE i # n + 1
    <3>1. i \in (b.entries + 1) .. n /\ i \in 1 .. n /\ i - 1 \in 0 .. n
      BY <1>1, <2>2
    <3>2. more[i] = log[i] /\ Told(more, b, f, i - 1) = Told(log, b, f, i - 1)
      BY <1>1, <1>2, <3>1
    <3>3. log[i].changes[f].before = Told(log, b, f, i - 1)
      BY <1>5, <3>1, <3>2 DEF Joined, n
    <3> QED BY <3>2, <3>3
  <2> QED BY <2>1, <2>2
<1>6. Joined(more, b, f, next)
  BY <1>1, <1>4, <1>5 DEF Joined
<1> QED BY <1>6 DEF more

\* A row that has just been put there has nothing to join.
LEMMA NothingToJoin ==
  ASSUME NEW log, NEW row, NEW f, Len(log) \in Nat
  PROVE  Joined(log, Base(row, Len(log)), f, row[f])
<1> DEFINE b == Base(row, Len(log))
<1>1. b.entries = Len(log) /\ b.row = row
  BY DEF Base
<1> HIDE DEF b
<1>2. Told(log, b, f, Len(log)) = row[f]
  BY <1>1, ToldOfNone
<1>3. (b.entries + 1) .. Len(log) = {}
  BY <1>1
<1>4. Joined(log, b, f, row[f])
  BY <1>2, <1>3 DEF Joined
<1> QED BY <1>4 DEF b

\* The log joins up, a row that does not exist yet has none, and an edit on its way
\* to the log changes what its entry says, from what it has read.
JoinedInv ==
  /\ TypeOK
  /\ \A t \in Tasks :
       /\ state[t] = "unused" => edits[t] = <<>>
       /\ base[t].entries <= Len(edits[t])
       /\ \A f \in Fields \ base[t].lost : Joined(edits[t], base[t], f, value[t][f])
  /\ \A p \in Requests :
       job[p].op = "write" =>
         \A f \in Fields :
           IF f \in DOMAIN job[p].changes
           THEN job[p].changes[f] = [before |-> job[p].read[f],
                                     after |-> job[p].next[f]]
           ELSE job[p].next[f] = job[p].read[f]

LEMMA JoinedInit == Init => JoinedInv
<1> SUFFICES ASSUME Init PROVE JoinedInv
  OBVIOUS
<1>1. TypeOK
  BY TypeInit
<1>2. \A p \in Requests : job[p].op # "write"
  BY DEF Init, Idle
<1>3. ASSUME NEW t \in Tasks, NEW f \in Fields
      PROVE  Joined(edits[t], base[t], f, value[t][f])
  <2>1. edits[t] = <<>> /\ value[t] = Blank /\ base[t] = Base(Blank, Len(edits[t]))
    BY DEF Init
  <2>2. Len(edits[t]) \in Nat
    BY <2>1
  <2> QED BY <2>1, <2>2, NothingToJoin
<1>4. \A t \in Tasks : edits[t] = <<>> /\ base[t].entries <= Len(edits[t])
  BY DEF Init, Base
<1> QED BY <1>1, <1>2, <1>3, <1>4 DEF JoinedInv

LEMMA JoinedNext == JoinedInv /\ [Next]_vars => JoinedInv'
<1> SUFFICES ASSUME JoinedInv, [Next]_vars PROVE JoinedInv'
  OBVIOUS
<1>t. TypeOK /\ TypeOK'
  BY TypeNext DEF JoinedInv
<1>l. \A t \in Tasks : Len(edits[t]) \in Nat
  BY <1>t DEF TypeOK
<1>1. CASE UNCHANGED <<state, value, edits, base, job>>
  BY <1>1, <1>t DEF JoinedInv
<1>2. ASSUME NEW u \in Users, NEW d \in 0 .. today, NEW new \in SUBSET Tasks,
             SavePlan(u, d, new)
      PROVE  JoinedInv'
  <2>1. job' = job
    BY <1>2 DEF SavePlan
  <2>2. ASSUME NEW t \in Tasks
        PROVE  /\ state'[t] = "unused" => edits'[t] = <<>>
               /\ base'[t].entries <= Len(edits'[t])
               /\ \A f \in Fields \ base'[t].lost :
                    Joined(edits'[t], base'[t], f, value'[t][f])
    <3>1. CASE t \in DayOf(u, d) \cup new
      <4>1. edits'[t] = <<>>
        BY <1>2, <3>1 DEF SavePlan, JoinedInv
      <4>2. Len(edits'[t]) = 0
        BY <4>1
      <4>3. value'[t] = Blank /\ base'[t] = Base(Blank, 0)
        BY <1>2, <3>1 DEF SavePlan
      <4>4. base'[t].entries = 0
        BY <4>3 DEF Base
      <4>5. ASSUME NEW f \in Fields
            PROVE  Joined(edits'[t], base'[t], f, value'[t][f])
        <5>1. Len(<<>>) = 0
          OBVIOUS
        <5>2. Joined(<<>>, Base(Blank, Len(<<>>)), f, Blank[f])
          BY <5>1, NothingToJoin
        <5> QED BY <4>1, <4>3, <5>1, <5>2
      <4> QED BY <4>1, <4>2, <4>4, <4>5
    <3>2. CASE t \notin DayOf(u, d) \cup new
      BY <1>2, <3>2 DEF SavePlan, JoinedInv
    <3> QED BY <3>1, <3>2
  <2> QED BY <1>t, <2>1, <2>2 DEF JoinedInv
<1>3. ASSUME NEW t \in Tasks, NEW v \in Rows, Progress(t, v) PROVE JoinedInv'
  <2>1. UNCHANGED <<state, edits, job>>
    BY <1>3 DEF Progress
  <2>2. value'[t] = v /\ base'[t] = Base(v, Len(edits[t]))
    BY <1>3, <1>t DEF Progress, TypeOK
  <2>3. \A s \in Tasks : s # t => value'[s] = value[s] /\ base'[s] = base[s]
    BY <1>3, <1>t DEF Progress, TypeOK
  <2>4. base'[t].entries <= Len(edits[t])
    BY <1>l, <2>2 DEF Base
  <2>5. \A f \in Fields : Joined(edits[t], base'[t], f, value'[t][f])
    BY <1>l, <2>2, NothingToJoin
  <2>6. ASSUME NEW s \in Tasks
        PROVE  /\ state[s] = "unused" => edits[s] = <<>>
               /\ base'[s].entries <= Len(edits[s])
               /\ \A f \in Fields \ base'[s].lost :
                    Joined(edits[s], base'[s], f, value'[s][f])
    <3>1. CASE s = t
      BY <2>4, <2>5, <3>1 DEF JoinedInv
    <3>2. CASE s # t
      BY <2>3, <3>2 DEF JoinedInv
    <3> QED BY <3>1, <3>2
  <2> QED BY <1>t, <2>1, <2>6 DEF JoinedInv
<1>4. ASSUME NEW p \in Requests, NEW u \in Users, NEW t \in Tasks,
             NEW input \in Inputs, EditTask(p, u, t, input)
      PROVE  JoinedInv'
  <2>1. job'[p].op = "rule" /\ \A q \in Requests : q # p => job'[q] = job[q]
    BY <1>4, <1>t DEF EditTask, Proceed, TypeOK
  <2>2. UNCHANGED <<state, value, edits, base>>
    BY <1>4 DEF EditTask
  <2> QED BY <1>t, <2>1, <2>2 DEF JoinedInv
<1>5. ASSUME NEW p \in Requests, Decide(p) PROVE JoinedInv'
  <2> DEFINE j == job[p]
  <2>1. j.input \in Inputs /\ j.read \in Rows
    BY <1>5, <1>t, JobKinds DEF Decide
  <2>2. \A q \in Requests : q # p => job'[q] = job[q]
    BY <1>5, <1>t DEF Decide, Proceed, TypeOK
  <2>3. UNCHANGED <<state, value, edits, base>>
    BY <1>5 DEF Decide
  <2>4. job'[p].op = "write" =>
          /\ job'[p].read = j.read /\ job'[p].next = Corrected(j)
          /\ job'[p].changes = Changes(j)
    BY <1>5, <1>t DEF Decide, Proceed, TypeOK, Idle
  <2>5. \A f \in Fields :
          IF f \in DOMAIN Changes(j)
          THEN Changes(j)[f] = [before |-> j.read[f], after |-> Corrected(j)[f]]
          ELSE Corrected(j)[f] = j.read[f]
    BY <2>1, CorrectedIsRow
  <2> QED BY <1>t, <2>2, <2>3, <2>4, <2>5 DEF JoinedInv
<1>6. ASSUME NEW p \in Requests, Write(p) PROVE JoinedInv'
  <2> DEFINE j == job[p]
             t == j.task
             e == [by |-> j.user, changes |-> j.changes, decided |-> j.decided]
             E == [by : Users, changes : ChangeSets, decided : Nat]
  <2>1. j.op = "write" /\ t \in Tasks /\ e \in E
    BY <1>6, <1>t, JobKinds DEF Write
  <2>2. job'[p] = Idle /\ \A q \in Requests : q # p => job'[q] = job[q]
    BY <1>6, <1>t DEF Write, Proceed, TypeOK
  <2>3. job'[p].op # "write"
    BY <2>2 DEF Idle
  <2>4. state' = state
    BY <1>6 DEF Write
  <2>5. CASE ~ Live(t)
    <3>1. UNCHANGED <<value, edits, base>>
      BY <1>6, <2>5 DEF Write
    <3> QED BY <1>t, <2>2, <2>3, <2>4, <3>1 DEF JoinedInv
  <2>6. CASE Live(t)
    <3>1. /\ edits'[t] = Append(edits[t], e) /\ value'[t] = j.next
          /\ base'[t] = [base[t] EXCEPT !.lost = base[t].lost \cup Overtaken(j)]
          /\ \A s \in Tasks : s # t => /\ edits'[s] = edits[s] /\ value'[s] = value[s]
                                       /\ base'[s] = base[s]
      BY <1>6, <1>t, <2>1, <2>6 DEF Write, TypeOK
    <3>2. /\ base'[t].entries = base[t].entries /\ base'[t].row = base[t].row
          /\ base'[t].lost = base[t].lost \cup Overtaken(j)
          /\ base[t].entries \in Nat /\ base[t].entries <= Len(edits[t])
          /\ edits[t] \in Seq(E)
      <4>1. base[t] \in [row : Rows, entries : Nat, lost : SUBSET Fields]
        BY <1>t, <2>1 DEF TypeOK
      <4>2. edits[t] \in Seq(E)
        BY <1>t, <2>1 DEF TypeOK
      <4>3. base[t].entries <= Len(edits[t])
        BY <2>1 DEF JoinedInv
      <4> HIDE DEF E, j, t
      <4> QED BY <3>1, <4>1, <4>2, <4>3
    <3>3. Len(edits'[t]) = Len(edits[t]) + 1
      BY <2>1, <3>1, <3>2
    <3>4. ASSUME NEW f \in Fields \ base'[t].lost
          PROVE  Joined(edits'[t], base'[t], f, value'[t][f])
      <4>1. Joined(edits[t], base[t], f, value[t][f])
        BY <2>1, <3>2, <3>4 DEF JoinedInv
      <4>2. value[t][f] = j.read[f]
        BY <3>2, <3>4 DEF Overtaken
      <4>3. IF f \in DOMAIN e.changes
            THEN e.changes[f] = [before |-> value[t][f], after |-> j.next[f]]
            ELSE j.next[f] = value[t][f]
        BY <2>1, <4>2 DEF JoinedInv
      <4>4. Joined(Append(edits[t], e), base[t], f, j.next[f])
        <5> HIDE DEF e, E, t, j
        <5> QED BY <2>1, <3>2, <4>1, <4>3, EntryJoins
      <4>5. Joined(Append(edits[t], e), base'[t], f, j.next[f])
        <5> HIDE DEF e, E, t, j
        <5> QED BY <3>2, <4>4 DEF Joined, Told
      <4> HIDE DEF e, E, t, j
      <4> QED BY <3>1, <4>5
    <3>5. ASSUME NEW s \in Tasks
          PROVE  /\ state[s] = "unused" => edits'[s] = <<>>
                 /\ base'[s].entries <= Len(edits'[s])
                 /\ \A f \in Fields \ base'[s].lost :
                      Joined(edits'[s], base'[s], f, value'[s][f])
      <4>1. CASE s = t
        <5>1. state[t] # "unused"
          BY <2>6 DEF Live
        <5>2. base'[t].entries <= Len(edits'[t])
          BY <1>l, <2>1, <3>2, <3>3
        <5> QED BY <3>4, <4>1, <5>1, <5>2
      <4>2. CASE s # t
        BY <3>1, <4>2 DEF JoinedInv
      <4> QED BY <4>1, <4>2
    <3> HIDE DEF e, E, t, j
    <3> QED BY <1>t, <2>2, <2>3, <2>4, <3>5 DEF JoinedInv
  <2> QED BY <2>5, <2>6
<1> QED BY <1>1, <1>2, <1>3, <1>4, <1>5, <1>6 DEF Next, vars, Tick, Reorganise

\* Whatever overlaps, the log of a task joins up entry by entry with what plans and
\* reviews put in the row and with what the row holds: only fields that an edit
\* wrote after they had changed behind its back may not, until the next review.
THEOREM LogIsFaithful == Spec => []LogJoinsUp
<1>1. JoinedInv => LogJoinsUp
  BY DEF JoinedInv, LogJoinsUp, Joined
<1> QED BY JoinedInit, JoinedNext, <1>1, PTL DEF Spec
=============================================================================
