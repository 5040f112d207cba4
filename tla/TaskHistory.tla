----------------------------- MODULE TaskHistory -----------------------------
(***************************************************************************)
(* Corrections of a task after the day: editTask and taskEditRule          *)
(* (src/src/reports/reports.service.ts 375-459) and the log of what they   *)
(* changed (table TaskEdit), beside the writers of the chat and of         *)
(* administrators, which log nothing (src/src/work-plan/                   *)
(* work-plan.service.ts).  A step is one database call or transaction.     *)
(***************************************************************************)
EXTENDS Naturals, Sequences, FiniteSetsExt

CONSTANTS
  Users, Admins,
  Tasks, Owner,    \* ids of DailyTask rows, and whose sessions they are of
  Fields, Values,  \* the fields editTask may change, and what they hold
  Blank,           \* the values of a task just planned
  SelfEditDays,    \* SELF_EDIT_DAYS
  Requests,        \* slots for edits in flight
  MaxDay, MaxEdits \* bounds of the model

Rows == [Fields -> Values]

\* What a request asks for: a field it leaves out is left as it is.
Inputs == UNION {[fields -> Values] : fields \in SUBSET Fields}

ASSUME HistoryAssumption ==
  /\ Admins \subseteq Users
  /\ Owner \in [Tasks -> Users]
  /\ Blank \in Rows
  /\ {SelfEditDays, MaxDay, MaxEdits} \subseteq Nat

VARIABLES
  today,
  reports,   \* user -> the people getAllReports returns for the user
  led,       \* user -> the people it has returned so far
  state,     \* id -> "unused", "live" or "deleted"
  day,       \* id -> the day of the task's session
  value,     \* id -> the row's fields
  edits,     \* id -> its TaskEdit rows, in the order of createdAt
  base,      \* id -> what a plan or a review last put in the row, how many edits
             \* there were then, and the fields edits have put back since
  job        \* slot -> the edit in flight, with its local variables

\* Only the properties read led and base, and of a log entry `decided`.

vars == <<today, reports, led, state, day, value, edits, base, job>>

Idle == [op |-> "idle"]

Base(row, entries) == [row |-> row, entries |-> entries, lost |-> {}]

Init ==
  /\ today = 0
  /\ reports \in [Users -> SUBSET Users]
  /\ \A u \in Users : u \notin reports[u]
  /\ led = reports
  /\ state = [t \in Tasks |-> "unused"]
  /\ day = [t \in Tasks |-> 0]
  /\ value = [t \in Tasks |-> Blank]
  /\ edits = [t \in Tasks |-> <<>>]
  /\ base = [t \in Tasks |-> Base(Blank, 0)]
  /\ job = [p \in Requests |-> Idle]

Live(t) == state[t] = "live"

-----------------------------------------------------------------------------
(* The chat and the administrators *)

DayOf(u, d) == {t \in Tasks : Live(t) /\ Owner[t] = u /\ day[t] = d}

\* saveDailyPlan, from a plan card of day d or by an administrator: the day's
\* tasks are deleted, their edits with them (onDelete: Cascade), and the new
\* ones take their place.
SavePlan(u, d, new) ==
  /\ \A t \in new : state[t] = "unused" /\ Owner[t] = u
  /\ state' = [t \in Tasks |-> CASE t \in new -> "live"
                                 [] t \in DayOf(u, d) -> "deleted"
                                 [] OTHER -> state[t]]
  /\ day' = [t \in Tasks |-> IF t \in new THEN d ELSE day[t]]
  /\ edits' = [t \in Tasks |-> IF t \in DayOf(u, d) THEN <<>> ELSE edits[t]]
  /\ value' = [t \in Tasks |-> IF t \in DayOf(u, d) \cup new THEN Blank ELSE value[t]]
  /\ base' = [t \in Tasks |-> IF t \in DayOf(u, d) \cup new THEN Base(Blank, 0) ELSE base[t]]
  /\ UNCHANGED <<today, reports, led, job>>

\* One update of bulkUpdateTaskProgress, or updateTaskProgress: a review card,
\* of whatever day, or an administrator.
Progress(t, v) ==
  /\ Live(t)
  /\ value' = [value EXCEPT ![t] = v]
  /\ base' = [base EXCEPT ![t] = Base(v, Len(edits[t]))]
  /\ UNCHANGED <<today, reports, led, state, day, edits, job>>

-----------------------------------------------------------------------------
(* editTask *)

Proceed(p, next) == job' = [job EXCEPT ![p] = next]

\* The task is read.
EditTask(p, u, t, input) ==
  /\ job[p] = Idle
  /\ Live(t)
  /\ Proceed(p, [op |-> "rule", user |-> u, task |-> t, input |-> input,
                 read |-> value[t]])
  /\ UNCHANGED <<today, reports, led, state, day, value, edits, base>>

\* Mutant: people may correct a day one day longer.
CanEdit_oneMore(u, t) ==
  \/ u \in Admins
  \/ Owner[t] \in reports[u]
  \/ Owner[t] = u /\ day[t] + SelfEditDays + 1 >= today

\* taskEditRule.  HR has no part in it.
CanEdit(u, t) ==
  \/ u \in Admins
  \/ Owner[t] \in reports[u]
  \/ Owner[t] = u /\ day[t] + SelfEditDays >= today

\* The row as it is to be: what is not asked for is what was read.
Corrected(j) == [f \in Fields |-> IF f \in DOMAIN j.input THEN j.input[f] ELSE j.read[f]]

Changes(j) ==
  [f \in {g \in Fields : Corrected(j)[g] # j.read[g]} |->
     [before |-> j.read[f], after |-> Corrected(j)[f]]]

\* The rule is worked out, with the reports and the date of now; an edit that
\* is not allowed, or that changes nothing, is refused.
Decide(p) ==
  LET j == job[p]
  IN  /\ j.op = "rule"
      /\ IF CanEdit(j.user, j.task) /\ DOMAIN Changes(j) # {}
         THEN Proceed(p, [op |-> "write", user |-> j.user, task |-> j.task,
                          read |-> j.read, next |-> Corrected(j),
                          changes |-> Changes(j), decided |-> today])
         ELSE Proceed(p, Idle)
      /\ UNCHANGED <<today, reports, led, state, day, value, edits, base>>

\* The fields that have changed since the edit read them.
Overtaken(j) == {f \in Fields : value[j.task][f] # j.read[f]}

\* Mutant: the fields that do not change are reset.
Write_resets(p) ==
  LET j == job[p]
  IN  /\ j.op = "write"
      /\ Len(edits[j.task]) < MaxEdits
      /\ IF Live(j.task)
         THEN /\ edits' = [edits EXCEPT ![j.task] =
                             Append(@, [by |-> j.user, changes |-> j.changes,
                                        decided |-> j.decided])]
              /\ value' = [value EXCEPT ![j.task] =
                             [f \in Fields |-> IF f \in DOMAIN j.changes
                                               THEN j.next[f] ELSE Blank[f]]]
              /\ base' = [base EXCEPT ![j.task].lost = @ \cup Overtaken(j)]
         ELSE UNCHANGED <<edits, value, base>>
      /\ Proceed(p, Idle)
      /\ UNCHANGED <<today, reports, led, state, day>>

\* The transaction: the log entry and the whole row, from what was read.  It
\* fails when the task has been deleted since.
Write(p) ==
  LET j == job[p]
  IN  /\ j.op = "write"
      /\ Len(edits[j.task]) < MaxEdits
      /\ IF Live(j.task)
         THEN /\ edits' = [edits EXCEPT ![j.task] =
                             Append(@, [by |-> j.user, changes |-> j.changes,
                                        decided |-> j.decided])]
              /\ value' = [value EXCEPT ![j.task] = j.next]
              /\ base' = [base EXCEPT ![j.task].lost = @ \cup Overtaken(j)]
         ELSE UNCHANGED <<edits, value, base>>
      /\ Proceed(p, Idle)
      /\ UNCHANGED <<today, reports, led, state, day>>

-----------------------------------------------------------------------------
(* The environment *)

Tick ==
  /\ today < MaxDay
  /\ today' = today + 1
  /\ UNCHANGED <<reports, led, state, day, value, edits, base, job>>

\* An administrator changes who reports to whom (see OrgChart).
Reorganise(u) ==
  /\ \E team \in SUBSET (Users \ {u}) :
       /\ reports' = [reports EXCEPT ![u] = team]
       /\ led' = [led EXCEPT ![u] = @ \cup team]
  /\ UNCHANGED <<today, state, day, value, edits, base, job>>

Next ==
  \/ Tick
  \/ \E u \in Users :
       \/ Reorganise(u)
       \/ \E d \in 0 .. today, new \in SUBSET Tasks : SavePlan(u, d, new)
       \/ \E p \in Requests, t \in Tasks, input \in Inputs : EditTask(p, u, t, input)
  \/ \E t \in Tasks, v \in Rows : Progress(t, v)
  \/ \E p \in Requests : Decide(p) \/ Write(p)

Spec == Init /\ [][Next]_vars

-----------------------------------------------------------------------------
(* Types *)

ChangeSets ==
  UNION {[fields -> [before : Values, after : Values]] : fields \in SUBSET Fields}

Jobs ==
  {Idle}
    \cup [op : {"rule"}, user : Users, task : Tasks, input : Inputs, read : Rows]
    \cup [op : {"write"}, user : Users, task : Tasks, read : Rows, next : Rows,
          changes : ChangeSets, decided : Nat]

TypeOK ==
  /\ today \in Nat
  /\ reports \in [Users -> SUBSET Users]
  /\ led \in [Users -> SUBSET Users]
  /\ state \in [Tasks -> {"unused", "live", "deleted"}]
  /\ day \in [Tasks -> Nat]
  /\ value \in [Tasks -> Rows]
  /\ edits \in [Tasks -> Seq([by : Users, changes : ChangeSets, decided : Nat])]
  /\ base \in [Tasks -> [row : Rows, entries : Nat, lost : SUBSET Fields]]
  /\ job \in [Requests -> Jobs]

-----------------------------------------------------------------------------
(* What the log is for *)

Logged(t) == Len(edits'[t]) > Len(edits[t])
Entry(t) == edits'[t][Len(edits'[t])]

\* An edit changes the fields its log entry names and no other, from and to the
\* values the entry gives: "history is amended, never silently rewritten"
\* (reports.service.ts:398).  The code does not hold to it: the entry is worked out
\* two calls earlier, and the write puts every field back as it was read (427-457).
AmendedNotRewritten ==
  [][\A t \in Tasks :
       Logged(t) =>
         \A f \in Fields :
           IF f \in DOMAIN Entry(t).changes
           THEN Entry(t).changes[f] = [before |-> value[t][f], after |-> value'[t][f]]
           ELSE value'[t][f] = value[t][f]]_vars

\* What the first n entries of a log make of field f, from what a plan or a review
\* last put there.
Told(log, b, f, n) ==
  LET naming == {i \in (b.entries + 1) .. n : f \in DOMAIN log[i].changes}
  IN  IF naming = {} THEN b.row[f] ELSE log[Max(naming)].changes[f].after

\* The log of a task joins up: field by field every entry begins where the ones
\* before it, or the last plan or review, have left off, and the last one ends with
\* the value the row has.  However edits, reviews, plans and midnight overlap, the
\* only exceptions are fields that an edit wrote after they had changed behind its
\* back, until the next review (editTask 427-457).
LogJoinsUp ==
  \A t \in Tasks : \A f \in Fields \ base[t].lost :
    LET log == edits[t]
    IN  /\ value[t][f] = Told(log, base[t], f, Len(log))
        /\ \A i \in (base[t].entries + 1) .. Len(log) :
             f \in DOMAIN log[i].changes
               => log[i].changes[f].before = Told(log, base[t], f, i - 1)

\* After SELF_EDIT_DAYS people can no longer correct their own tasks, nor can
\* their colleagues or HR: what reaches the log was decided in time, however
\* late it is written, or comes from an administrator or from somebody who has
\* had the person among the reports (taskEditRule, lines 375-394).
SelfServiceEnds ==
  [][\A t \in Tasks :
       Logged(t) => LET e == Entry(t)
                    IN  \/ e.by \in Admins
                        \/ e.by = Owner[t] /\ e.decided <= day[t] + SelfEditDays
                        \/ Owner[t] \in led[e.by]]_vars
=============================================================================
