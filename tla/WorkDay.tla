------------------------------- MODULE WorkDay -------------------------------
(***************************************************************************)
(* An employee's day in the chat: the cards the bot shows, what a click on *)
(* one does (src/src/bot/TeamsAttendanceBot.ts 108-284 and the handlers    *)
(* under src/src/bot/workflows/handlers/), the tracker that keeps a card   *)
(* from acting twice (activity-tracker.service.ts), and the plan of tasks  *)
(* that is saved in the morning, carried over from the last day and        *)
(* reviewed at check-out (src/src/work-plan/work-plan.service.ts).         *)
(*                                                                         *)
(* A step is one call of a handler: of the database, of the attendance     *)
(* service, or of the chat.  Sessions are opened and closed here by one    *)
(* step each; AttendanceSession has their calls one by one.                *)
(***************************************************************************)
EXTENDS Naturals, Sequences

CONSTANTS
  Names,         \* of tasks
  Turns,         \* slots for clicks being handled
  OneAtATime,    \* nobody clicks on a card while another is being handled
  MaxDay, MaxSessions, MaxCards, MaxSaves,     \* bounds of the model
  None           \* null for ids

ASSUME WorkDayAssumption ==
  /\ {MaxDay, MaxSessions, MaxCards, MaxSaves} \subseteq Nat
  /\ OneAtATime \in BOOLEAN
  /\ None \notin [save : Nat, name : Names]

VARIABLES
  today,
  session,      \* the employee's Attendance rows, in the order of their check-ins
  task,         \* the rows of table DailyTask
  saves,        \* the plans saved so far: tasks saved together have its number in their ids
  card,         \* the messages with buttons, in the order they were sent
  consumed,     \* consumedIds: in memory
  processing,   \* processingIds: in memory
  turn          \* slot -> the click it is handling

\* What only the properties read: of a task, how many plans had been saved when
\* the transaction that wrote it began (`began`).

vars == <<today, session, task, saves, card, consumed, processing, turn>>

TaskIds == [save : Nat, name : Names]

Idle == [op |-> "idle"]

Init ==
  /\ today = 0
  /\ session = <<>>
  /\ task = {}
  /\ saves = 0
  /\ card = <<>>
  /\ consumed = {}
  /\ processing = {}
  /\ turn = [p \in Turns |-> Idle]

-----------------------------------------------------------------------------
(* The tables *)

Ids(rows) == {t.id : t \in rows}
TasksOf(s) == {t \in task : t.of = s}

Swept == [s \in DOMAIN session |->
             [session[s] EXCEPT !.open = @ /\ session[s].day = today]]

\* getUnfinishedTasksFromLastDay: of the latest other session.
Unfinished(s) ==
  Ids({t \in task : /\ t.of # s /\ t.status # "completed"
                    /\ \A r \in DOMAIN session \ {s} : r <= t.of})

\* Mutant: rows that point to what is deleted are left as they are.
Without_dangling(rows, ids) == {t \in rows : t.id \notin ids}

\* Deleted tasks are gone from the links as well (onDelete: SetNull).
Without(rows, ids) ==
  {[t EXCEPT !.from = IF @ \in ids THEN None ELSE @] : t \in {u \in rows : u.id \notin ids}}

-----------------------------------------------------------------------------
(* Cards and clicks *)

Card(kind, s, ids) == [kind |-> kind, of |-> s, ids |-> ids, chat |-> "shown"]

\* What the buttons of card c start: the click with its handler's arguments.
Clicks(c) ==
  LET s == card[c].of
      Reply(next) == [op |-> "reply", card |-> c, next |-> next]
  IN  CASE card[c].kind = "checkIn" -> {[op |-> "checkIn", card |-> c], Reply(None)}
        [] card[c].kind = "working" ->
             {[op |-> "review", card |-> c], Reply(Card("plan", s, {})), Reply(None)}
        [] card[c].kind = "plan" ->
             {Reply(Card("working", s, {})), Reply(Card("plan", s, {}))}
               \cup [op : {"save"}, card : {c}, names : SUBSET Names]
        [] card[c].kind = "review" ->
             [op : {"update"}, card : {c}, todo : {card[c].ids}, done : SUBSET card[c].ids]

Busy == {p \in Turns : turn[p] # Idle}

Proceed(p, next) == turn' = [turn EXCEPT ![p] = next]

\* The handler is over, and `finally` releases the card.
Release(p) ==
  /\ processing' = processing \ {turn[p].card}
  /\ Proceed(p, Idle)

\* Mutant: a card under way is not looked for.
Click_noProcessing(p, c) ==
  /\ turn[p] = Idle
  /\ card[c].chat # "forgotten"
  /\ c \notin consumed
  /\ OneAtATime => \A q \in Busy : turn[q].card = c
  /\ processing' = processing \cup {c}
  /\ \E first \in Clicks(c) : Proceed(p, first)
  /\ UNCHANGED <<today, session, task, saves, card, consumed>>

\* handleAction.  A click on a card that is done with, or under way, is
\* answered or ignored, without effect.
Click(p, c) ==
  /\ turn[p] = Idle
  /\ card[c].chat # "forgotten"
  /\ c \notin consumed /\ c \notin processing
  /\ OneAtATime => \A q \in Busy : turn[q].card = c
  /\ processing' = processing \cup {c}
  /\ \E first \in Clicks(c) : Proceed(p, first)
  /\ UNCHANGED <<today, session, task, saves, card, consumed>>

\* The answer: texts, and the next card if there is one.
Answer(p) ==
  /\ turn[p].op = "reply"
  /\ IF turn[p].next = None
     THEN UNCHANGED card
     ELSE /\ Len(card) < MaxCards
          /\ card' = Append(card, turn[p].next)
  /\ Proceed(p, [op |-> "close", card |-> turn[p].card])
  /\ UNCHANGED <<today, session, task, saves, consumed, processing>>

\* The clicked card is deleted from the chat, which may fail, and marked.
Close(p) ==
  /\ turn[p].op = "close"
  /\ \E chat \in {"gone", "shown"} : card' = [card EXCEPT ![turn[p].card].chat = chat]
  /\ consumed' = consumed \cup {turn[p].card}
  /\ Release(p)
  /\ UNCHANGED <<today, session, task, saves>>

\* Mutant: no `finally`.
Fail_held(p) ==
  /\ turn[p] # Idle /\ turn[p].op # "close"
  /\ Proceed(p, Idle)
  /\ UNCHANGED <<today, session, task, saves, card, consumed, processing>>

\* A call throws: what is done stays, and the card may be clicked again.
Fail(p) ==
  /\ turn[p] # Idle /\ turn[p].op # "close"
  /\ Release(p)
  /\ UNCHANGED <<today, session, task, saves, card, consumed>>

-----------------------------------------------------------------------------
(* The handlers *)

Of(p) == card[turn[p].card].of

Reply(p, next) == Proceed(p, [op |-> "reply", card |-> turn[p].card, next |-> next])

\* CheckInHandler: stale sessions are closed, and one is opened.
CheckIn(p) ==
  /\ turn[p].op = "checkIn"
  /\ Len(session) < MaxSessions
  /\ session' = Append(Swept, [day |-> today, open |-> TRUE])
  /\ Reply(p, Card("plan", Len(session) + 1, {}))
  /\ UNCHANGED <<today, task, saves, card, consumed, processing>>

\* CheckOutHandler: the review card shows the tasks of this moment.
ShowReview(p) ==
  /\ turn[p].op = "review"
  /\ Reply(p, Card("review", Of(p), Ids(TasksOf(Of(p)))))
  /\ UNCHANGED <<today, session, task, saves, card, consumed, processing>>

\* saveDailyPlan: what the last day left unfinished is read.
SaveRead(p) ==
  /\ turn[p].op = "save"
  /\ Proceed(p, [op |-> "delete", card |-> turn[p].card, names |-> turn[p].names,
                 available |-> Unfinished(Of(p))])
  /\ UNCHANGED <<today, session, task, saves, card, consumed, processing>>

\* Its transaction begins: the tasks it sees are deleted, for others when it commits.
SaveDelete(p) ==
  /\ turn[p].op = "delete"
  /\ Proceed(p, [op |-> "create", card |-> turn[p].card, names |-> turn[p].names,
                 available |-> turn[p].available, old |-> Ids(TasksOf(Of(p))),
                 began |-> saves])
  /\ UNCHANGED <<today, session, task, saves, card, consumed, processing>>

Row(p, name, from) ==
  [id |-> [save |-> saves, name |-> name], of |-> Of(p), status |-> "not_started",
   from |-> from, began |-> turn[p].began]

\* The task that the new one of this name carries over, if one was left.
CarriedFrom(p, name) ==
  LET left == {i \in turn[p].available : i.name = name}
  IN  IF left = {} THEN {None} ELSE left

\* Mutant: the old tasks stay.
SaveCreate_adds(p) ==
  /\ turn[p].op = "create"
  /\ saves < MaxSaves
  /\ saves' = saves + 1
  /\ \E from \in [turn[p].names -> Ids(task) \cup {None}] :
       /\ \A n \in turn[p].names : from[n] \in CarriedFrom(p, n)
       /\ task' = task \cup {Row(p, n, from[n]) : n \in turn[p].names}
  /\ Reply(p, Card("working", Of(p), {}))
  /\ UNCHANGED <<today, session, card, consumed, processing>>

\* It commits with the new tasks; a link to a task deleted since makes it fail.
SaveCreate(p) ==
  /\ turn[p].op = "create"
  /\ saves < MaxSaves
  /\ saves' = saves + 1
  /\ \E from \in [turn[p].names -> Ids(task) \cup {None}] :
       /\ \A n \in turn[p].names : from[n] \in CarriedFrom(p, n)
       /\ task' = Without(task, turn[p].old) \cup {Row(p, n, from[n]) : n \in turn[p].names}
  /\ Reply(p, Card("working", Of(p), {}))
  /\ UNCHANGED <<today, session, card, consumed, processing>>

\* "blocked" stands for the answers "In Progress" and "Blocked", alike to everything here.
SetStatus(i, status) ==
  task' = {IF t.id = i THEN [t EXCEPT !.status = status] ELSE t : t \in task}

\* Mutant: an updateMany, which is content with no row.
Update_lenient(p) ==
  /\ turn[p].op = "update"
  /\ \E i \in turn[p].todo :
       /\ SetStatus(i, IF i \in turn[p].done THEN "completed" ELSE "blocked")
       /\ Proceed(p, [turn[p] EXCEPT !.todo = @ \ {i}])
  /\ UNCHANGED <<today, session, saves, card, consumed, processing>>

\* SubmitReviewHandler, bulkUpdateTaskProgress: one task after the other; one
\* that is not there any more makes the handler fail.
Update(p) ==
  /\ turn[p].op = "update"
  /\ \E i \in turn[p].todo \cap Ids(task) :
       /\ SetStatus(i, IF i \in turn[p].done THEN "completed" ELSE "blocked")
       /\ Proceed(p, [turn[p] EXCEPT !.todo = @ \ {i}])
  /\ UNCHANGED <<today, session, saves, card, consumed, processing>>

\* Then the session is checked out, unless it is closed: then the handler fails.
CheckOut(p) ==
  /\ turn[p].op = "update" /\ turn[p].todo = {}
  /\ session[Of(p)].open
  /\ session' = [session EXCEPT ![Of(p)].open = FALSE]
  /\ Reply(p, None)
  /\ UNCHANGED <<today, task, saves, card, consumed, processing>>

-----------------------------------------------------------------------------
(* The surroundings *)

NextDay ==
  /\ today < MaxDay
  /\ today' = today + 1
  /\ UNCHANGED <<session, task, saves, card, consumed, processing, turn>>

\* Every session left open on an earlier day is closed (autoCheckOutStale).
Sweep ==
  /\ session' = Swept
  /\ UNCHANGED <<today, task, saves, card, consumed, processing, turn>>

\* A message: the bot answers with the card of the employee's state.
Hello ==
  LET last == Len(session)
  IN  /\ Len(card) < MaxCards
      /\ session' = Swept
      /\ card' = Append(card, IF last > 0 /\ Swept[last].open
                              THEN Card("working", last, {}) ELSE Card("checkIn", 0, {}))
      /\ UNCHANGED <<today, task, saves, consumed, processing, turn>>

Forgotten(cards) ==
  [c \in DOMAIN card |->
     IF c \in cards /\ card[c].chat = "gone" THEN [card[c] EXCEPT !.chat = "forgotten"] ELSE card[c]]

\* Six hours later, or five thousand cards: no click is under way to a card that
\* was deleted so long ago.
Forget(c) ==
  /\ consumed' = consumed \ {c}
  /\ card' = Forgotten({c})
  /\ UNCHANGED <<today, session, task, saves, processing, turn>>

\* The server starts again, with nothing in memory, and the same holds.
Restart ==
  /\ consumed' = {}
  /\ processing' = {}
  /\ turn' = [p \in Turns |-> Idle]
  /\ card' = Forgotten(DOMAIN card)
  /\ UNCHANGED <<today, session, task, saves>>

Next ==
  \/ NextDay \/ Sweep \/ Hello \/ Restart
  \/ \E c \in consumed : Forget(c)
  \/ \E p \in Turns :
       \/ \E c \in DOMAIN card : Click(p, c)
       \/ CheckIn(p) \/ ShowReview(p)
       \/ SaveRead(p) \/ SaveDelete(p) \/ SaveCreate(p)
       \/ Update(p) \/ CheckOut(p)
       \/ Answer(p) \/ Close(p) \/ Fail(p)

Spec == Init /\ [][Next]_vars

-----------------------------------------------------------------------------
(* Properties *)

Sessions == DOMAIN session

CardRows ==
  [kind : {"checkIn", "working", "plan", "review"}, of : Nat, ids : SUBSET TaskIds,
   chat : {"shown", "gone", "forgotten"}]

NewCards == {r \in CardRows : r.chat = "shown"}

Jobs ==
  {Idle}
    \cup [op : {"checkIn", "review", "close"}, card : Nat]
    \cup [op : {"reply"}, card : Nat, next : NewCards \cup {None}]
    \cup [op : {"save"}, card : Nat, names : SUBSET Names]
    \cup [op : {"delete"}, card : Nat, names : SUBSET Names, available : SUBSET TaskIds]
    \cup [op : {"create"}, card : Nat, names : SUBSET Names,
          available : SUBSET TaskIds, old : SUBSET TaskIds, began : Nat]
    \cup [op : {"update"}, card : Nat, todo : SUBSET TaskIds, done : SUBSET TaskIds]

TaskRows ==
  [id : TaskIds, of : Nat, status : {"not_started", "completed", "blocked"},
   from : TaskIds \cup {None}, began : Nat]

TypeOK ==
  /\ today \in Nat /\ saves \in Nat
  /\ session \in Seq([day : Nat, open : BOOLEAN])
  /\ task \subseteq TaskRows
  /\ card \in Seq(CardRows)
  /\ consumed \subseteq DOMAIN card /\ processing \subseteq DOMAIN card
  /\ turn \in [Turns -> Jobs]

\* However a handler ends, its card is released, and no card is ever in the hands
\* of two handlers (handleAction 113-126, 186-190).
HeldByOne ==
  /\ processing = {turn[p].card : p \in Busy}
  /\ \A p, q \in Busy : turn[p].card = turn[q].card => p = q

\* A card in the hands of a handler has not been answered before: it is not among
\* those done with and is still in the chat, whatever duplicates of a click arrive
\* and whatever the tracker has forgotten (activity-tracker.service.ts 7-13).
AnsweredOnce ==
  \A p \in Busy :
    turn[p].card \notin consumed /\ card[turn[p].card].chat = "shown"

\* The tasks of a session are those of one saved plan ("Saving replaces the whole
\* plan", saveDailyPlan 51-74).  When saves cross they may not be.
OnePlan ==
  \A t, u \in task : t.of = u.of => t.id.save = u.id.save

\* Tasks of two plans stay side by side in one session only if the saves crossed:
\* the later one's transaction had begun before the earlier plan was there.
\* Whatever fails, overlaps or is saved for other days, a save that begins after
\* another of its session replaces it whole (saveDailyPlan 51-74).
MixedPlansCrossed ==
  \A t, u \in task :
    t.of = u.of /\ t.id.save < u.id.save => u.began <= t.id.save

\* When a review of tasks checks a session out, they are the session's plan, and
\* none was left out: a plan saved since the card was shown makes the card fail
\* (SubmitReviewHandler 29-46).
ReviewCoversPlan ==
  [][\A p \in Turns :
       turn[p].op = "update" /\ turn'[p].op = "reply" /\ card[turn[p].card].ids # {}
         => /\ Ids(TasksOf(Of(p))) = card[turn[p].card].ids
            /\ \A t \in TasksOf(Of(p)) : t.status # "not_started"]_vars

\* A task carried over continues one that exists, of the same name and another
\* session, also when that session's plan is saved again (saveDailyPlan 28-70).
LinksResolve ==
  \A t \in task : t.from # None =>
    \E u \in task : u.id = t.from /\ u.id.name = t.id.name /\ u.of # t.of
=============================================================================
