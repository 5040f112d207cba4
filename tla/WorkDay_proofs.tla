---------------------------- MODULE WorkDay_proofs ----------------------------
(***************************************************************************)
(* That a card is in the hands of one handler at most, is released, and is *)
(* answered once; that tasks carried over can be followed back; that a     *)
(* save replaces the plans that were there when it began; and, as long as  *)
(* clicks on different cards do not overlap, that reviews are of the whole *)
(* plan.                                                                   *)
(***************************************************************************)
EXTENDS WorkDay, SequenceTheorems, TLAPS

-----------------------------------------------------------------------------
(* Types *)

LEMMA IdleIsAJob == Idle \in Jobs /\ Idle.op = "idle"
BY DEF Jobs, Idle

LEMMA JobFields ==
  ASSUME TypeOK, NEW p \in Turns
  PROVE  /\ turn[p] # Idle => turn[p].op # "idle" /\ turn[p].card \in Nat
         /\ turn[p].op = "reply" => turn[p].next \in NewCards \cup {None}
         /\ turn[p].op \in {"save", "delete", "create"} => turn[p].names \in SUBSET Names
         /\ turn[p].op \in {"delete", "create"} => turn[p].available \in SUBSET TaskIds
         /\ turn[p].op = "create" => turn[p].old \in SUBSET TaskIds /\ turn[p].began \in Nat
         /\ turn[p].op = "update" => /\ turn[p].todo \in SUBSET TaskIds
                                     /\ turn[p].done \in SUBSET TaskIds
<1>1. turn[p] \in Jobs
  BY DEF TypeOK
<1> QED BY <1>1 DEF Jobs, Idle

LEMMA CardFields ==
  ASSUME TypeOK
  PROVE  /\ DOMAIN card = 1 .. Len(card) /\ Len(card) \in Nat
         /\ \A c \in DOMAIN card :
              /\ c \in Nat /\ card[c] \in CardRows
              /\ card[c].of \in Nat /\ card[c].ids \in SUBSET TaskIds
<1>1. card \in Seq(CardRows)
  BY DEF TypeOK
<1>2. DOMAIN card = 1 .. Len(card) /\ Len(card) \in Nat
  BY <1>1, LenProperties
<1>3. \A c \in DOMAIN card : card[c] \in CardRows
  BY <1>1, <1>2, ElementOfSeq
<1> QED BY <1>2, <1>3 DEF CardRows

LEMMA NewCardIsARow ==
  ASSUME NEW kind \in {"checkIn", "working", "plan", "review"}, NEW s \in Nat,
         NEW ids \in SUBSET TaskIds
  PROVE  Card(kind, s, ids) \in NewCards
BY DEF Card, CardRows, NewCards

\* Cards are added, and leave the chat; what they show stays.
CardsStay ==
  /\ card' \in Seq(CardRows)
  /\ DOMAIN card \subseteq DOMAIN card'
  /\ \A c \in DOMAIN card :
       /\ card'[c].kind = card[c].kind
       /\ card'[c].of = card[c].of
       /\ card'[c].ids = card[c].ids

LEMMA CardAdded ==
  ASSUME TypeOK, NEW row \in NewCards, card' = Append(card, row)
  PROVE  /\ CardsStay
         /\ DOMAIN card' = DOMAIN card \cup {Len(card) + 1}
         /\ Len(card) + 1 \notin DOMAIN card
         /\ card'[Len(card) + 1] = row
         /\ \A c \in DOMAIN card : card'[c] = card[c]
         /\ row.chat = "shown"
<1>1. card \in Seq(CardRows) /\ row \in CardRows /\ row.chat = "shown"
  BY DEF TypeOK, NewCards
<1>2. /\ card' \in Seq(CardRows) /\ Len(card') = Len(card) + 1
      /\ \A c \in 1 .. Len(card) : card'[c] = card[c]
      /\ card'[Len(card) + 1] = row
  BY <1>1, AppendProperties
<1>3. DOMAIN card' = 1 .. Len(card')
  BY <1>2, LenProperties
<1>4. DOMAIN card = 1 .. Len(card) /\ Len(card) \in Nat
  BY CardFields
<1>5. DOMAIN card' = DOMAIN card \cup {Len(card) + 1} /\ Len(card) + 1 \notin DOMAIN card
  BY <1>2, <1>3, <1>4
<1> QED BY <1>1, <1>2, <1>4, <1>5 DEF CardsStay

LEMMA ChatChanged ==
  ASSUME TypeOK, NEW c \in DOMAIN card, NEW chat \in {"shown", "gone", "forgotten"},
         card' = [card EXCEPT ![c].chat = chat]
  PROVE  /\ CardsStay
         /\ DOMAIN card' = DOMAIN card
         /\ card'[c].chat = chat
         /\ \A d \in DOMAIN card \ {c} : card'[d] = card[d]
<1> DEFINE row == [card[c] EXCEPT !.chat = chat]
<1>1. card' = [card EXCEPT ![c] = row] /\ row \in CardRows
  BY CardFields DEF CardRows
<1>2. card \in Seq(CardRows) /\ c \in 1 .. Len(card)
  BY CardFields DEF TypeOK
<1>3. card' \in Seq(CardRows)
  BY <1>1, <1>2, ExceptSeq
<1>4. row.kind = card[c].kind /\ row.of = card[c].of /\ row.ids = card[c].ids /\ row.chat = chat
  BY CardFields DEF CardRows
<1> QED BY <1>1, <1>3, <1>4 DEF CardsStay

LEMMA CardsForgotten ==
  ASSUME TypeOK, NEW cards, card' = Forgotten(cards)
  PROVE  /\ CardsStay
         /\ DOMAIN card' = DOMAIN card
         /\ \A c \in DOMAIN card : card'[c].chat = "gone" => card[c].chat = "gone" /\ c \notin cards
         /\ \A c \in DOMAIN card : card[c].chat = "shown" => card'[c].chat = "shown"
<1>1. \A c \in DOMAIN card :
        /\ card'[c] \in CardRows
        /\ card'[c].kind = card[c].kind
        /\ card'[c].of = card[c].of
        /\ card'[c].ids = card[c].ids
        /\ card'[c].chat = IF c \in cards /\ card[c].chat = "gone" THEN "forgotten" ELSE card[c].chat
  BY CardFields DEF Forgotten, CardRows
<1>2. card' \in [1 .. Len(card) -> CardRows]
  BY <1>1, CardFields DEF Forgotten
<1>3. card' \in Seq(CardRows)
  BY <1>2, CardFields, SeqDef
<1> QED BY <1>1, <1>2, <1>3, CardFields DEF CardsStay

LEMMA SessionsSwept ==
  ASSUME TypeOK
  PROVE  Swept \in Seq([day : Nat, open : BOOLEAN])
<1>1. DOMAIN session = 1 .. Len(session) /\ Len(session) \in Nat
  BY LenProperties DEF TypeOK
<1>2. \A s \in DOMAIN session : session[s] \in [day : Nat, open : BOOLEAN]
  BY <1>1, ElementOfSeq DEF TypeOK
<1>3. Swept \in [1 .. Len(session) -> [day : Nat, open : BOOLEAN]]
  BY <1>1, <1>2 DEF Swept
<1> QED BY <1>1, <1>3, SeqDef

-----------------------------------------------------------------------------
(* Cards in hand *)

\* What is deleted from the chat has been marked, unless that is long ago.
DeletedIsMarked ==
  \A c \in DOMAIN card : card[c].chat = "gone" => c \in consumed

CInv == TypeOK /\ HeldByOne /\ AnsweredOnce /\ DeletedIsMarked

\* The card in a handler's hands.
LEMMA CardInHand ==
  ASSUME CInv, NEW p \in Turns, turn[p] # Idle
  PROVE  /\ turn[p].card \in DOMAIN card /\ turn[p].card \in processing
         /\ turn[p].card \notin consumed /\ card[turn[p].card].chat = "shown"
         /\ Of(p) \in Nat
         /\ \A q \in Turns : turn[q] # Idle /\ turn[q].card = turn[p].card => q = p
<1>1. p \in Busy
  BY DEF Busy
<1>2. turn[p].card \in processing
  BY <1>1 DEF CInv, HeldByOne
<1>3. turn[p].card \in DOMAIN card
  BY <1>2 DEF CInv, TypeOK
<1>4. Of(p) \in Nat
  BY <1>3, CardFields DEF CInv, Of
<1> QED BY <1>1, <1>2, <1>3, <1>4 DEF CInv, HeldByOne, AnsweredOnce, Busy

\* A handler goes on, with the same card, while the tracker and the chat stay.
LEMMA HandlerGoesOn ==
  ASSUME CInv, NEW p \in Turns, turn[p] # Idle,
         NEW next \in Jobs, next # Idle, next.card = turn[p].card,
         Proceed(p, next), UNCHANGED <<consumed, processing>>,
         CardsStay, \A c \in DOMAIN card : card'[c].chat = card[c].chat,
         \A c \in DOMAIN card' \ DOMAIN card : card'[c].chat = "shown"
  PROVE  /\ turn' \in [Turns -> Jobs]
         /\ consumed' \subseteq DOMAIN card' /\ processing' \subseteq DOMAIN card'
         /\ HeldByOne' /\ AnsweredOnce' /\ DeletedIsMarked'
<1>1. /\ turn' \in [Turns -> Jobs]
      /\ turn'[p] = next
      /\ \A q \in Turns \ {p} : turn'[q] = turn[q]
  BY DEF Proceed, CInv, TypeOK
<1>2. Busy' = Busy /\ \A q \in Busy : turn'[q].card = turn[q].card
  BY <1>1 DEF Busy
<1>3. HeldByOne'
  BY <1>2 DEF CInv, HeldByOne
<1>4. AnsweredOnce'
  <2>1. \A q \in Busy : turn[q].card \in DOMAIN card
    BY CardInHand DEF Busy
  <2> QED BY <1>2, <2>1 DEF CInv, AnsweredOnce
<1>5. DeletedIsMarked'
  BY DEF CInv, DeletedIsMarked
<1> QED BY <1>1, <1>3, <1>4, <1>5 DEF CInv, TypeOK, CardsStay

\* A handler is over, and its card is released.
LEMMA HandlerIsOver ==
  ASSUME CInv, NEW p \in Turns, turn[p] # Idle, Release(p)
  PROVE  /\ turn' \in [Turns -> Jobs]
         /\ processing' \subseteq DOMAIN card
         /\ HeldByOne'
         /\ Busy' = Busy \ {p}
         /\ \A q \in Busy' : turn'[q] = turn[q] /\ turn[q].card # turn[p].card
<1>1. /\ turn' \in [Turns -> Jobs]
      /\ turn'[p] = Idle
      /\ \A q \in Turns \ {p} : turn'[q] = turn[q]
  BY IdleIsAJob DEF Release, Proceed, CInv, TypeOK
<1>2. Busy' = Busy \ {p}
  BY <1>1 DEF Busy
<1>3. \A q \in Busy' : turn'[q] = turn[q] /\ turn[q].card # turn[p].card
  BY <1>1, <1>2, CardInHand DEF Busy
<1>4. HeldByOne'
  BY <1>2, <1>3 DEF CInv, HeldByOne, Release, Busy
<1> QED BY <1>1, <1>2, <1>3, <1>4 DEF Release, CInv, TypeOK

\* What a click starts.
LEMMA ClicksAreJobs ==
  ASSUME TypeOK, NEW c \in DOMAIN card, NEW first \in Clicks(c)
  PROVE  first \in Jobs /\ first # Idle /\ first.card = c
<1>1. /\ c \in Nat /\ card[c].of \in Nat /\ card[c].ids \in SUBSET TaskIds
      /\ card[c].kind \in {"checkIn", "working", "plan", "review"}
  BY CardFields DEF CardRows
<1>2. /\ Card("working", card[c].of, {}) \in NewCards
      /\ Card("plan", card[c].of, {}) \in NewCards
  BY <1>1, NewCardIsARow
<1>3. CASE card[c].kind = "checkIn"
  BY <1>1, <1>3 DEF Clicks, Jobs, Idle
<1>4. CASE card[c].kind = "working"
  BY <1>1, <1>2, <1>4 DEF Clicks, Jobs, Idle
<1>5. CASE card[c].kind = "plan"
  BY <1>1, <1>2, <1>5 DEF Clicks, Jobs, Idle
<1>6. CASE card[c].kind = "review"
  BY <1>1, <1>6 DEF Clicks, Jobs, Idle
<1> QED BY <1>1, <1>3, <1>4, <1>5, <1>6

LEMMA ClickStep ==
  ASSUME CInv, NEW p \in Turns, NEW c \in DOMAIN card, Click(p, c)
  PROVE  CInv' /\ CardsStay
<1>1. PICK first \in Clicks(c) : Proceed(p, first)
  BY DEF Click
<1>2. first \in Jobs /\ first # Idle /\ first.card = c
  BY <1>1, ClicksAreJobs DEF CInv
<1>3. /\ turn' \in [Turns -> Jobs]
      /\ turn'[p] = first
      /\ \A q \in Turns \ {p} : turn'[q] = turn[q]
  BY <1>1, <1>2 DEF Proceed, CInv, TypeOK
<1>4. Busy' = Busy \cup {p} /\ p \notin Busy
  BY <1>2, <1>3 DEF Busy, Click
<1>5. c \notin consumed /\ card[c].chat = "shown"
  <2>1. card[c].chat \in {"shown", "gone", "forgotten"}
    BY CardFields DEF CInv, CardRows
  <2> QED BY <2>1 DEF Click, CInv, DeletedIsMarked
<1>6. HeldByOne'
  <2>1. c \notin processing /\ processing' = processing \cup {c}
    BY DEF Click
  <2>2. \A q \in Busy : turn'[q].card = turn[q].card /\ turn[q].card \in processing
    BY <1>3, <1>4, CardInHand DEF Busy
  <2> QED BY <1>2, <1>3, <1>4, <2>1, <2>2 DEF CInv, HeldByOne
<1>7. AnsweredOnce'
  BY <1>2, <1>3, <1>4, <1>5 DEF CInv, AnsweredOnce, Click, Busy
<1>8. TypeOK'
  BY <1>3 DEF CInv, TypeOK, Click
<1>9. DeletedIsMarked'
  BY DEF CInv, DeletedIsMarked, Click
<1>10. CardsStay
  BY DEF CardsStay, Click, CInv, TypeOK
<1> QED BY <1>6, <1>7, <1>8, <1>9, <1>10 DEF CInv

LEMMA AnswerStep ==
  ASSUME CInv, NEW p \in Turns, Answer(p)
  PROVE  CInv' /\ CardsStay
<1> DEFINE next == [op |-> "close", card |-> turn[p].card]
<1>1. turn[p] # Idle /\ turn[p].next \in NewCards \cup {None}
  BY JobFields, IdleIsAJob DEF Answer, CInv
<1>2. next \in Jobs /\ next # Idle
  BY <1>1, JobFields DEF CInv, Jobs, Idle
<1>3. /\ CardsStay
      /\ \A c \in DOMAIN card : card'[c].chat = card[c].chat
      /\ \A c \in DOMAIN card' \ DOMAIN card : card'[c].chat = "shown"
  <2>1. CASE turn[p].next = None
    BY <2>1 DEF Answer, CardsStay, CInv, TypeOK
  <2>2. CASE turn[p].next # None
    <3>1. turn[p].next \in NewCards /\ card' = Append(card, turn[p].next)
      BY <1>1, <2>2 DEF Answer
    <3> QED BY <3>1, CardAdded DEF CInv
  <2> QED BY <2>1, <2>2
<1> QED BY <1>1, <1>2, <1>3, HandlerGoesOn DEF Answer, CInv, TypeOK, CardsStay

LEMMA CloseStep ==
  ASSUME CInv, NEW p \in Turns, Close(p)
  PROVE  CInv' /\ CardsStay
<1>1. turn[p] # Idle
  BY IdleIsAJob DEF Close
<1> DEFINE c == turn[p].card
<1>2. /\ c \in DOMAIN card
      /\ turn' \in [Turns -> Jobs]
      /\ processing' \subseteq DOMAIN card
      /\ HeldByOne'
      /\ Busy' = Busy \ {p}
      /\ \A q \in Busy' : turn'[q] = turn[q] /\ turn[q].card # c
  BY <1>1, CardInHand, HandlerIsOver DEF Close
<1>3. PICK chat \in {"gone", "shown"} : card' = [card EXCEPT ![c].chat = chat]
  BY DEF Close
<1>4. /\ CardsStay
      /\ DOMAIN card' = DOMAIN card
      /\ \A d \in DOMAIN card \ {c} : card'[d] = card[d]
  BY <1>2, <1>3, ChatChanged DEF CInv
<1>5. TypeOK'
  BY <1>2, <1>4 DEF Close, CInv, TypeOK, CardsStay
<1>6. AnsweredOnce'
  <2> SUFFICES ASSUME NEW q \in Busy'
      PROVE  turn'[q].card \notin consumed' /\ card'[turn'[q].card].chat = "shown"
    BY DEF AnsweredOnce
  <2>1. q \in Busy /\ turn'[q] = turn[q] /\ turn[q].card # c
    BY <1>2
  <2>2. turn[q].card \in DOMAIN card
    BY <2>1, CardInHand DEF Busy
  <2> QED BY <2>1, <2>2, <1>4 DEF Close, CInv, AnsweredOnce
<1>7. DeletedIsMarked'
  BY <1>4 DEF Close, CInv, DeletedIsMarked
<1> QED BY <1>2, <1>4, <1>5, <1>6, <1>7 DEF CInv

LEMMA FailStep ==
  ASSUME CInv, NEW p \in Turns, Fail(p)
  PROVE  CInv' /\ CardsStay
<1>1. /\ turn' \in [Turns -> Jobs]
      /\ processing' \subseteq DOMAIN card
      /\ HeldByOne'
      /\ Busy' = Busy \ {p}
      /\ \A q \in Busy' : turn'[q] = turn[q]
  BY HandlerIsOver DEF Fail
<1>2. AnsweredOnce'
  BY <1>1 DEF Fail, CInv, AnsweredOnce
<1>3. TypeOK' /\ DeletedIsMarked' /\ CardsStay
  BY <1>1 DEF Fail, CInv, TypeOK, DeletedIsMarked, CardsStay
<1> QED BY <1>1, <1>2, <1>3 DEF CInv

\* A call of a handler leaves the tracker and the chat as they are.
LEMMA CallKeepsCards ==
  ASSUME CInv, NEW p \in Turns, turn[p] # Idle,
         NEW next \in Jobs, next # Idle, next.card = turn[p].card, Proceed(p, next),
         UNCHANGED <<today, card, consumed, processing>>, saves' \in Nat,
         session' \in Seq([day : Nat, open : BOOLEAN]), task' \subseteq TaskRows
  PROVE  CInv' /\ CardsStay
<1>1. CardsStay /\ DOMAIN card' = DOMAIN card
  BY DEF CardsStay, CInv, TypeOK
<1>2. /\ turn' \in [Turns -> Jobs]
      /\ HeldByOne' /\ AnsweredOnce' /\ DeletedIsMarked'
  BY <1>1, HandlerGoesOn
<1>3. TypeOK'
  BY <1>2 DEF CInv, TypeOK
<1> QED BY <1>1, <1>2, <1>3 DEF CInv

LEMMA ReplyIsAJob ==
  ASSUME NEW c \in Nat, NEW next \in NewCards \cup {None}
  PROVE  /\ [op |-> "reply", card |-> c, next |-> next] \in Jobs
         /\ [op |-> "reply", card |-> c, next |-> next] # Idle
BY DEF Jobs, Idle

LEMMA CheckInStep ==
  ASSUME CInv, NEW p \in Turns, CheckIn(p)
  PROVE  CInv' /\ CardsStay
<1>1. turn[p] # Idle
  BY IdleIsAJob DEF CheckIn
<1>2. turn[p].card \in Nat
  BY <1>1, JobFields DEF CInv
<1>3. Len(session) + 1 \in Nat
  BY LenProperties DEF CInv, TypeOK
<1>4. Card("plan", Len(session) + 1, {}) \in NewCards
  BY <1>3, NewCardIsARow
<1>5. [day |-> today, open |-> TRUE] \in [day : Nat, open : BOOLEAN]
  BY DEF CInv, TypeOK
<1>6. session' \in Seq([day : Nat, open : BOOLEAN])
  BY <1>5, SessionsSwept, AppendProperties DEF CheckIn, CInv
<1>7. saves' \in Nat /\ task' \subseteq TaskRows
  BY DEF CheckIn, CInv, TypeOK
<1> QED BY <1>1, <1>2, <1>4, <1>6, <1>7, ReplyIsAJob, CallKeepsCards DEF CheckIn, Reply

LEMMA IdsAreIds ==
  ASSUME TypeOK, NEW rows \in SUBSET task
  PROVE  Ids(rows) \in SUBSET TaskIds
BY DEF TypeOK, Ids, TaskRows

LEMMA ShowReviewStep ==
  ASSUME CInv, NEW p \in Turns, ShowReview(p)
  PROVE  CInv' /\ CardsStay
<1>1. turn[p] # Idle
  BY IdleIsAJob DEF ShowReview
<1>2. turn[p].card \in Nat /\ Of(p) \in Nat
  BY <1>1, JobFields, CardInHand DEF CInv
<1>3. Ids(TasksOf(Of(p))) \in SUBSET TaskIds
  BY IdsAreIds DEF TasksOf, CInv
<1>4. Card("review", Of(p), Ids(TasksOf(Of(p)))) \in NewCards
  BY <1>2, <1>3, NewCardIsARow
<1>5. /\ saves' \in Nat /\ task' \subseteq TaskRows
      /\ session' \in Seq([day : Nat, open : BOOLEAN])
  BY DEF ShowReview, CInv, TypeOK
<1> QED BY <1>1, <1>2, <1>4, <1>5, ReplyIsAJob, CallKeepsCards DEF ShowReview, Reply

LEMMA SaveReadStep ==
  ASSUME CInv, NEW p \in Turns, SaveRead(p)
  PROVE  CInv' /\ CardsStay
<1> DEFINE next == [op |-> "delete", card |-> turn[p].card, names |-> turn[p].names,
                    available |-> Unfinished(Of(p))]
<1>1. turn[p] # Idle
  BY IdleIsAJob DEF SaveRead
<1>2. turn[p].card \in Nat /\ turn[p].names \in SUBSET Names
  BY <1>1, JobFields DEF CInv, SaveRead
<1>3. Unfinished(Of(p)) \in SUBSET TaskIds
  BY IdsAreIds DEF Unfinished, CInv
<1>4. next \in Jobs /\ next # Idle
  BY <1>2, <1>3 DEF Jobs, Idle
<1>5. /\ saves' \in Nat /\ task' \subseteq TaskRows
      /\ session' \in Seq([day : Nat, open : BOOLEAN])
  BY DEF SaveRead, CInv, TypeOK
<1> QED BY <1>1, <1>4, <1>5, CallKeepsCards DEF SaveRead

LEMMA SaveDeleteStep ==
  ASSUME CInv, NEW p \in Turns, SaveDelete(p)
  PROVE  CInv' /\ CardsStay
<1> DEFINE next == [op |-> "create", card |-> turn[p].card, names |-> turn[p].names,
                    available |-> turn[p].available, old |-> Ids(TasksOf(Of(p))),
                    began |-> saves]
<1>1. turn[p] # Idle
  BY IdleIsAJob DEF SaveDelete
<1>2. /\ turn[p].card \in Nat /\ turn[p].names \in SUBSET Names
      /\ turn[p].available \in SUBSET TaskIds
  BY <1>1, JobFields DEF CInv, SaveDelete
<1>3. Ids(TasksOf(Of(p))) \in SUBSET TaskIds /\ saves \in Nat
  BY IdsAreIds DEF TasksOf, CInv, TypeOK
<1>4. next \in Jobs /\ next # Idle
  BY <1>2, <1>3 DEF Jobs, Idle
<1>5. /\ saves' \in Nat /\ task' \subseteq TaskRows
      /\ session' \in Seq([day : Nat, open : BOOLEAN])
  BY DEF SaveDelete, CInv, TypeOK
<1> QED BY <1>1, <1>4, <1>5, CallKeepsCards DEF SaveDelete

LEMMA TaskFields ==
  ASSUME TypeOK, NEW t \in task
  PROVE  /\ t \in TaskRows /\ t.id \in TaskIds /\ t.of \in Nat
         /\ t.status \in {"not_started", "completed", "blocked"}
         /\ t.from \in TaskIds \cup {None} /\ t.began \in Nat /\ t.id \in Ids(task)
BY DEF TypeOK, TaskRows, Ids

\* What deleting tasks leaves of the others.
LEMMA WithoutFacts ==
  ASSUME TypeOK, NEW ids
  PROVE  /\ Without(task, ids) \subseteq TaskRows
         /\ \A t \in Without(task, ids) :
              \E u \in task : /\ u.id \notin ids /\ t.id = u.id /\ t.of = u.of /\ t.status = u.status
                             /\ t.began = u.began
                             /\ t.from = IF u.from \in ids THEN None ELSE u.from
         /\ \A u \in task : u.id \notin ids =>
              \E t \in Without(task, ids) : t.id = u.id /\ t.of = u.of /\ t.status = u.status
<1> DEFINE cut(u) == [u EXCEPT !.from = IF @ \in ids THEN None ELSE @]
<1>1. \A u \in task : /\ cut(u) \in TaskRows
                      /\ cut(u).id = u.id /\ cut(u).of = u.of /\ cut(u).status = u.status
                      /\ cut(u).began = u.began
                      /\ cut(u).from = IF u.from \in ids THEN None ELSE u.from
  BY TaskFields DEF TaskRows
<1>2. Without(task, ids) = {cut(t) : t \in {u \in task : u.id \notin ids}}
  BY DEF Without
<1> HIDE DEF cut
<1> QED BY <1>1, <1>2

\* A saved plan: what is deleted, what is left, and the new rows.
LEMMA SavedPlan ==
  ASSUME CInv, NEW p \in Turns, SaveCreate(p)
  PROVE  /\ turn[p] # Idle /\ turn[p].op = "create"
         /\ turn[p].old \in SUBSET TaskIds /\ turn[p].available \in SUBSET TaskIds
         /\ turn[p].names \in SUBSET Names
         /\ \E from \in [turn[p].names -> Ids(task) \cup {None}] :
              /\ \A n \in turn[p].names : from[n] \in CarriedFrom(p, n)
              /\ task' = Without(task, turn[p].old)
                           \cup {Row(p, n, from[n]) : n \in turn[p].names}
BY JobFields, IdleIsAJob DEF SaveCreate, CInv

LEMMA RowFields ==
  ASSUME CInv, NEW p \in Turns, turn[p].op = "create",
         NEW n \in Names, NEW from \in TaskIds \cup {None}
  PROVE  /\ Row(p, n, from) \in TaskRows
         /\ Row(p, n, from).id = [save |-> saves, name |-> n]
         /\ Row(p, n, from).of = Of(p)
         /\ Row(p, n, from).from = from
         /\ Row(p, n, from).began = turn[p].began
<1>1. Of(p) \in Nat /\ saves \in Nat /\ turn[p].began \in Nat
  BY CardInHand, JobFields, IdleIsAJob DEF CInv, TypeOK
<1> QED BY <1>1 DEF Row, TaskRows, TaskIds

LEMMA SaveCreateStep ==
  ASSUME CInv, NEW p \in Turns, SaveCreate(p)
  PROVE  CInv' /\ CardsStay
<1>1. turn[p] # Idle
  BY SavedPlan
<1>2. turn[p].card \in Nat /\ Of(p) \in Nat
  BY <1>1, JobFields, CardInHand DEF CInv
<1>3. PICK from \in [turn[p].names -> Ids(task) \cup {None}] :
        task' = Without(task, turn[p].old) \cup {Row(p, n, from[n]) : n \in turn[p].names}
  BY SavedPlan
<1>4. \A n \in turn[p].names : Row(p, n, from[n]) \in TaskRows
  <2>1. Ids(task) \in SUBSET TaskIds
    BY IdsAreIds DEF CInv
  <2> QED BY <1>1, <2>1, SavedPlan, RowFields
<1>5. task' \subseteq TaskRows
  BY <1>3, <1>4, WithoutFacts DEF CInv
<1>6. Card("working", Of(p), {}) \in NewCards
  BY <1>2, NewCardIsARow
<1>7. saves' \in Nat /\ session' \in Seq([day : Nat, open : BOOLEAN])
  BY DEF SaveCreate, CInv, TypeOK
<1> QED BY <1>1, <1>2, <1>5, <1>6, <1>7, ReplyIsAJob, CallKeepsCards DEF SaveCreate, Reply

\* A task's status changes, and nothing else.
LEMMA StatusSet ==
  ASSUME TypeOK, NEW i, NEW status \in {"completed", "blocked"}, SetStatus(i, status)
  PROVE  /\ task' \subseteq TaskRows
         /\ \A t \in task' : \E u \in task :
              /\ t.id = u.id /\ t.of = u.of /\ t.from = u.from /\ t.began = u.began
              /\ t.status = IF u.id = i THEN status ELSE u.status
         /\ \A u \in task : \E t \in task' : t.id = u.id /\ t.of = u.of /\ t.from = u.from
<1> DEFINE set(u) == IF u.id = i THEN [u EXCEPT !.status = status] ELSE u
<1>1. \A u \in task : /\ set(u) \in TaskRows
                      /\ set(u).id = u.id /\ set(u).of = u.of /\ set(u).from = u.from
                      /\ set(u).began = u.began
                      /\ set(u).status = IF u.id = i THEN status ELSE u.status
  BY TaskFields DEF TaskRows
<1>2. task' = {set(u) : u \in task}
  BY DEF SetStatus
<1> HIDE DEF set
<1> QED BY <1>1, <1>2

\* One task of the review is updated.
LEMMA Updated ==
  ASSUME CInv, NEW p \in Turns, Update(p)
  PROVE  /\ turn[p] # Idle /\ turn[p].op = "update"
         /\ \E i \in turn[p].todo \cap Ids(task), status \in {"completed", "blocked"} :
              /\ SetStatus(i, status)
              /\ Proceed(p, [turn[p] EXCEPT !.todo = @ \ {i}])
              /\ [turn[p] EXCEPT !.todo = @ \ {i}] \in Jobs
              /\ [turn[p] EXCEPT !.todo = @ \ {i}].op = "update"
              /\ [turn[p] EXCEPT !.todo = @ \ {i}].card = turn[p].card
              /\ [turn[p] EXCEPT !.todo = @ \ {i}].todo = turn[p].todo \ {i}
<1>1. turn[p] # Idle /\ turn[p].op = "update"
  BY IdleIsAJob DEF Update
<1>2. turn[p] \in [op : {"update"}, card : Nat, todo : SUBSET TaskIds, done : SUBSET TaskIds]
  BY <1>1 DEF CInv, TypeOK, Jobs, Idle
<1>3. \A i : /\ [turn[p] EXCEPT !.todo = @ \ {i}] \in Jobs
             /\ [turn[p] EXCEPT !.todo = @ \ {i}].op = "update"
             /\ [turn[p] EXCEPT !.todo = @ \ {i}].card = turn[p].card
             /\ [turn[p] EXCEPT !.todo = @ \ {i}].todo = turn[p].todo \ {i}
  BY <1>2 DEF Jobs
<1>4. PICK i \in turn[p].todo \cap Ids(task) :
        /\ SetStatus(i, IF i \in turn[p].done THEN "completed" ELSE "blocked")
        /\ Proceed(p, [turn[p] EXCEPT !.todo = @ \ {i}])
  BY DEF Update
<1>5. (IF i \in turn[p].done THEN "completed" ELSE "blocked") \in {"completed", "blocked"}
  OBVIOUS
<1> QED BY <1>1, <1>3, <1>4, <1>5

LEMMA UpdateStep ==
  ASSUME CInv, NEW p \in Turns, Update(p)
  PROVE  CInv' /\ CardsStay
<1>1. PICK i \in turn[p].todo \cap Ids(task), status \in {"completed", "blocked"} :
        /\ SetStatus(i, status)
        /\ Proceed(p, [turn[p] EXCEPT !.todo = @ \ {i}])
        /\ [turn[p] EXCEPT !.todo = @ \ {i}] \in Jobs
        /\ [turn[p] EXCEPT !.todo = @ \ {i}].op = "update"
        /\ [turn[p] EXCEPT !.todo = @ \ {i}].card = turn[p].card
  BY Updated
<1>2. task' \subseteq TaskRows
  BY <1>1, StatusSet DEF CInv
<1>3. [turn[p] EXCEPT !.todo = @ \ {i}] # Idle
  BY <1>1, IdleIsAJob
<1>4. saves' \in Nat /\ session' \in Seq([day : Nat, open : BOOLEAN])
  BY DEF Update, CInv, TypeOK
<1> QED BY <1>1, <1>2, <1>3, <1>4, Updated, CallKeepsCards DEF Update

LEMMA CheckOutStep ==
  ASSUME CInv, NEW p \in Turns, CheckOut(p)
  PROVE  CInv' /\ CardsStay
<1>1. turn[p] # Idle
  BY IdleIsAJob DEF CheckOut
<1>2. turn[p].card \in Nat
  BY <1>1, JobFields DEF CInv
<1>3. session' \in Seq([day : Nat, open : BOOLEAN])
  <2>1. /\ session \in Seq([day : Nat, open : BOOLEAN])
        /\ DOMAIN session = 1 .. Len(session) /\ Len(session) \in Nat
    BY LenProperties DEF CInv, TypeOK
  <2>2. \A s \in DOMAIN session : session[s] \in [day : Nat, open : BOOLEAN]
    BY <2>1, ElementOfSeq
  <2>3. session' \in [1 .. Len(session) -> [day : Nat, open : BOOLEAN]]
    BY <2>1, <2>2 DEF CheckOut
  <2> QED BY <2>1, <2>3, SeqDef
<1>4. saves' \in Nat /\ task' \subseteq TaskRows
  BY DEF CheckOut, CInv, TypeOK
<1> QED BY <1>1, <1>2, <1>3, <1>4, ReplyIsAJob, CallKeepsCards DEF CheckOut, Reply

LEMMA HelloStep ==
  ASSUME CInv, Hello
  PROVE  CInv' /\ CardsStay
<1>1. Len(session) \in Nat
  BY LenProperties DEF CInv, TypeOK
<1>2. Card("working", Len(session), {}) \in NewCards /\ Card("checkIn", 0, {}) \in NewCards
  BY <1>1, NewCardIsARow
<1>3. PICK row \in NewCards : card' = Append(card, row)
  BY <1>2 DEF Hello
<1>4. /\ CardsStay /\ DOMAIN card \subseteq DOMAIN card'
      /\ \A c \in DOMAIN card' : IF c \in DOMAIN card THEN card'[c] = card[c]
                                 ELSE card'[c].chat = "shown"
  BY <1>3, CardAdded DEF CInv
<1>5. TypeOK'
  BY <1>4, SessionsSwept DEF Hello, CInv, TypeOK, CardsStay
<1>6. HeldByOne'
  BY DEF Hello, CInv, HeldByOne, Busy
<1>7. \A p \in Busy : turn[p].card \in DOMAIN card
  BY CardInHand DEF Busy
<1>8. AnsweredOnce'
  BY <1>4, <1>7 DEF Hello, CInv, AnsweredOnce, Busy
<1>9. DeletedIsMarked'
  BY <1>4 DEF Hello, CInv, DeletedIsMarked
<1> QED BY <1>4, <1>5, <1>6, <1>8, <1>9 DEF CInv

LEMMA ForgetStep ==
  ASSUME CInv, NEW c \in consumed, Forget(c)
  PROVE  CInv' /\ CardsStay
<1>1. /\ CardsStay
      /\ DOMAIN card' = DOMAIN card
      /\ \A d \in DOMAIN card : card'[d].chat = "gone" => card[d].chat = "gone" /\ d \notin {c}
      /\ \A d \in DOMAIN card : card[d].chat = "shown" => card'[d].chat = "shown"
  BY CardsForgotten DEF Forget, CInv
<1>2. \A p \in Busy : turn[p].card \in DOMAIN card
  BY CardInHand DEF Busy
<1>3. TypeOK'
  BY <1>1 DEF Forget, CInv, TypeOK, CardsStay
<1>4. Busy' = Busy /\ turn' = turn /\ processing' = processing /\ consumed' = consumed \ {c}
  BY DEF Forget, Busy
<1>5. HeldByOne'
  BY <1>4 DEF CInv, HeldByOne
<1>6. AnsweredOnce'
  BY <1>1, <1>2, <1>4 DEF CInv, AnsweredOnce
<1>7. DeletedIsMarked'
  BY <1>1, <1>4 DEF CInv, DeletedIsMarked
<1> QED BY <1>1, <1>3, <1>5, <1>6, <1>7 DEF CInv

LEMMA RestartStep ==
  ASSUME CInv, Restart
  PROVE  CInv' /\ CardsStay
<1>1. /\ CardsStay
      /\ DOMAIN card' = DOMAIN card
      /\ \A d \in DOMAIN card : card'[d].chat = "gone" => d \notin DOMAIN card
  BY CardsForgotten DEF Restart, CInv
<1>2. Busy' = {} /\ turn' \in [Turns -> Jobs]
  BY IdleIsAJob DEF Restart, Busy
<1>3. TypeOK'
  BY <1>1, <1>2 DEF Restart, CInv, TypeOK, CardsStay
<1>4. HeldByOne' /\ AnsweredOnce' /\ DeletedIsMarked'
  BY <1>1, <1>2 DEF Restart, HeldByOne, AnsweredOnce, DeletedIsMarked
<1> QED BY <1>1, <1>3, <1>4 DEF CInv

LEMMA CStep ==
  ASSUME CInv, [Next]_vars
  PROVE  CInv' /\ CardsStay
<1>1. CASE NextDay \/ Sweep \/ UNCHANGED vars
  <2>1. UNCHANGED <<task, saves, card, consumed, processing, turn>>
    BY <1>1 DEF NextDay, Sweep, vars
  <2>2. today' \in Nat /\ session' \in Seq([day : Nat, open : BOOLEAN])
    BY <1>1, SessionsSwept DEF NextDay, Sweep, vars, CInv, TypeOK
  <2>3. TypeOK' /\ CardsStay
    BY <2>1, <2>2 DEF CInv, TypeOK, CardsStay
  <2>4. HeldByOne' /\ AnsweredOnce' /\ DeletedIsMarked'
    BY <2>1 DEF CInv, HeldByOne, AnsweredOnce, DeletedIsMarked, Busy
  <2> QED BY <2>3, <2>4 DEF CInv
<1>2. CASE Hello
  BY <1>2, HelloStep
<1>3. CASE Restart
  BY <1>3, RestartStep
<1>4. ASSUME NEW c \in consumed, Forget(c)
      PROVE  CInv' /\ CardsStay
  BY <1>4, ForgetStep
<1>5. ASSUME NEW p \in Turns,
             \/ \E c \in DOMAIN card : Click(p, c)
             \/ CheckIn(p) \/ ShowReview(p)
             \/ SaveRead(p) \/ SaveDelete(p) \/ SaveCreate(p)
             \/ Update(p) \/ CheckOut(p)
             \/ Answer(p) \/ Close(p) \/ Fail(p)
      PROVE  CInv' /\ CardsStay
  BY <1>5, ClickStep, CheckInStep, ShowReviewStep, SaveReadStep, SaveDeleteStep,
     SaveCreateStep, UpdateStep, CheckOutStep, AnswerStep, CloseStep, FailStep
<1> QED BY <1>1, <1>2, <1>3, <1>4, <1>5 DEF Next

LEMMA CInit ==
  ASSUME Init
  PROVE  CInv
<1>1. <<>> \in Seq([day : Nat, open : BOOLEAN]) /\ <<>> \in Seq(CardRows)
  BY EmptySeq
<1>2. TypeOK
  BY <1>1, IdleIsAJob DEF Init, TypeOK
<1>3. Busy = {} /\ DOMAIN card = {}
  BY DEF Init, Busy
<1> QED BY <1>2, <1>3 DEF Init, CInv, HeldByOne, AnsweredOnce, DeletedIsMarked

LEMMA Cards == Spec => []CInv
BY CInit, CStep, PTL DEF Spec

\* The types of the tables, the cards and the handlers.
THEOREM DayTypesCorrect == Spec => []TypeOK
<1>1. CInv => TypeOK
  BY DEF CInv
<1> QED BY <1>1, Cards, PTL

\* A card is in the hands of one handler at most, and of none for good, however
\* many clicks arrive and however the handlers end.
THEOREM CardsHeldByOne == Spec => []HeldByOne
<1>1. CInv => HeldByOne
  BY DEF CInv
<1> QED BY <1>1, Cards, PTL

\* No handler works on a card that has been answered, as long as it is remembered
\* or could be deleted.
THEOREM CardsAnsweredOnce == Spec => []AnsweredOnce
<1>1. CInv => AnsweredOnce
  BY DEF CInv
<1> QED BY <1>1, Cards, PTL

-----------------------------------------------------------------------------
(* Links between tasks *)

\* Ids are not used again.
IdsFresh ==
  /\ \A t \in task : t.id.save < saves
  /\ \A t, u \in task : t.id = u.id => t.of = u.of

\* What a save has read: the tasks it may carry over are of other sessions, those
\* it deletes of its own.
ReadsStand(p) ==
  /\ turn[p].op \in {"delete", "create"} =>
       \A i \in turn[p].available :
         i.save < saves /\ \A t \in task : t.id = i => t.of # Of(p)
  /\ turn[p].op = "create" =>
       \A i \in turn[p].old :
         i.save < saves /\ \A t \in task : t.id = i => t.of = Of(p)

LInv == CInv /\ IdsFresh /\ (\A p \in Turns : ReadsStand(p)) /\ LinksResolve

\* Rows come from rows, or are new with the number of the save.
RowsStay ==
  /\ saves' \in {saves, saves + 1}
  /\ \A t \in task' :
       \/ \E u \in task : t.id = u.id /\ t.of = u.of
       \/ t.id.save = saves /\ saves' = saves + 1

LEMMA SameRowsStay ==
  ASSUME UNCHANGED <<task, saves>>
  PROVE  RowsStay
BY DEF RowsStay

\* The handler of another click, or the same in a step that does not concern it.
LEMMA ReadsGoOn ==
  ASSUME LInv, CardsStay, RowsStay, NEW p \in Turns, turn'[p] = turn[p]
  PROVE  ReadsStand(p)'
<1>1. CASE turn[p] = Idle
  BY <1>1, IdleIsAJob DEF ReadsStand
<1>2. CASE turn[p] # Idle
  <2>1. Of(p)' = Of(p)
    BY <1>2, CardInHand DEF Of, CardsStay, LInv
  <2>2. saves \in Nat /\ ReadsStand(p)
    BY DEF LInv, CInv, TypeOK
  <2>3. /\ turn[p].op \in {"delete", "create"} => turn[p].available \subseteq TaskIds
        /\ turn[p].op = "create" => turn[p].old \subseteq TaskIds
    BY JobFields DEF LInv, CInv
  <2>4. ASSUME NEW i \in TaskIds, i.save < saves
        PROVE  i.save < saves' /\ \A t \in task' : t.id = i => \E u \in task : u.id = i /\ t.of = u.of
    <3>1. i.save \in Nat
      BY DEF TaskIds
    <3> QED BY <2>2, <2>4, <3>1 DEF RowsStay
  <2> QED BY <2>1, <2>2, <2>3, <2>4 DEF ReadsStand
<1> QED BY <1>1, <1>2

\* Steps that write no task, and read none for a save.
LEMMA QuietStep ==
  ASSUME LInv, CInv', CardsStay, UNCHANGED <<task, saves>>,
         \A p \in Turns : turn'[p] = turn[p] \/ turn'[p].op \notin {"delete", "create"}
  PROVE  LInv'
<1>1. \A p \in Turns : ReadsStand(p)'
  <2> SUFFICES ASSUME NEW p \in Turns PROVE ReadsStand(p)'
    OBVIOUS
  <2>1. CASE turn'[p] = turn[p]
    BY <2>1, SameRowsStay, ReadsGoOn
  <2>2. CASE turn'[p].op \notin {"delete", "create"}
    BY <2>2 DEF ReadsStand
  <2> QED BY <2>1, <2>2
<1>2. IdsFresh' /\ LinksResolve'
  BY DEF LInv, IdsFresh, LinksResolve
<1> QED BY <1>1, <1>2 DEF LInv

LEMMA ProceedFacts ==
  ASSUME CInv, NEW p \in Turns, NEW next, Proceed(p, next)
  PROVE  /\ turn'[p] = next
         /\ \A q \in Turns \ {p} : turn'[q] = turn[q]
BY DEF CInv, TypeOK, Proceed

LEMMA ReadLinks ==
  ASSUME LInv, CInv', CardsStay, NEW p \in Turns, SaveRead(p)
  PROVE  LInv'
<1>1. /\ turn'[p].op = "delete" /\ turn'[p].available = Unfinished(Of(p))
      /\ turn'[p].card = turn[p].card
      /\ \A q \in Turns \ {p} : turn'[q] = turn[q]
  BY ProceedFacts DEF SaveRead, LInv
<1>2. Of(p)' = Of(p)
  BY <1>1 DEF SaveRead, Of
<1>3. ReadsStand(p)'
  <2>1. \A i \in Unfinished(Of(p)) : \E u \in task : u.id = i /\ u.of # Of(p)
    BY DEF Unfinished, Ids
  <2>2. \A i \in Unfinished(Of(p)) : i.save < saves /\ \A t \in task : t.id = i => t.of # Of(p)
    BY <2>1 DEF LInv, IdsFresh
  <2> QED BY <1>1, <1>2, <2>2 DEF ReadsStand, SaveRead
<1>4. \A q \in Turns \ {p} : ReadsStand(q)'
  BY <1>1, SameRowsStay, ReadsGoOn DEF SaveRead
<1>5. IdsFresh' /\ LinksResolve'
  BY DEF SaveRead, LInv, IdsFresh, LinksResolve
<1> QED BY <1>3, <1>4, <1>5 DEF LInv

LEMMA DeleteLinks ==
  ASSUME LInv, CInv', CardsStay, NEW p \in Turns, SaveDelete(p)
  PROVE  LInv'
<1>1. /\ turn'[p].op = "create" /\ turn'[p].available = turn[p].available
      /\ turn'[p].old = Ids(TasksOf(Of(p))) /\ turn'[p].card = turn[p].card
      /\ \A q \in Turns \ {p} : turn'[q] = turn[q]
  BY ProceedFacts DEF SaveDelete, LInv
<1>2. Of(p)' = Of(p)
  BY <1>1 DEF SaveDelete, Of
<1>3. ReadsStand(p)'
  <2>1. \A i \in Ids(TasksOf(Of(p))) : \E u \in task : u.id = i /\ u.of = Of(p)
    BY DEF TasksOf, Ids
  <2>2. \A i \in Ids(TasksOf(Of(p))) : i.save < saves /\ \A t \in task : t.id = i => t.of = Of(p)
    BY <2>1 DEF LInv, IdsFresh
  <2>3. \A i \in turn[p].available : i.save < saves /\ \A t \in task : t.id = i => t.of # Of(p)
    BY DEF SaveDelete, LInv, ReadsStand
  <2> QED BY <1>1, <1>2, <2>2, <2>3 DEF ReadsStand, SaveDelete
<1>4. \A q \in Turns \ {p} : ReadsStand(q)'
  BY <1>1, SameRowsStay, ReadsGoOn DEF SaveDelete
<1>5. IdsFresh' /\ LinksResolve'
  BY DEF SaveDelete, LInv, IdsFresh, LinksResolve
<1> QED BY <1>3, <1>4, <1>5 DEF LInv

\* What the tasks are after a save.
LEMMA SavedRows ==
  ASSUME CInv, NEW p \in Turns, SaveCreate(p)
  PROVE  /\ \A t \in task' :
              \/ \E u \in task : /\ u.id \notin turn[p].old /\ t.id = u.id /\ t.of = u.of
                               /\ t.status = u.status /\ t.began = u.began
                               /\ t.from = IF u.from \in turn[p].old THEN None ELSE u.from
              \/ /\ t.id.save = saves /\ t.of = Of(p) /\ t.began = turn[p].began
                 /\ t.from # None => /\ t.from \in turn[p].available \cap Ids(task)
                                     /\ t.from.name = t.id.name
         /\ \A u \in task : u.id \notin turn[p].old => \E t \in task' : t.id = u.id /\ t.of = u.of
<1>1. PICK from \in [turn[p].names -> Ids(task) \cup {None}] :
        /\ \A n \in turn[p].names : from[n] \in CarriedFrom(p, n)
        /\ task' = Without(task, turn[p].old) \cup {Row(p, n, from[n]) : n \in turn[p].names}
  BY SavedPlan
<1>2. ASSUME NEW n \in turn[p].names
      PROVE  LET t == Row(p, n, from[n])
             IN  /\ t.id.save = saves /\ t.of = Of(p) /\ t.began = turn[p].began
                 /\ t.from # None => /\ t.from \in turn[p].available \cap Ids(task)
                                     /\ t.from.name = t.id.name
  <2>1. /\ n \in Names /\ turn[p].op = "create" /\ from[n] \in TaskIds \cup {None}
        /\ from[n] # None => from[n] \in Ids(task)
    BY SavedPlan, IdsAreIds DEF CInv
  <2>2. from[n] # None => from[n] \in turn[p].available /\ from[n].name = n
    BY <1>1 DEF CarriedFrom
  <2>3. /\ Row(p, n, from[n]).id = [save |-> saves, name |-> n]
        /\ Row(p, n, from[n]).of = Of(p) /\ Row(p, n, from[n]).from = from[n]
        /\ Row(p, n, from[n]).began = turn[p].began
    BY <2>1, RowFields
  <2> QED BY <2>1, <2>2, <2>3
<1> QED BY <1>1, <1>2, WithoutFacts DEF CInv

LEMMA CreateLinks ==
  ASSUME LInv, CInv', CardsStay, NEW p \in Turns, SaveCreate(p)
  PROVE  LInv'
<1>1. saves \in Nat /\ saves' = saves + 1 /\ \A t \in task : t.id.save < saves
  BY DEF SaveCreate, LInv, IdsFresh, CInv, TypeOK
<1>2. RowsStay
  BY <1>1, SavedRows DEF RowsStay, LInv
<1>3. \A q \in Turns : ReadsStand(q)'
  <2>1. /\ turn'[p].op = "reply"
        /\ \A q \in Turns \ {p} : turn'[q] = turn[q]
    BY ProceedFacts DEF SaveCreate, Reply, LInv
  <2>2. ReadsStand(p)'
    BY <2>1 DEF ReadsStand
  <2> QED BY <2>1, <2>2, <1>2, ReadsGoOn
<1>4. IdsFresh'
  <2>1. \A t \in task' :
          \/ \E u \in task : t.id = u.id /\ t.of = u.of
          \/ t.id.save = saves /\ t.of = Of(p)
    BY SavedRows DEF LInv
  <2>2. \A t \in task : t.id.save \in Nat
    BY TaskFields DEF LInv, CInv, TaskIds
  <2>3. \A t \in task' : t.id.save < saves'
    BY <1>1, <2>1, <2>2
  <2>4. \A t, u \in task' : t.id = u.id => t.of = u.of
    BY <1>1, <2>1, <2>2 DEF LInv, IdsFresh
  <2> QED BY <2>3, <2>4 DEF IdsFresh
<1>5. LinksResolve'
  <2> SUFFICES ASSUME NEW t \in task', t.from # None
      PROVE  \E v \in task' : v.id = t.from /\ v.id.name = t.id.name /\ v.of # t.of
    BY DEF LinksResolve
  <2>1. CASE \E u \in task : /\ u.id \notin turn[p].old /\ t.id = u.id /\ t.of = u.of
                            /\ t.from = IF u.from \in turn[p].old THEN None ELSE u.from
    <3>1. PICK u \in task : /\ t.id = u.id /\ t.of = u.of
                           /\ t.from = u.from /\ u.from \notin turn[p].old
      BY <2>1
    <3>2. PICK w \in task : w.id = u.from /\ w.id.name = u.id.name /\ w.of # u.of
      BY <3>1 DEF LInv, LinksResolve
    <3>3. \E v \in task' : v.id = w.id /\ v.of = w.of
      BY <3>1, <3>2, SavedRows DEF LInv
    <3> QED BY <3>1, <3>2, <3>3
  <2>2. CASE /\ t.of = Of(p)
             /\ t.from \in turn[p].available \cap Ids(task) /\ t.from.name = t.id.name
    <3>1. PICK w \in task : w.id = t.from
      BY <2>2 DEF Ids
    <3>2. turn[p].op = "create" /\ ReadsStand(p)
      BY DEF SaveCreate, LInv
    <3>3. w.of # Of(p) /\ w.id \notin turn[p].old
      BY <2>2, <3>1, <3>2 DEF ReadsStand
    <3>4. \E v \in task' : v.id = w.id /\ v.of = w.of
      BY <3>3, SavedRows DEF LInv
    <3> QED BY <2>2, <3>1, <3>3, <3>4
  <2> QED BY <2>1, <2>2, SavedRows DEF LInv
<1> QED BY <1>3, <1>4, <1>5 DEF LInv

LEMMA UpdateLinks ==
  ASSUME LInv, CInv', CardsStay, NEW p \in Turns, Update(p)
  PROVE  LInv'
<1>1. PICK i \in turn[p].todo \cap Ids(task), status \in {"completed", "blocked"} :
        /\ SetStatus(i, status)
        /\ Proceed(p, [turn[p] EXCEPT !.todo = @ \ {i}])
        /\ [turn[p] EXCEPT !.todo = @ \ {i}].op = "update"
  BY Updated DEF LInv
<1>2. /\ \A t \in task' : \E u \in task : t.id = u.id /\ t.of = u.of /\ t.from = u.from
      /\ \A u \in task : \E t \in task' : t.id = u.id /\ t.of = u.of
  BY <1>1, StatusSet DEF LInv, CInv
<1>3. saves' = saves
  BY DEF Update
<1>4. RowsStay
  BY <1>2, <1>3 DEF RowsStay
<1>5. \A q \in Turns : ReadsStand(q)'
  <2>1. turn'[p].op = "update" /\ \A q \in Turns \ {p} : turn'[q] = turn[q]
    BY <1>1, ProceedFacts DEF LInv
  <2>2. ReadsStand(p)'
    BY <2>1 DEF ReadsStand
  <2> QED BY <2>1, <2>2, <1>4, ReadsGoOn
<1>6. IdsFresh'
  <2>1. \A t \in task' : t.id.save < saves'
    BY <1>2, <1>3 DEF LInv, IdsFresh
  <2>2. \A t, u \in task' : t.id = u.id => t.of = u.of
    BY <1>2 DEF LInv, IdsFresh
  <2> QED BY <2>1, <2>2 DEF IdsFresh
<1>7. LinksResolve'
  <2> SUFFICES ASSUME NEW t \in task', t.from # None
      PROVE  \E v \in task' : v.id = t.from /\ v.id.name = t.id.name /\ v.of # t.of
    BY DEF LinksResolve
  <2>1. PICK u \in task : t.id = u.id /\ t.of = u.of /\ t.from = u.from
    BY <1>2
  <2>2. PICK w \in task : w.id = u.from /\ w.id.name = u.id.name /\ w.of # u.of
    BY <2>1 DEF LInv, LinksResolve
  <2> QED BY <2>1, <2>2, <1>2
<1> QED BY <1>5, <1>6, <1>7 DEF LInv

\* What a click starts is no save in its transaction.
LEMMA ClicksReadNothing ==
  ASSUME CInv, NEW c \in DOMAIN card, NEW first \in Clicks(c)
  PROVE  first.op \notin {"delete", "create"}
<1>1. card[c].kind \in {"checkIn", "working", "plan", "review"}
  BY CardFields DEF CInv, CardRows
<1>2. CASE card[c].kind = "checkIn"
  BY <1>2 DEF Clicks
<1>3. CASE card[c].kind = "working"
  BY <1>3 DEF Clicks
<1>4. CASE card[c].kind = "plan"
  BY <1>4 DEF Clicks
<1>5. CASE card[c].kind = "review"
  BY <1>5 DEF Clicks
<1> QED BY <1>1, <1>2, <1>3, <1>4, <1>5

LEMMA LStep ==
  ASSUME LInv, [Next]_vars
  PROVE  LInv'
<1>1. CInv' /\ CardsStay
  BY CStep DEF LInv
<1>2. CASE NextDay \/ Sweep \/ Hello \/ (\E c \in consumed : Forget(c)) \/ UNCHANGED vars
  <2>1. UNCHANGED <<task, saves, turn>>
    BY <1>2 DEF NextDay, Sweep, Hello, Forget, vars
  <2> QED BY <1>1, <2>1, QuietStep
<1>3. CASE Restart
  <2>1. UNCHANGED <<task, saves>> /\ \A p \in Turns : turn'[p].op = "idle"
    BY <1>3, IdleIsAJob DEF Restart
  <2> QED BY <1>1, <2>1, QuietStep
<1>4. ASSUME NEW p \in Turns, NEW c \in DOMAIN card, Click(p, c)
      PROVE  LInv'
  <2>1. PICK first \in Clicks(c) : Proceed(p, first)
    BY <1>4 DEF Click
  <2>2. turn'[p].op \notin {"delete", "create"} /\ \A q \in Turns \ {p} : turn'[q] = turn[q]
    BY <2>1, ClicksReadNothing, ProceedFacts DEF LInv
  <2>3. UNCHANGED <<task, saves>>
    BY <1>4 DEF Click
  <2> QED BY <1>1, <2>2, <2>3, QuietStep
<1>5. ASSUME NEW p \in Turns,
             \/ CheckIn(p) \/ ShowReview(p) \/ CheckOut(p)
             \/ Answer(p) \/ Close(p) \/ Fail(p)
      PROVE  LInv'
  <2>1. UNCHANGED <<task, saves>>
    BY <1>5 DEF CheckIn, ShowReview, CheckOut, Answer, Close, Fail
  <2>2. \E next : Proceed(p, next) /\ next.op \notin {"delete", "create"}
    BY <1>5, IdleIsAJob DEF CheckIn, ShowReview, CheckOut, Answer, Close, Fail, Reply, Release
  <2>3. turn'[p].op \notin {"delete", "create"} /\ \A q \in Turns \ {p} : turn'[q] = turn[q]
    BY <2>2, ProceedFacts DEF LInv
  <2> QED BY <1>1, <2>1, <2>3, QuietStep
<1>6. ASSUME NEW p \in Turns, SaveRead(p) \/ SaveDelete(p) \/ SaveCreate(p) \/ Update(p)
      PROVE  LInv'
  BY <1>1, <1>6, ReadLinks, DeleteLinks, CreateLinks, UpdateLinks
<1> QED BY <1>2, <1>3, <1>4, <1>5, <1>6 DEF Next

LEMMA LInit ==
  ASSUME Init
  PROVE  LInv
<1>1. CInv
  BY CInit
<1>2. \A p \in Turns : ReadsStand(p)
  BY IdleIsAJob DEF Init, ReadsStand
<1> QED BY <1>1, <1>2 DEF Init, LInv, IdsFresh, LinksResolve

LEMMA Links == Spec => []LInv
BY LInit, LStep, PTL DEF Spec

\* A carried-over task continues one that exists, whichever plans are saved again
\* and however the calls of several saves interleave.
THEOREM LinksAlwaysResolve == Spec => []LinksResolve
<1>1. LInv => LinksResolve
  BY DEF LInv
<1> QED BY <1>1, Links, PTL

-----------------------------------------------------------------------------
(* Plans that stay side by side.  A save will delete every task of its     *)
(* session that was there when its transaction began.                      *)

SeenFromStart(p) ==
  turn[p].op = "create" =>
    /\ turn[p].began <= saves
    /\ \A t \in task : t.of = Of(p) /\ t.id.save < turn[p].began => t.id \in turn[p].old

MInv == LInv /\ (\A p \in Turns : SeenFromStart(p)) /\ MixedPlansCrossed

\* Rows come from rows of the same save, or are new with the number of this one.
SavesStay ==
  /\ saves' \in {saves, saves + 1}
  /\ \A t \in task' :
       \/ \E u \in task : t.id = u.id /\ t.of = u.of
       \/ t.id.save = saves

LEMMA SeenGoesOn ==
  ASSUME MInv, CardsStay, SavesStay, NEW p \in Turns, turn'[p] = turn[p]
  PROVE  SeenFromStart(p)'
<1> SUFFICES ASSUME turn[p].op = "create"
             PROVE  /\ turn[p].began <= saves'
                    /\ \A t \in task' : t.of = Of(p)' /\ t.id.save < turn[p].began
                                          => t.id \in turn[p].old
  BY DEF SeenFromStart
<1>1. turn[p].began \in Nat /\ saves \in Nat /\ saves' \in {saves, saves + 1}
  BY JobFields, IdleIsAJob DEF MInv, LInv, CInv, TypeOK, SavesStay
<1>2. Of(p)' = Of(p)
  BY CardInHand, IdleIsAJob DEF Of, CardsStay, MInv, LInv
<1>3. /\ turn[p].began <= saves
      /\ \A t \in task : t.of = Of(p) /\ t.id.save < turn[p].began => t.id \in turn[p].old
  BY DEF MInv, SeenFromStart
<1>4. ASSUME NEW t \in task', t.of = Of(p), t.id.save < turn[p].began
      PROVE  t.id \in turn[p].old
  <2>1. t.id.save # saves
    BY <1>1, <1>3, <1>4
  <2>2. PICK u \in task : t.id = u.id /\ t.of = u.of
    BY <2>1 DEF SavesStay
  <2> QED BY <1>3, <1>4, <2>2
<1> QED BY <1>1, <1>2, <1>3, <1>4

\* Steps that write no task, and begin no transaction.
LEMMA MixedQuiet ==
  ASSUME MInv, LInv', CardsStay, UNCHANGED <<task, saves>>,
         \A p \in Turns : turn'[p] = turn[p] \/ turn'[p].op # "create"
  PROVE  MInv'
<1>1. \A p \in Turns : SeenFromStart(p)'
  <2> SUFFICES ASSUME NEW p \in Turns PROVE SeenFromStart(p)'
    OBVIOUS
  <2>1. CASE turn'[p] = turn[p]
    <3>1. SavesStay
      BY DEF SavesStay
    <3> QED BY <2>1, <3>1, SeenGoesOn
  <2>2. CASE turn'[p].op # "create"
    BY <2>2 DEF SeenFromStart
  <2> QED BY <2>1, <2>2
<1>2. MixedPlansCrossed'
  BY DEF MInv, MixedPlansCrossed
<1> QED BY <1>1, <1>2 DEF MInv

LEMMA MixedDelete ==
  ASSUME MInv, LInv', CardsStay, NEW p \in Turns, SaveDelete(p)
  PROVE  MInv'
<1>1. /\ turn'[p].old = Ids(TasksOf(Of(p))) /\ turn'[p].card = turn[p].card
      /\ turn'[p].began = saves /\ turn'[p].op = "create"
      /\ \A q \in Turns \ {p} : turn'[q] = turn[q]
  BY ProceedFacts DEF SaveDelete, MInv, LInv
<1>2. Of(p)' = Of(p) /\ UNCHANGED <<task, saves>> /\ saves \in Nat
  BY <1>1 DEF SaveDelete, Of, MInv, LInv, CInv, TypeOK
<1>3. SeenFromStart(p)'
  BY <1>1, <1>2 DEF SeenFromStart, Ids, TasksOf
<1>4. \A q \in Turns \ {p} : SeenFromStart(q)'
  BY <1>1, <1>2, SeenGoesOn DEF SavesStay
<1>5. MixedPlansCrossed'
  BY <1>2 DEF MInv, MixedPlansCrossed
<1> QED BY <1>3, <1>4, <1>5 DEF MInv

LEMMA MixedCreate ==
  ASSUME MInv, LInv', CardsStay, NEW p \in Turns, SaveCreate(p)
  PROVE  MInv'
<1>1. saves \in Nat /\ saves' = saves + 1 /\ CInv /\ turn[p].op = "create"
  BY SavedPlan DEF SaveCreate, MInv, LInv, CInv, TypeOK
<1>2. turn[p].began \in Nat /\ turn[p].began <= saves
  BY <1>1, JobFields DEF MInv, SeenFromStart, CInv
<1>3. \A t \in task' :
        \/ \E u \in task : /\ u.id \notin turn[p].old /\ t.id = u.id /\ t.of = u.of
                           /\ t.began = u.began
        \/ t.id.save = saves /\ t.of = Of(p) /\ t.began = turn[p].began
  BY <1>1, SavedRows
<1>4. \A t \in task : t.id.save \in Nat /\ t.id.save < saves
  BY <1>1, TaskFields DEF MInv, LInv, IdsFresh, CInv, TaskIds
<1>5. \A q \in Turns : SeenFromStart(q)'
  <2>1. SavesStay
    BY <1>1, <1>3 DEF SavesStay
  <2>2. turn'[p].op = "reply" /\ \A q \in Turns \ {p} : turn'[q] = turn[q]
    BY <1>1, ProceedFacts DEF SaveCreate, Reply
  <2> QED BY <2>1, <2>2, SeenGoesOn DEF SeenFromStart
<1>6. ASSUME NEW t \in task', NEW u \in task', t.of = u.of, t.id.save < u.id.save
      PROVE  u.began <= t.id.save
  <2>1. ASSUME NEW v \in task, t.id = v.id, t.of = v.of, v.id \notin turn[p].old
        PROVE  u.began <= t.id.save
    <3>1. CASE \E w \in task : u.id = w.id /\ u.of = w.of /\ u.began = w.began
      BY <1>6, <2>1, <3>1 DEF MInv, MixedPlansCrossed
    <3>2. CASE u.of = Of(p) /\ u.began = turn[p].began
      <4>1. ~(v.id.save < turn[p].began)
        BY <1>1, <1>6, <2>1, <3>2 DEF MInv, SeenFromStart
      <4> QED BY <1>2, <1>4, <2>1, <3>2, <4>1
    <3> QED BY <1>3, <3>1, <3>2
  <2>2. CASE t.id.save = saves
    <3>1. u.id.save = saves \/ \E w \in task : u.id = w.id
      BY <1>3
    <3> QED BY <1>1, <1>4, <1>6, <2>2, <3>1
  <2> QED BY <1>3, <2>1, <2>2
<1> QED BY <1>5, <1>6 DEF MInv, MixedPlansCrossed

LEMMA MixedUpdate ==
  ASSUME MInv, LInv', CardsStay, NEW p \in Turns, Update(p)
  PROVE  MInv'
<1>1. PICK i \in turn[p].todo \cap Ids(task), status \in {"completed", "blocked"} :
        /\ SetStatus(i, status)
        /\ Proceed(p, [turn[p] EXCEPT !.todo = @ \ {i}])
        /\ [turn[p] EXCEPT !.todo = @ \ {i}].op = "update"
  BY Updated DEF MInv, LInv
<1>2. \A t \in task' : \E u \in task : t.id = u.id /\ t.of = u.of /\ t.began = u.began
  BY <1>1, StatusSet DEF MInv, LInv, CInv
<1>3. SavesStay
  BY <1>2 DEF SavesStay, Update
<1>4. turn'[p].op = "update" /\ \A q \in Turns \ {p} : turn'[q] = turn[q]
  BY <1>1, ProceedFacts DEF MInv, LInv
<1>5. \A q \in Turns : SeenFromStart(q)'
  BY <1>3, <1>4, SeenGoesOn DEF SeenFromStart
<1>6. MixedPlansCrossed'
  BY <1>2 DEF MInv, MixedPlansCrossed
<1> QED BY <1>5, <1>6 DEF MInv

LEMMA MixedStep ==
  ASSUME MInv, [Next]_vars
  PROVE  MInv'
<1>1. LInv' /\ CardsStay /\ CInv
  BY LStep, CStep DEF MInv, LInv
<1>2. CASE NextDay \/ Sweep \/ Hello \/ (\E c \in consumed : Forget(c)) \/ UNCHANGED vars
  <2>1. UNCHANGED <<task, saves, turn>>
    BY <1>2 DEF NextDay, Sweep, Hello, Forget, vars
  <2> QED BY <1>1, <2>1, MixedQuiet
<1>3. CASE Restart
  <2>1. UNCHANGED <<task, saves>> /\ \A p \in Turns : turn'[p].op = "idle"
    BY <1>3, IdleIsAJob DEF Restart
  <2> QED BY <1>1, <2>1, MixedQuiet
<1>4. ASSUME NEW p \in Turns, NEW c \in DOMAIN card, Click(p, c)
      PROVE  MInv'
  <2>1. PICK first \in Clicks(c) : Proceed(p, first)
    BY <1>4 DEF Click
  <2>2. turn'[p].op # "create" /\ \A q \in Turns \ {p} : turn'[q] = turn[q]
    BY <1>1, <2>1, ClicksReadNothing, ProceedFacts
  <2>3. UNCHANGED <<task, saves>>
    BY <1>4 DEF Click
  <2> QED BY <1>1, <2>2, <2>3, MixedQuiet
<1>5. ASSUME NEW p \in Turns,
             \/ CheckIn(p) \/ ShowReview(p) \/ CheckOut(p) \/ SaveRead(p)
             \/ Answer(p) \/ Close(p) \/ Fail(p)
      PROVE  MInv'
  <2>1. UNCHANGED <<task, saves>>
    BY <1>5 DEF CheckIn, ShowReview, CheckOut, SaveRead, Answer, Close, Fail
  <2>2. \E next : Proceed(p, next) /\ next.op # "create"
    BY <1>5, IdleIsAJob
       DEF CheckIn, ShowReview, CheckOut, SaveRead, Answer, Close, Fail, Reply, Release
  <2>3. turn'[p].op # "create" /\ \A q \in Turns \ {p} : turn'[q] = turn[q]
    BY <1>1, <2>2, ProceedFacts
  <2> QED BY <1>1, <2>1, <2>3, MixedQuiet
<1>6. ASSUME NEW p \in Turns, SaveDelete(p) \/ SaveCreate(p) \/ Update(p)
      PROVE  MInv'
  BY <1>1, <1>6, MixedDelete, MixedCreate, MixedUpdate
<1> QED BY <1>2, <1>3, <1>4, <1>5, <1>6 DEF Next

LEMMA MixedInit ==
  ASSUME Init
  PROVE  MInv
<1>1. LInv
  BY LInit
<1>2. task = {} /\ \A p \in Turns : turn[p].op = "idle"
  BY IdleIsAJob DEF Init
<1> QED BY <1>1, <1>2 DEF MInv, SeenFromStart, MixedPlansCrossed

\* However saves overlap, fail and interleave with reviews: a save whose
\* transaction began when another plan of its session was there replaces it whole.
THEOREM PlansReplaced == Spec => []MixedPlansCrossed
<1>1. MInv => MixedPlansCrossed
  BY DEF MInv
<1> QED BY <1>1, MixedInit, MixedStep, PTL DEF Spec

-----------------------------------------------------------------------------
(* Plans and reviews, with clicks on one card at a time *)

Alone == \A p, q \in Busy : p = q

\* The tasks on a review card are of saved plans, and as long as one of them is
\* there, they are a plan: plans come and go as a whole.
WholeIn(row, rows, n) ==
  row.kind = "review" =>
    /\ \A i \in row.ids : i.save < n
    /\ row.ids \cap Ids(rows) # {} => row.ids = Ids({t \in rows : t.of = row.of})

CardsWhole == \A c \in DOMAIN card : WholeIn(card[c], task, saves)

RepliesWhole ==
  \A p \in Turns : turn[p].op = "reply" /\ turn[p].next # None => WholeIn(turn[p].next, task, saves)

\* A save is about to delete its session's plan.
PlanHeld(p) == turn[p].op = "create" => Ids(TasksOf(Of(p))) \subseteq turn[p].old

\* What is done of a review.
Reviewed(p) ==
  turn[p].op = "update" =>
    /\ card[turn[p].card].kind = "review"
    /\ turn[p].todo \subseteq card[turn[p].card].ids
    /\ card[turn[p].card].ids \ turn[p].todo \subseteq Ids(task)
    /\ \A t \in task :
         t.id \in card[turn[p].card].ids \ turn[p].todo => t.status # "not_started"

SInv ==
  /\ LInv /\ Alone /\ OnePlan
  /\ CardsWhole /\ RepliesWhole
  /\ \A p \in Turns : PlanHeld(p) /\ Reviewed(p)

\* Where the new cards come from.
CardsFromReplies ==
  \A c \in DOMAIN card' \ DOMAIN card :
    \/ card'[c].kind # "review"
    \/ \E p \in Turns : turn[p].op = "reply" /\ turn[p].next # None /\ card'[c] = turn[p].next

\* Where the new review cards in replies come from.
RepliesFromTasks ==
  \A p \in Turns :
    turn'[p].op = "reply" /\ turn'[p].next # None =>
      \/ turn'[p] = turn[p]
      \/ turn'[p].next.kind # "review"
      \/ UNCHANGED <<task, saves>> /\ turn'[p].next.ids = Ids(TasksOf(turn'[p].next.of))

LEMMA CardsStayWhole ==
  ASSUME SInv, LInv', CardsStay, CardsFromReplies, RepliesFromTasks,
         \A row \in CardRows : WholeIn(row, task, saves) => WholeIn(row, task', saves')
  PROVE  CardsWhole' /\ RepliesWhole'
<1>1. ASSUME NEW p \in Turns, turn[p].op = "reply", turn[p].next # None
      PROVE  WholeIn(turn[p].next, task', saves')
  <2>1. turn[p].next \in CardRows
    BY <1>1, JobFields DEF SInv, LInv, CInv, NewCards
  <2> QED BY <1>1, <2>1 DEF SInv, RepliesWhole
<1>2. CardsWhole'
  <2> SUFFICES ASSUME NEW c \in DOMAIN card'
      PROVE  WholeIn(card'[c], task', saves')
    BY DEF CardsWhole
  <2>1. CASE c \in DOMAIN card
    <3>1. card[c] \in CardRows
      BY <2>1, CardFields DEF SInv, LInv, CInv
    <3>2. WholeIn(card[c], task', saves')
      BY <2>1, <3>1 DEF SInv, CardsWhole
    <3> QED BY <2>1, <3>2 DEF CardsStay, WholeIn
  <2>2. CASE c \notin DOMAIN card
    BY <1>1, <2>2 DEF CardsFromReplies, WholeIn
  <2> QED BY <2>1, <2>2
<1>3. RepliesWhole'
  <2> SUFFICES ASSUME NEW p \in Turns, turn'[p].op = "reply", turn'[p].next # None
      PROVE  WholeIn(turn'[p].next, task', saves')
    BY DEF RepliesWhole
  <2>1. CASE turn'[p] = turn[p]
    BY <1>1, <2>1
  <2>2. CASE turn'[p].next.kind # "review"
    BY <2>2 DEF WholeIn
  <2>3. CASE UNCHANGED <<task, saves>> /\ turn'[p].next.ids = Ids(TasksOf(turn'[p].next.of))
    <3>1. \A i \in turn'[p].next.ids : i.save < saves'
      BY <2>3 DEF SInv, LInv, IdsFresh, Ids, TasksOf
    <3> QED BY <2>3, <3>1 DEF WholeIn, TasksOf
  <2> QED BY <2>1, <2>2, <2>3 DEF RepliesFromTasks
<1> QED BY <1>2, <1>3

\* The only handler at work goes on.
LEMMA OthersIdle ==
  ASSUME SInv, NEW p \in Turns, turn[p] # Idle, NEW next, Proceed(p, next)
  PROVE  /\ turn'[p] = next
         /\ \A q \in Turns \ {p} : turn'[q] = turn[q] /\ turn'[q] = Idle
         /\ \A q \in Turns \ {p} : PlanHeld(q)' /\ Reviewed(q)'
         /\ Alone'
<1>1. turn'[p] = next /\ \A q \in Turns \ {p} : turn'[q] = turn[q]
  BY ProceedFacts DEF SInv, LInv
<1>2. \A q \in Turns \ {p} : turn[q] = Idle
  BY DEF SInv, Alone, Busy
<1>3. \A q \in Turns \ {p} : PlanHeld(q)' /\ Reviewed(q)'
  BY <1>1, <1>2, IdleIsAJob DEF PlanHeld, Reviewed
<1>4. Alone'
  BY <1>1, <1>2 DEF Alone, Busy
<1> QED BY <1>1, <1>2, <1>3, <1>4

\* Steps that write no task, and start neither a transaction nor a review.
LEMMA SerialQuiet ==
  ASSUME SInv, LInv', CardsStay, CardsFromReplies, RepliesFromTasks, UNCHANGED <<task, saves>>,
         \A p \in Turns :
           /\ turn'[p] = turn[p] \/ turn'[p].op \notin {"create", "update"}
           /\ turn[p] = Idle => turn'[p] = Idle
  PROVE  SInv'
<1>1. CardsWhole' /\ RepliesWhole'
  BY CardsStayWhole
<1>2. Alone' /\ OnePlan'
  <2>1. Busy' \subseteq Busy
    BY DEF Busy
  <2>2. Alone'
    BY <2>1 DEF SInv, Alone
  <2>3. OnePlan'
    BY DEF SInv, OnePlan
  <2> QED BY <2>2, <2>3
<1>3. ASSUME NEW p \in Turns
      PROVE  PlanHeld(p)' /\ Reviewed(p)'
  <2>1. CASE turn'[p].op \notin {"create", "update"}
    BY <2>1 DEF PlanHeld, Reviewed
  <2>2. CASE turn'[p] = turn[p] /\ turn[p] # Idle
    <3>1. turn[p].card \in DOMAIN card
      BY <2>2, CardInHand DEF SInv, LInv
    <3>2. Of(p)' = Of(p) /\ card'[turn[p].card].kind = card[turn[p].card].kind
          /\ card'[turn[p].card].ids = card[turn[p].card].ids
      BY <2>2, <3>1 DEF Of, CardsStay
    <3>3. PlanHeld(p) /\ Reviewed(p)
      BY DEF SInv
    <3>4. PlanHeld(p)'
      BY <2>2, <3>2, <3>3 DEF PlanHeld, TasksOf
    <3>5. Reviewed(p)'
      BY <2>2, <3>2, <3>3 DEF Reviewed
    <3> QED BY <3>4, <3>5
  <2>3. CASE turn[p] = Idle
    <3>1. turn'[p].op = "idle"
      BY <2>3, IdleIsAJob
    <3> QED BY <3>1 DEF PlanHeld, Reviewed
  <2> QED BY <2>1, <2>2, <2>3
<1> QED BY <1>1, <1>2, <1>3 DEF SInv

\* What a click starts: a review is one of its card.
LEMMA ClicksStart ==
  ASSUME CInv, NEW c \in DOMAIN card, NEW first \in Clicks(c)
  PROVE  /\ first.op = "reply" /\ first.next # None => first.next.kind # "review"
         /\ first.op = "update" => card[c].kind = "review" /\ first.todo = card[c].ids
<1>1. card[c].kind \in {"checkIn", "working", "plan", "review"}
  BY CardFields DEF CInv, CardRows
<1>2. CASE card[c].kind = "checkIn"
  BY <1>2 DEF Clicks
<1>3. CASE card[c].kind = "working"
  BY <1>3 DEF Clicks, Card
<1>4. CASE card[c].kind = "plan"
  BY <1>4 DEF Clicks, Card
<1>5. CASE card[c].kind = "review"
  BY <1>5 DEF Clicks
<1> QED BY <1>1, <1>2, <1>3, <1>4, <1>5

LEMMA SerialClick ==
  ASSUME SInv, LInv', CardsStay, OneAtATime, NEW p \in Turns, NEW c \in DOMAIN card, Click(p, c)
  PROVE  SInv'
<1>1. PICK first \in Clicks(c) : Proceed(p, first)
  BY DEF Click
<1>2. first # Idle /\ first.card = c
  BY <1>1, ClicksAreJobs DEF SInv, LInv, CInv
<1>3. \A q \in Turns : turn[q] = Idle
  <2>1. \A q \in Busy : turn[q].card = c /\ turn[q].card \in processing
    BY CardInHand DEF Click, Busy, SInv, LInv
  <2> QED BY <2>1 DEF Click, Busy
<1>4. turn'[p] = first /\ \A q \in Turns \ {p} : turn'[q] = Idle
  BY <1>1, <1>3, ProceedFacts DEF SInv, LInv
<1>5. UNCHANGED <<task, saves, card>>
  BY DEF Click
<1>6. CardsFromReplies
  BY <1>5 DEF CardsFromReplies
<1>7. RepliesFromTasks
  BY <1>1, <1>4, ClicksStart, IdleIsAJob DEF RepliesFromTasks, SInv, LInv
<1>8. CardsWhole' /\ RepliesWhole'
  BY <1>5, <1>6, <1>7, CardsStayWhole
<1>9. Alone' /\ OnePlan'
  BY <1>4, <1>5 DEF Alone, Busy, SInv, OnePlan
<1>10. \A q \in Turns \ {p} : PlanHeld(q)' /\ Reviewed(q)'
  BY <1>4, IdleIsAJob DEF PlanHeld, Reviewed
<1>11. PlanHeld(p)' /\ Reviewed(p)'
  <2>1. first.op # "create"
    BY <1>1, ClicksReadNothing DEF SInv, LInv
  <2>2. first.op = "update" => card[c].kind = "review" /\ first.todo = card[c].ids
    BY <1>1, ClicksStart DEF SInv, LInv
  <2>3. PlanHeld(p)'
    BY <1>4, <2>1 DEF PlanHeld
  <2>4. Reviewed(p)'
    BY <1>2, <1>4, <1>5, <2>2 DEF Reviewed
  <2> QED BY <2>3, <2>4
<1> QED BY <1>8, <1>9, <1>10, <1>11 DEF SInv

LEMMA SerialDelete ==
  ASSUME SInv, LInv', CardsStay, NEW p \in Turns, SaveDelete(p)
  PROVE  SInv'
<1>1. turn[p] # Idle /\ UNCHANGED <<task, saves, card>>
  BY IdleIsAJob DEF SaveDelete
<1>2. /\ turn'[p].op = "create" /\ turn'[p].card = turn[p].card
      /\ turn'[p].old = Ids(TasksOf(Of(p)))
      /\ \A q \in Turns \ {p} : turn'[q] = turn[q] /\ PlanHeld(q)' /\ Reviewed(q)'
      /\ Alone'
  BY <1>1, OthersIdle DEF SaveDelete
<1>3. CardsFromReplies /\ RepliesFromTasks
  BY <1>1, <1>2 DEF CardsFromReplies, RepliesFromTasks
<1>4. CardsWhole' /\ RepliesWhole' /\ OnePlan'
  BY <1>1, <1>3, CardsStayWhole DEF SInv, OnePlan
<1>5. PlanHeld(p)' /\ Reviewed(p)'
  BY <1>1, <1>2 DEF PlanHeld, Reviewed, Of, TasksOf
<1> QED BY <1>2, <1>4, <1>5 DEF SInv

LEMMA SameElements ==
  ASSUME NEW S, NEW T, \A j : j \in S <=> j \in T
  PROVE  S = T
OBVIOUS

LEMMA SerialCreate ==
  ASSUME SInv, LInv', CardsStay, NEW p \in Turns, SaveCreate(p)
  PROVE  SInv'
<1>1. turn[p] # Idle /\ turn[p].op = "create" /\ UNCHANGED card /\ saves' = saves + 1
  BY IdleIsAJob DEF SaveCreate
<1>2. /\ turn'[p].op = "reply" /\ turn'[p].next = Card("working", Of(p), {})
      /\ \A q \in Turns \ {p} : turn'[q] = turn[q] /\ PlanHeld(q)' /\ Reviewed(q)'
      /\ Alone'
  BY <1>1, OthersIdle DEF SaveCreate, Reply
<1>3. CardsFromReplies /\ RepliesFromTasks
  BY <1>1, <1>2 DEF CardsFromReplies, RepliesFromTasks, Card
\* The session's plan goes, the others stay.
<1>4. /\ \A u \in task : u.of = Of(p) <=> u.id \in turn[p].old
      /\ \A i \in turn[p].old : i.save < saves
  <2>1. \A u \in task : u.of = Of(p) => u.id \in turn[p].old
    BY <1>1 DEF SInv, PlanHeld, TasksOf, Ids
  <2>2. /\ \A u \in task : u.id \in turn[p].old => u.of = Of(p)
        /\ \A i \in turn[p].old : i.save < saves
    BY <1>1 DEF SInv, LInv, ReadsStand
  <2> QED BY <2>1, <2>2
<1>5. \A t \in task' :
        \/ \E u \in task : t.id = u.id /\ t.of = u.of /\ u.of # Of(p)
        \/ t.id.save = saves /\ t.of = Of(p)
  BY <1>4, SavedRows DEF SInv, LInv
<1>6. \A u \in task : u.of # Of(p) => \E t \in task' : t.id = u.id /\ t.of = u.of
  BY <1>4, SavedRows DEF SInv, LInv
<1>7. OnePlan'
  <2> SUFFICES ASSUME NEW t \in task', NEW v \in task', t.of = v.of
      PROVE  t.id.save = v.id.save
    BY DEF OnePlan
  <2>1. CASE t.of = Of(p)
    BY <1>5, <2>1
  <2>2. CASE t.of # Of(p)
    BY <1>5, <2>2 DEF SInv, OnePlan
  <2> QED BY <2>1, <2>2
<1>8. ASSUME NEW row \in CardRows, WholeIn(row, task, saves)
      PROVE  WholeIn(row, task', saves')
  <2> SUFFICES ASSUME row.kind = "review"
      PROVE  /\ \A i \in row.ids : i.save < saves'
             /\ row.ids \cap Ids(task') # {} => row.ids = Ids({t \in task' : t.of = row.of})
    BY DEF WholeIn
  <2>1. \A i \in row.ids : i.save \in Nat /\ i.save < saves
    BY <1>8 DEF WholeIn, CardRows, TaskIds
  <2>2. saves \in Nat
    BY DEF SInv, LInv, CInv, TypeOK
  <2>3. ASSUME NEW i \in row.ids, NEW t \in task', t.id = i
        PROVE  row.ids = Ids({v \in task' : v.of = row.of})
    <3>1. PICK u \in task : u.id = i /\ u.of # Of(p)
      BY <1>5, <2>1, <2>2, <2>3
    <3>2. row.ids = Ids({v \in task : v.of = row.of})
      BY <1>8, <3>1 DEF WholeIn, Ids
    <3>3. PICK w \in task : w.id = i /\ w.of = row.of
      BY <3>2 DEF Ids
    <3>4. row.of # Of(p)
      BY <3>1, <3>3 DEF SInv, LInv, IdsFresh
    <3>5. \A j : (\E v \in task : v.id = j /\ v.of = row.of) <=> (\E v \in task' : v.id = j /\ v.of = row.of)
      BY <1>5, <1>6, <3>4
    <3>6. Ids({v \in task : v.of = row.of}) = Ids({v \in task' : v.of = row.of})
      <4> DEFINE before == Ids({v \in task : v.of = row.of})
                 after == Ids({v \in task' : v.of = row.of})
      <4>1. \A j : j \in before <=> \E v \in task : v.id = j /\ v.of = row.of
        BY DEF Ids
      <4>2. \A j : j \in after <=> \E v \in task' : v.id = j /\ v.of = row.of
        BY DEF Ids
      <4>3. \A j : j \in before <=> j \in after
        BY <3>5, <4>1, <4>2
      <4> QED BY <4>3, SameElements
    <3> QED BY <3>2, <3>6
  <2> QED BY <2>1, <2>2, <2>3, <1>1 DEF Ids
<1>9. CardsWhole' /\ RepliesWhole'
  BY <1>3, <1>8, CardsStayWhole
<1>10. PlanHeld(p)' /\ Reviewed(p)'
  BY <1>2 DEF PlanHeld, Reviewed
<1> QED BY <1>2, <1>7, <1>9, <1>10 DEF SInv

LEMMA SerialUpdate ==
  ASSUME SInv, LInv', CardsStay, NEW p \in Turns, Update(p)
  PROVE  SInv'
<1>1. turn[p] # Idle /\ turn[p].op = "update"
  BY Updated DEF SInv, LInv
<1>2. PICK i \in turn[p].todo \cap Ids(task), status \in {"completed", "blocked"} :
        /\ SetStatus(i, status)
        /\ Proceed(p, [turn[p] EXCEPT !.todo = @ \ {i}])
        /\ [turn[p] EXCEPT !.todo = @ \ {i}].op = "update"
        /\ [turn[p] EXCEPT !.todo = @ \ {i}].card = turn[p].card
        /\ [turn[p] EXCEPT !.todo = @ \ {i}].todo = turn[p].todo \ {i}
  BY Updated DEF SInv, LInv
<1>3. /\ turn'[p].op = "update" /\ turn'[p].card = turn[p].card
      /\ turn'[p].todo = turn[p].todo \ {i}
      /\ \A q \in Turns \ {p} : turn'[q] = turn[q] /\ PlanHeld(q)' /\ Reviewed(q)'
      /\ Alone'
  BY <1>1, <1>2, OthersIdle
<1>4. /\ \A t \in task' : \E u \in task :
           /\ t.id = u.id /\ t.of = u.of
           /\ t.status = IF u.id = i THEN status ELSE u.status
      /\ \A u \in task : \E t \in task' : t.id = u.id /\ t.of = u.of
  BY <1>2, StatusSet DEF SInv, LInv, CInv
<1>5. saves' = saves /\ card' = card
  BY DEF Update
<1>6. OnePlan'
  <2> SUFFICES ASSUME NEW t \in task', NEW v \in task', t.of = v.of
      PROVE  t.id.save = v.id.save
    BY DEF OnePlan
  <2> QED BY <1>4 DEF SInv, OnePlan
<1>7. CardsWhole' /\ RepliesWhole'
  <2>1. Ids(task') = Ids(task) /\ \A s : Ids({t \in task' : t.of = s}) = Ids({t \in task : t.of = s})
    BY <1>4 DEF Ids
  <2>2. \A row \in CardRows : WholeIn(row, task, saves) => WholeIn(row, task', saves')
    BY <1>5, <2>1 DEF WholeIn
  <2>3. CardsFromReplies /\ RepliesFromTasks
    BY <1>3, <1>5 DEF CardsFromReplies, RepliesFromTasks
  <2> QED BY <2>2, <2>3, CardsStayWhole
<1>8. PlanHeld(p)'
  BY <1>3 DEF PlanHeld
<1>9. Reviewed(p)'
  <2> DEFINE ids == card[turn[p].card].ids
  <2>1. /\ card[turn[p].card].kind = "review" /\ turn[p].todo \subseteq ids
        /\ ids \ turn[p].todo \subseteq Ids(task)
        /\ \A t \in task : t.id \in ids \ turn[p].todo => t.status # "not_started"
    BY <1>1 DEF SInv, Reviewed
  <2>2. ids \ turn'[p].todo = (ids \ turn[p].todo) \cup {i}
    BY <1>2, <1>3, <2>1
  <2>3. ids \ turn'[p].todo \subseteq Ids(task')
    BY <1>2, <1>4, <2>1, <2>2 DEF Ids
  <2>4. ASSUME NEW t \in task', t.id \in ids \ turn'[p].todo
        PROVE  t.status # "not_started"
    <3>1. PICK u \in task : t.id = u.id /\ t.status = IF u.id = i THEN status ELSE u.status
      BY <1>4
    <3> QED BY <2>1, <2>2, <2>4, <3>1
  <2> QED BY <1>3, <1>5, <2>1, <2>3, <2>4 DEF Reviewed
<1> QED BY <1>3, <1>6, <1>7, <1>8, <1>9 DEF SInv

LEMMA SerialStep ==
  ASSUME SInv, OneAtATime, [Next]_vars
  PROVE  SInv'
<1>1. LInv' /\ CardsStay
  BY CStep, LStep DEF SInv, LInv
<1>2. CASE NextDay \/ Sweep \/ (\E c \in consumed : Forget(c)) \/ UNCHANGED vars
  <2>1. UNCHANGED <<task, saves, turn>> /\ DOMAIN card' = DOMAIN card
    BY <1>2 DEF NextDay, Sweep, Forget, Forgotten, vars
  <2>2. CardsFromReplies /\ RepliesFromTasks
    BY <2>1 DEF CardsFromReplies, RepliesFromTasks
  <2> QED BY <1>1, <2>1, <2>2, SerialQuiet
<1>3. CASE Restart
  <2>1. /\ UNCHANGED <<task, saves>> /\ DOMAIN card' = DOMAIN card
        /\ \A p \in Turns : turn'[p] = Idle /\ turn'[p].op = "idle"
    BY <1>3, IdleIsAJob DEF Restart, Forgotten
  <2>2. CardsFromReplies /\ RepliesFromTasks
    BY <2>1 DEF CardsFromReplies, RepliesFromTasks
  <2> QED BY <1>1, <2>1, <2>2, SerialQuiet
<1>4. CASE Hello
  <2>1. UNCHANGED <<task, saves, turn>>
    BY <1>4 DEF Hello
  <2>2. Len(session) \in Nat
    BY LenProperties DEF SInv, LInv, CInv, TypeOK
  <2>3. PICK row \in NewCards : card' = Append(card, row) /\ row.kind # "review"
    <3>1. /\ Card("working", Len(session), {}) \in NewCards
          /\ Card("checkIn", 0, {}) \in NewCards
      BY <2>2, NewCardIsARow
    <3>2. /\ Card("working", Len(session), {}).kind # "review"
          /\ Card("checkIn", 0, {}).kind # "review"
      BY DEF Card
    <3> QED BY <1>4, <3>1, <3>2 DEF Hello
  <2>4. \A c \in DOMAIN card' \ DOMAIN card : card'[c] = row
    BY <2>3, CardAdded DEF SInv, LInv, CInv
  <2>5. CardsFromReplies /\ RepliesFromTasks
    BY <2>1, <2>3, <2>4 DEF CardsFromReplies, RepliesFromTasks
  <2> QED BY <1>1, <2>1, <2>5, SerialQuiet
<1>5. ASSUME NEW p \in Turns, Answer(p)
      PROVE  SInv'
  <2>1. turn[p] # Idle /\ turn[p].next \in NewCards \cup {None} /\ UNCHANGED <<task, saves>>
    BY <1>5, JobFields, IdleIsAJob DEF Answer, SInv, LInv, CInv
  <2>2. turn'[p].op = "close" /\ \A q \in Turns \ {p} : turn'[q] = turn[q]
    BY <1>5, ProceedFacts DEF Answer, SInv, LInv
  <2>3. RepliesFromTasks
    BY <2>2 DEF RepliesFromTasks
  <2>4. CardsFromReplies
    <3>1. CASE turn[p].next = None
      BY <1>5, <3>1 DEF Answer, CardsFromReplies
    <3>2. CASE turn[p].next # None
      <4>1. \A c \in DOMAIN card' \ DOMAIN card : card'[c] = turn[p].next
        BY <1>5, <2>1, <3>2, CardAdded DEF Answer, SInv, LInv, CInv
      <4> QED BY <1>5, <3>2, <4>1 DEF Answer, CardsFromReplies
    <3> QED BY <3>1, <3>2
  <2> QED BY <1>1, <2>1, <2>2, <2>3, <2>4, SerialQuiet
<1>6. ASSUME NEW p \in Turns, Close(p) \/ Fail(p)
      PROVE  SInv'
  <2>1. turn'[p] = Idle /\ \A q \in Turns \ {p} : turn'[q] = turn[q]
    BY <1>6, ProceedFacts DEF Close, Fail, Release, SInv, LInv
  <2>2. UNCHANGED <<task, saves>> /\ DOMAIN card' = DOMAIN card
    BY <1>6 DEF Close, Fail
  <2>3. CardsFromReplies /\ RepliesFromTasks
    BY <2>1, <2>2, IdleIsAJob DEF CardsFromReplies, RepliesFromTasks
  <2> QED BY <1>1, <2>1, <2>2, <2>3, IdleIsAJob, SerialQuiet
<1>7. ASSUME NEW p \in Turns, CheckIn(p) \/ ShowReview(p) \/ CheckOut(p) \/ SaveRead(p)
      PROVE  SInv'
  <2>1. turn[p] # Idle /\ UNCHANGED <<task, saves, card>>
    BY <1>7, IdleIsAJob DEF CheckIn, ShowReview, CheckOut, SaveRead
  <2>2. \E next :
          /\ Proceed(p, next)
          /\ next.op \in {"reply", "delete"}
          /\ next.op = "reply" /\ next.next # None =>
               \/ next.next.kind # "review"
               \/ next.next.ids = Ids(TasksOf(next.next.of))
    <3>1. CASE CheckIn(p) \/ CheckOut(p)
      BY <3>1 DEF CheckIn, CheckOut, Reply, Card
    <3>2. CASE ShowReview(p)
      BY <3>2 DEF ShowReview, Reply, Card
    <3>3. CASE SaveRead(p)
      BY <3>3 DEF SaveRead
    <3> QED BY <1>7, <3>1, <3>2, <3>3
  <2>3. /\ turn'[p].op \in {"reply", "delete"}
        /\ turn'[p].op = "reply" /\ turn'[p].next # None =>
             \/ turn'[p].next.kind # "review"
             \/ turn'[p].next.ids = Ids(TasksOf(turn'[p].next.of))
        /\ \A q \in Turns \ {p} : turn'[q] = turn[q]
    BY <2>2, ProceedFacts DEF SInv, LInv
  <2>4. CardsFromReplies /\ RepliesFromTasks
    BY <2>1, <2>3 DEF CardsFromReplies, RepliesFromTasks
  <2> QED BY <1>1, <2>1, <2>3, <2>4, SerialQuiet
<1>8. ASSUME NEW p \in Turns, (\E c \in DOMAIN card : Click(p, c))
                                \/ SaveDelete(p) \/ SaveCreate(p) \/ Update(p)
      PROVE  SInv'
  BY <1>1, <1>8, SerialClick, SerialDelete, SerialCreate, SerialUpdate
<1> QED BY <1>2, <1>3, <1>4, <1>5, <1>6, <1>7, <1>8 DEF Next

LEMMA SerialInit ==
  ASSUME Init
  PROVE  SInv
<1>1. LInv
  BY LInit
<1>2. Busy = {} /\ DOMAIN card = {} /\ task = {} /\ \A p \in Turns : turn[p].op = "idle"
  BY IdleIsAJob DEF Init, Busy
<1> QED BY <1>1, <1>2 DEF SInv, Alone, OnePlan, CardsWhole, RepliesWhole, PlanHeld, Reviewed

LEMMA Serial ==
  ASSUME OneAtATime
  PROVE  Spec => []SInv
BY SerialInit, SerialStep, PTL DEF Spec

\* When the last task of a review is done, the card shows the session's plan.
LEMMA DoneReview ==
  ASSUME SInv, NEW p \in Turns, turn[p].op = "update", turn[p].todo = {},
         card[turn[p].card].ids # {}
  PROVE  /\ Ids(TasksOf(Of(p))) = card[turn[p].card].ids
         /\ \A t \in TasksOf(Of(p)) : t.status # "not_started"
<1> DEFINE c == turn[p].card
           ids == card[c].ids
<1>1. turn[p] # Idle
  BY IdleIsAJob
<1>2. c \in DOMAIN card
  BY <1>1, CardInHand DEF SInv, LInv
<1>3. /\ card[c].kind = "review" /\ ids \subseteq Ids(task)
      /\ \A t \in task : t.id \in ids => t.status # "not_started"
  BY DEF SInv, Reviewed
<1>4. ids = Ids(TasksOf(Of(p)))
  BY <1>2, <1>3 DEF SInv, CardsWhole, WholeIn, TasksOf, Of
<1>5. \A t \in TasksOf(Of(p)) : t \in task /\ t.id \in ids
  BY <1>4 DEF TasksOf, Ids
<1> QED BY <1>3, <1>4, <1>5

\* As long as the employee waits for the answer to a click, a review that checks a
\* session out was of its whole plan as it then stands.
THEOREM ReviewsCoverPlans ==
  ASSUME OneAtATime
  PROVE  Spec => ReviewCoversPlan
<1> DEFINE Covers ==
      \A p \in Turns :
        turn[p].op = "update" /\ turn'[p].op = "reply" /\ card[turn[p].card].ids # {}
          => /\ Ids(TasksOf(Of(p))) = card[turn[p].card].ids
             /\ \A t \in TasksOf(Of(p)) : t.status # "not_started"
<1>1. SInv /\ [Next]_vars => [Covers]_vars
  <2> SUFFICES ASSUME SInv, Next, NEW p \in Turns, turn[p].op = "update", turn'[p].op = "reply",
                      card[turn[p].card].ids # {}
      PROVE  /\ Ids(TasksOf(Of(p))) = card[turn[p].card].ids
             /\ \A t \in TasksOf(Of(p)) : t.status # "not_started"
    BY DEF Covers
  <2>1. turn'[p] # turn[p] /\ turn'[p] # Idle /\ turn[p] # Idle
    BY IdleIsAJob
  <2>2. turn[p].todo = {}
    <3>1. CASE NextDay \/ Sweep \/ Hello \/ Restart \/ (\E c \in consumed : Forget(c))
      BY <2>1, <3>1 DEF NextDay, Sweep, Hello, Restart, Forget
    <3>2. ASSUME NEW q \in Turns,
                 \/ \E c \in DOMAIN card : Click(q, c)
                 \/ CheckIn(q) \/ ShowReview(q)
                 \/ SaveRead(q) \/ SaveDelete(q) \/ SaveCreate(q)
                 \/ Answer(q) \/ Close(q) \/ Fail(q)
          PROVE  FALSE
      <4>1. \E next : Proceed(q, next)
        BY <3>2 DEF Click, CheckIn, ShowReview, SaveRead, SaveDelete, SaveCreate, Answer,
                    Close, Fail, Release, Reply
      <4>2. q = p
        BY <2>1, <4>1, ProceedFacts DEF SInv, LInv
      <4>3. Fail(p)
        BY <2>1, <3>2, <4>2 DEF Click, CheckIn, ShowReview, SaveRead, SaveDelete, SaveCreate,
                               Answer, Close
      <4> QED BY <2>1, <4>3, ProceedFacts DEF Fail, Release, SInv, LInv
    <3>3. ASSUME NEW q \in Turns, Update(q)
          PROVE  FALSE
      <4>1. PICK next : Proceed(q, next) /\ next.op = "update"
        BY <3>3, Updated DEF SInv, LInv
      <4>2. turn'[q].op = "update" /\ \A r \in Turns \ {q} : turn'[r] = turn[r]
        BY <4>1, ProceedFacts DEF SInv, LInv
      <4> QED BY <2>1, <4>2
    <3>4. ASSUME NEW q \in Turns, CheckOut(q)
          PROVE  turn[p].todo = {}
      <4>1. \A r \in Turns \ {q} : turn'[r] = turn[r]
        BY <3>4, ProceedFacts DEF CheckOut, Reply, SInv, LInv
      <4> QED BY <2>1, <3>4, <4>1 DEF CheckOut
    <3> QED BY <3>1, <3>2, <3>3, <3>4 DEF Next
  <2> QED BY <2>2, DoneReview
<1>2. ReviewCoversPlan <=> [][Covers]_vars
  BY DEF ReviewCoversPlan
<1> QED BY <1>1, <1>2, Serial, PTL DEF Spec
=============================================================================
