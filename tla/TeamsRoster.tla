----------------------------- MODULE TeamsRoster -----------------------------
(***************************************************************************)
(* Who a Teams user is to the bot, and where what concerns an employee is  *)
(* said: the linking of Teams users to employee rows at the start of a     *)
(* turn (src/src/bot/TeamsAttendanceBot.ts 36-110, src/src/admin/          *)
(* admin.service.ts 82-98 and 156-236, 389-412), and the groups of         *)
(* src/src/groups/groups.service.ts.                                       *)
(*                                                                         *)
(* A step runs from one reply of the database or of Teams to the next.     *)
(* Addresses of one mailbox differ by case only; the bot's 1:1 chat with a *)
(* Teams user is named by the user.                                        *)
(***************************************************************************)
EXTENDS Naturals, FiniteSets

CONSTANTS
  Employees,           \* ids of Employee rows
  TeamsUsers,
  Addresses, Mailbox,  \* address -> the mailbox it names, whatever its case
  Directory,           \* Teams user -> the address Teams vouches for
  Groups, GroupChats,  \* ids of TeamsGroup rows, and conversation ids
  GroupsAtStart,       \* the groups to begin with
  Turns,               \* slots for turns in flight
  OneAtATime,          \* administrators write while no turn is in flight
  MaxEdits,            \* bound of the model
  None

ASSUME RosterAssumption ==
  /\ Directory \in [TeamsUsers -> Addresses]
  /\ OneAtATime \in BOOLEAN
  /\ MaxEdits \in Nat
  /\ None \notin Employees \cup TeamsUsers \cup Addresses \cup GroupChats

\* Teams has one user per mailbox.
ASSUME DirectoryAssumption ==
  \A t, u \in TeamsUsers : Mailbox[Directory[t]] = Mailbox[Directory[u]] => t = u

VARIABLES
  row,     \* id -> the Employee row
  group,   \* id -> the TeamsGroup row
  known,   \* knownPersonalChats, in memory
  turn,    \* slot -> the turn in flight, with its local variables
  edits    \* the number of edits by administrators so far

vars == <<row, group, known, turn, edits>>

NoRow == [address |-> None, teams |-> None, chat |-> None, provisional |-> FALSE,
          active |-> FALSE, groups |-> {}]

GroupRows == [chat : GroupChats \cup {None}, isDefault : BOOLEAN, active : BOOLEAN]

NoGroup == [chat |-> None, isDefault |-> FALSE, active |-> FALSE]

ASSUME StartAssumption == GroupsAtStart \subseteq [Groups -> GroupRows]

NewRow(address, teams, provisional, groups) ==
  [address |-> address, teams |-> teams, chat |-> None, provisional |-> provisional,
   active |-> TRUE, groups |-> groups]

Exists(e) == row[e].address # None
GroupIds == {g \in Groups : group[g] # NoGroup}

\* The unique columns, on rows other than e.
Taken(e, address, teams) ==
  \E d \in Employees \ {e} :
    /\ Exists(d)
    /\ row[d].address = address \/ (teams # None /\ row[d].teams = teams)

ChatTaken(g, chat) == \E h \in GroupIds \ {g} : group[h].chat = chat

Idle == [op |-> "idle"]

Init ==
  /\ row \in [Employees -> {NoRow} \cup {NewRow(a, None, FALSE, {}) : a \in Addresses}]
  /\ \A e \in Employees : Exists(e) => ~Taken(e, row[e].address, None)
  /\ group \in GroupsAtStart
  /\ known = {}
  /\ turn = [p \in Turns |-> Idle]
  /\ edits = 0

-----------------------------------------------------------------------------
(* A turn *)

Proceed(p, next) == turn' = [turn EXCEPT ![p] = next]
To(p, op) == [turn[p] EXCEPT !.op = op]

LinkedTo(t) == {e \in Employees : row[e].teams = t}

\* beforeTurn: in the 1:1 chat, the chat is to be remembered unless the memory
\* says that it is.
Message(p, t, personal) ==
  /\ turn[p] = Idle
  /\ Proceed(p, [op |-> IF personal /\ t \notin known THEN "remember" ELSE "lookup",
                 user |-> t, cache |-> FALSE, employee |-> None])
  /\ UNCHANGED <<row, group, known, edits>>

\* rememberPersonalConversation, on the row the user has, if any.
Remember(p) ==
  LET t == turn[p].user
  IN  /\ turn[p].op = "remember"
      /\ row' = [e \in Employees |-> IF e \in LinkedTo(t) THEN [row[e] EXCEPT !.chat = t]
                                     ELSE row[e]]
      /\ Proceed(p, [turn[p] EXCEPT !.op = "lookup", !.cache = TRUE])
      /\ UNCHANGED <<group, known, edits>>

\* The call fails, and the turn goes on.
RememberFails(p) ==
  /\ turn[p].op = "remember"
  /\ Proceed(p, To(p, "lookup"))
  /\ UNCHANGED <<row, group, known, edits>>

\* ensureAuthenticated: is the user linked?
Lookup(p) ==
  /\ turn[p].op = "lookup"
  /\ known' = IF turn[p].cache THEN known \cup {turn[p].user} ELSE known
  /\ Proceed(p, [turn[p] EXCEPT
                   !.op = IF LinkedTo(turn[p].user) # {} THEN "answer" ELSE "find",
                   !.cache = FALSE])
  /\ UNCHANGED <<row, group, edits>>

\* Mutant: addresses are compared as they are written.
SameMailbox_exact(e, t) == Exists(e) /\ row[e].address = Directory[t]

\* findEmployeeByEmail
SameMailbox(e, t) ==
  Exists(e) /\ Mailbox[row[e].address] = Mailbox[Directory[t]]

\* Mutant: a user whose address Teams does not tell is looked up all the same,
\* and a condition on nothing is met by every row.
Find_unverified(p) ==
  LET t == turn[p].user
  IN  /\ turn[p].op = "find"
      /\ \/ \E e \in Employees : Exists(e)
                                 /\ Proceed(p, [turn[p] EXCEPT !.op = "link", !.employee = e])
         \/ /\ \A e \in Employees : ~SameMailbox(e, t)
            /\ Proceed(p, To(p, "create"))
      /\ UNCHANGED <<row, group, known, edits>>

\* Teams does not tell the address, and the turn is refused; or the rows of the
\* mailbox are asked for, and one of them is taken.
Find(p) ==
  LET t == turn[p].user
  IN  /\ turn[p].op = "find"
      /\ \/ Proceed(p, Idle)
         \/ \E e \in Employees :
              /\ SameMailbox(e, t)
              /\ Proceed(p, IF row[e].teams = t
                            THEN To(p, "answer")
                            ELSE [turn[p] EXCEPT !.op = "link", !.employee = e])
         \/ /\ \A e \in Employees : ~SameMailbox(e, t)
            /\ Proceed(p, To(p, "create"))
      /\ UNCHANGED <<row, group, known, edits>>

\* findOrLinkEmployeeByVerifiedEmail writes the user onto the row.
Link(p) ==
  LET e == turn[p].employee  t == turn[p].user
  IN  /\ turn[p].op = "link"
      /\ IF LinkedTo(t) \ {e} # {}
         THEN /\ Proceed(p, [turn[p] EXCEPT !.op = "error", !.employee = None])
              /\ UNCHANGED row
         ELSE /\ Proceed(p, [turn[p] EXCEPT !.op = "answer", !.employee = None])
              /\ row' = [row EXCEPT ![e].teams = t]
      /\ UNCHANGED <<group, known, edits>>

\* Mutant: the new row is linked by the next message only.
Create_unlinked(p) ==
  LET t == turn[p].user
  IN  /\ turn[p].op = "create"
      /\ IF Taken(None, Directory[t], t)
         THEN Proceed(p, To(p, "error")) /\ UNCHANGED row
         ELSE /\ Proceed(p, To(p, "answer"))
              /\ \E e \in Employees :
                   /\ ~Exists(e)
                   /\ row' = [row EXCEPT ![e] = NewRow(Directory[t], None, TRUE, {})]
      /\ UNCHANGED <<group, known, edits>>

\* ... or makes a row for them, for an administrator to review.
Create(p) ==
  LET t == turn[p].user
  IN  /\ turn[p].op = "create"
      /\ IF Taken(None, Directory[t], t)
         THEN Proceed(p, To(p, "error")) /\ UNCHANGED row
         ELSE /\ Proceed(p, To(p, "answer"))
              /\ \E e \in Employees :
                   /\ ~Exists(e)
                   /\ row' = [row EXCEPT ![e] = NewRow(Directory[t], t, TRUE, {})]
      /\ UNCHANGED <<group, known, edits>>

\* The turn is answered, or the user told that it cannot be.
End(p) ==
  /\ turn[p].op \in {"answer", "error"}
  /\ Proceed(p, Idle)
  /\ UNCHANGED <<row, group, known, edits>>

\* The server starts anew: turns end where they are, the memory is empty.
Restart ==
  /\ known' = {}
  /\ turn' = [p \in Turns |-> Idle]
  /\ UNCHANGED <<row, group, edits>>

-----------------------------------------------------------------------------
(* Administrators.  A call that breaks a unique column fails and writes     *)
(* nothing.                                                                 *)

Edit ==
  /\ edits < MaxEdits
  /\ edits' = edits + 1
  /\ UNCHANGED <<known, turn>>

Undisturbed == OneAtATime => \A p \in Turns : turn[p] = Idle

CreateEmployee(e, address, teams, groups) ==
  /\ Edit /\ Undisturbed
  /\ ~Exists(e) /\ ~Taken(e, address, teams)
  /\ row' = [row EXCEPT ![e] = NewRow(address, teams, FALSE, groups)]
  /\ UNCHANGED group

\* updateEmployee: what is not given stays.  The chat stays in any case.
UpdateEmployee(e, address, teams, groups) ==
  /\ Edit /\ Undisturbed
  /\ Exists(e) /\ ~Taken(e, address, teams)
  /\ row' = [row EXCEPT ![e] = [@ EXCEPT !.address = address, !.teams = teams,
                                         !.groups = groups]]
  /\ UNCHANGED group

DeactivateEmployee(e) ==
  /\ Edit /\ Undisturbed
  /\ Exists(e)
  /\ row' = [row EXCEPT ![e].active = FALSE]
  /\ UNCHANGED group

CreateGroup(g, chat, isDefault) ==
  /\ Edit
  /\ group[g] = NoGroup /\ ~ChatTaken(g, chat)
  /\ group' = [group EXCEPT ![g] = [chat |-> chat, isDefault |-> isDefault, active |-> TRUE]]
  /\ UNCHANGED row

UpdateGroup(g, chat, isDefault) ==
  /\ Edit
  /\ g \in GroupIds /\ ~ChatTaken(g, chat)
  /\ group' = [group EXCEPT ![g] = [@ EXCEPT !.chat = chat, !.isDefault = isDefault]]
  /\ UNCHANGED row

\* remove: the assignments go with the group.
RemoveGroup(g) ==
  /\ Edit
  /\ g \in GroupIds
  /\ group' = [group EXCEPT ![g] = NoGroup]
  /\ row' = [e \in Employees |-> [row[e] EXCEPT !.groups = @ \ {g}]]

\* setActiveByConversationId: the bot is added to a chat or removed from it.
SetActive(chat, isActive) ==
  /\ Edit
  /\ group' = [g \in Groups |-> IF group[g].chat = chat
                                THEN [group[g] EXCEPT !.active = isActive]
                                ELSE group[g]]
  /\ UNCHANGED row

Next ==
  \/ Restart
  \/ \E p \in Turns :
       \/ \E t \in TeamsUsers, personal \in BOOLEAN : Message(p, t, personal)
       \/ Remember(p) \/ RememberFails(p) \/ Lookup(p) \/ Find(p)
       \/ Link(p) \/ Create(p) \/ End(p)
  \/ \E e \in Employees :
       \/ DeactivateEmployee(e)
       \/ \E address \in Addresses, teams \in TeamsUsers \cup {None},
             groups \in SUBSET GroupIds :
            \/ CreateEmployee(e, address, teams, groups)
            \/ UpdateEmployee(e, address, teams, groups)
  \/ \E g \in Groups :
       \/ RemoveGroup(g)
       \/ \E chat \in GroupChats, isDefault \in BOOLEAN :
            CreateGroup(g, chat, isDefault) \/ UpdateGroup(g, chat, isDefault)
  \/ \E chat \in GroupChats, isActive \in BOOLEAN : SetActive(chat, isActive)

Spec == Init /\ [][Next]_vars

-----------------------------------------------------------------------------
(* Where announcements and digests go *)

\* Mutant: groups the bot has left do not count as assigned.
Targets_ofActive(e) ==
  LET own == {g \in row[e].groups : group[g].active}
  IN  IF own # {}
      THEN {group[g].chat : g \in own}
      ELSE {group[g].chat : g \in {h \in GroupIds : group[h].isDefault /\ group[h].active}}

\* getTargetsForEmployee: the chats told what the employee does.
Targets(e) ==
  IF row[e].groups # {}
  THEN {group[g].chat : g \in {h \in row[e].groups : group[h].active}}
  ELSE {group[g].chat : g \in {h \in GroupIds : group[h].isDefault /\ group[h].active}}

OnTheBot(e) == row[e].active /\ row[e].teams # None

\* getActiveGroupsWithMembers: the people in the group's digest.
Members(g) ==
  {e \in Employees : OnTheBot(e) /\ g \in row[e].groups}
    \cup (IF group[g].isDefault
          THEN {e \in Employees : OnTheBot(e) /\ row[e].groups = {}} ELSE {})

Digested == {g \in GroupIds : group[g].active}

-----------------------------------------------------------------------------
(* Types *)

Rows ==
  [address : Addresses \cup {None}, teams : TeamsUsers \cup {None},
   chat : TeamsUsers \cup {None}, provisional : BOOLEAN, active : BOOLEAN,
   groups : SUBSET Groups]

TurnRows ==
  {Idle}
    \cup [op : {"remember", "lookup", "find", "link", "create",
                "answer", "error"},
          user : TeamsUsers, cache : BOOLEAN,
          employee : Employees \cup {None}]

TypeOK ==
  /\ row \in [Employees -> Rows]
  /\ group \in [Groups -> GroupRows]
  /\ known \subseteq TeamsUsers
  /\ turn \in [Turns -> TurnRows]
  /\ edits \in Nat

-----------------------------------------------------------------------------
(* Properties *)

\* The bot links a user to the row of the mailbox that Teams vouches for, and
\* to no other (ensureAuthenticated and findOrLinkEmployeeByVerifiedEmail).
LinkIsVerified ==
  [][\A p \in Turns, e \in Employees :
       turn[p].op \in {"link", "create"} /\ row'[e].teams # row[e].teams
         /\ turn'[p].op = "answer"
         => Mailbox[row'[e].address] = Mailbox[Directory[turn[p].user]]]_vars

\* The bot makes no second row for a mailbox: "keeps the bot from spawning
\* duplicate 'phantom' employees" (admin.service.ts:387), also when two turns
\* of a user not known yet run at once and addresses are typed in capitals.
NoPhantoms ==
  [][\A e, d \in Employees :
       ~Exists(e) /\ row'[e].provisional /\ d # e /\ Exists(d)
         => Mailbox[row[d].address] # Mailbox[row'[e].address]]_vars

\* A turn that loses a race for the link is told of an error, and the user is
\* linked all the same, by the turn that won it.
LoserIsLinked ==
  \A p \in Turns : turn[p].op = "error" => LinkedTo(turn[p].user) # {}

\* The digests mention people in the chats in which their announcements are
\* made: "the same rule as getTargetsForEmployee, seen from the group's side"
\* (groups.service.ts:119-120).
SidesAgree ==
  \A e \in Employees :
    OnTheBot(e) => Targets(e) = {group[g].chat : g \in {h \in Digested : e \in Members(h)}}

\* Whoever has been answered in the 1:1 chat, and whose chat the memory takes
\* for remembered, can be written to: the chat is "null until they first
\* message the bot" (schema.prisma:35).
ChatKnown ==
  \A p \in Turns :
    turn[p].op = "answer" /\ turn[p].user \in known
      => \A e \in LinkedTo(turn[p].user) : row[e].chat = turn[p].user
=============================================================================
