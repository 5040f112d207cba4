------------------------- MODULE TeamsRoster_proofs -------------------------
(***************************************************************************)
(* Theorems about TeamsRoster: its types, the agreement of the two sides   *)
(* of group routing, and - as long as administrators write between turns,  *)
(* however many turns run at once - that links are verified, that the bot  *)
(* makes no second row for a mailbox, and that a turn that loses the race  *)
(* for a link leaves the user linked.                                      *)
(***************************************************************************)
EXTENDS TeamsRoster, TLAPS

\* The steps of a turn and of an administrator.
TurnStep(p) ==
  \/ \E t \in TeamsUsers, personal \in BOOLEAN : Message(p, t, personal)
  \/ Remember(p) \/ RememberFails(p) \/ Lookup(p) \/ Find(p)
  \/ Link(p) \/ Create(p) \/ End(p)

RowEdit ==
  \E e \in Employees :
    \/ DeactivateEmployee(e)
    \/ \E address \in Addresses, teams \in TeamsUsers \cup {None},
          groups \in SUBSET GroupIds :
         \/ CreateEmployee(e, address, teams, groups)
         \/ UpdateEmployee(e, address, teams, groups)

GroupEdit ==
  \/ \E g \in Groups :
       \/ RemoveGroup(g)
       \/ \E chat \in GroupChats, isDefault \in BOOLEAN :
            CreateGroup(g, chat, isDefault) \/ UpdateGroup(g, chat, isDefault)
  \/ \E chat \in GroupChats, isActive \in BOOLEAN : SetActive(chat, isActive)

LEMMA NextSteps ==
  Next => Restart \/ (\E p \in Turns : TurnStep(p)) \/ RowEdit \/ GroupEdit
  BY DEF Next, TurnStep, RowEdit, GroupEdit

-----------------------------------------------------------------------------
(* Types *)

LEMMA NewRowType ==
  ASSUME NEW address \in Addresses, NEW teams \in TeamsUsers \cup {None},
         NEW provisional \in BOOLEAN, NEW groups \in SUBSET Groups
  PROVE  NewRow(address, teams, provisional, groups) \in Rows
  BY DEF NewRow, Rows

LEMMA InitType == Init => TypeOK
<1> SUFFICES ASSUME Init PROVE TypeOK
  OBVIOUS
<1>1. row \in [Employees -> Rows]
  <2>1. NoRow \in Rows
    BY DEF NoRow, Rows
  <2>2. \A a \in Addresses : NewRow(a, None, FALSE, {}) \in Rows
    BY NewRowType
  <2>. QED
    BY <2>1, <2>2 DEF Init
<1>2. group \in [Groups -> GroupRows]
  BY StartAssumption DEF Init
<1>. QED
  BY <1>1, <1>2 DEF Init, TypeOK, TurnRows, Idle

LEMMA TurnRowTypes ==
  ASSUME TypeOK, NEW p \in Turns, turn[p] # Idle
  PROVE  /\ turn[p].user \in TeamsUsers
         /\ \A op \in {"remember", "lookup", "find", "link", "create", "answer", "error"} :
              /\ To(p, op) \in TurnRows
              /\ \A c \in BOOLEAN : [turn[p] EXCEPT !.op = op, !.cache = c] \in TurnRows
              /\ \A e \in Employees \cup {None} :
                   [turn[p] EXCEPT !.op = op, !.employee = e] \in TurnRows
  BY DEF TypeOK, TurnRows, To

LEMMA TurnStepType ==
  ASSUME TypeOK, NEW p \in Turns, TurnStep(p)
  PROVE  TypeOK'
<1>0. ASSUME NEW next \in TurnRows, Proceed(p, next)
      PROVE  turn' \in [Turns -> TurnRows]
  BY <1>0 DEF Proceed, TypeOK
<1>1. ASSUME NEW t \in TeamsUsers, NEW personal \in BOOLEAN, Message(p, t, personal)
      PROVE  TypeOK'
  BY <1>1 DEF Message, Proceed, TypeOK, TurnRows
<1>2. CASE Remember(p)
  <2>1. turn[p] # Idle
    BY <1>2 DEF Remember, Idle
  <2>2. turn' \in [Turns -> TurnRows]
    BY <1>0, <1>2, <2>1, TurnRowTypes DEF Remember
  <2>3. row' \in [Employees -> Rows]
    BY <1>2, <2>1, TurnRowTypes DEF Remember, TypeOK, Rows
  <2>. QED
    BY <1>2, <2>2, <2>3 DEF Remember, TypeOK
<1>3. CASE RememberFails(p)
  <2>1. turn[p] # Idle
    BY <1>3 DEF RememberFails, Idle
  <2>. QED
    BY <1>0, <1>3, <2>1, TurnRowTypes DEF RememberFails, TypeOK
<1>4. CASE Lookup(p)
  <2>1. turn[p] # Idle
    BY <1>4 DEF Lookup, Idle
  <2>2. turn' \in [Turns -> TurnRows]
    BY <1>0, <1>4, <2>1, TurnRowTypes DEF Lookup
  <2>. QED
    BY <1>4, <2>1, <2>2, TurnRowTypes DEF Lookup, TypeOK
<1>5. CASE Find(p)
  <2>1. turn[p] # Idle
    <3>1. turn[p].op = "find"
      BY <1>5 DEF Find
    <3>. QED
      BY <3>1 DEF Idle
  <2>2. Idle \in TurnRows
    BY DEF TurnRows
  <2>3. ASSUME NEW e \in Employees,
               Proceed(p, IF row[e].teams = turn[p].user
                          THEN To(p, "answer")
                          ELSE [turn[p] EXCEPT !.op = "link", !.employee = e])
        PROVE  turn' \in [Turns -> TurnRows]
    BY <1>0, <2>1, <2>3, TurnRowTypes
  <2>4. turn' \in [Turns -> TurnRows]
    BY <1>0, <1>5, <2>1, <2>2, <2>3, TurnRowTypes DEF Find
  <2>. QED
    BY <1>5, <2>4 DEF Find, TypeOK
<1>6. CASE Link(p)
  <2>1. turn[p] # Idle
    BY <1>6 DEF Link, Idle
  <2>2. turn' \in [Turns -> TurnRows]
    BY <1>0, <1>6, <2>1, TurnRowTypes DEF Link
  <2>3. row' \in [Employees -> Rows]
    <3>1. \A e \in Employees, t \in TeamsUsers : [row EXCEPT ![e].teams = t] \in [Employees -> Rows]
      BY DEF TypeOK, Rows
    <3>2. CASE row' = [row EXCEPT ![turn[p].employee].teams = turn[p].user]
      <4>1. CASE turn[p].employee \in Employees
        BY <2>1, <3>1, <3>2, <4>1, TurnRowTypes
      <4>2. CASE turn[p].employee \notin Employees
        BY <3>2, <4>2 DEF TypeOK
      <4>. QED
        BY <4>1, <4>2
    <3>. QED
      BY <1>6, <3>2 DEF Link, TypeOK
  <2>. QED
    BY <1>6, <2>2, <2>3 DEF Link, TypeOK
<1>7. CASE Create(p)
  <2>1. turn[p] # Idle
    BY <1>7 DEF Create, Idle
  <2>2. turn' \in [Turns -> TurnRows]
    BY <1>0, <1>7, <2>1, TurnRowTypes DEF Create
  <2>3. NewRow(Directory[turn[p].user], turn[p].user, TRUE, {}) \in Rows
    BY <2>1, TurnRowTypes, NewRowType, RosterAssumption
  <2>4. row' \in [Employees -> Rows]
    BY <1>7, <2>3 DEF Create, TypeOK
  <2>. QED
    BY <1>7, <2>2, <2>4 DEF Create, TypeOK
<1>8. CASE End(p)
  BY <1>8 DEF End, Proceed, TypeOK, TurnRows
<1>. QED
  BY <1>1, <1>2, <1>3, <1>4, <1>5, <1>6, <1>7, <1>8 DEF TurnStep

LEMMA EditType ==
  ASSUME TypeOK, RowEdit \/ GroupEdit
  PROVE  TypeOK'
<1>. USE DEF TypeOK
<1>0. edits' \in Nat /\ UNCHANGED <<known, turn>>
  <2>1. RowEdit => Edit
    BY DEF RowEdit, DeactivateEmployee, CreateEmployee, UpdateEmployee
  <2>2. GroupEdit => Edit
    BY DEF GroupEdit, RemoveGroup, CreateGroup, UpdateGroup, SetActive
  <2>. QED
    BY <2>1, <2>2 DEF Edit
<1>1. CASE RowEdit
  <2>1. \A groups \in SUBSET GroupIds : groups \in SUBSET Groups
    BY DEF GroupIds
  <2>2. row' \in [Employees -> Rows]
    <3>1. ASSUME NEW e \in Employees, DeactivateEmployee(e)
          PROVE  row' \in [Employees -> Rows]
      BY <3>1 DEF DeactivateEmployee, Rows
    <3>2. ASSUME NEW e \in Employees, NEW address \in Addresses,
                 NEW teams \in TeamsUsers \cup {None}, NEW groups \in SUBSET GroupIds,
                 CreateEmployee(e, address, teams, groups)
          PROVE  row' \in [Employees -> Rows]
      <4>1. NewRow(address, teams, FALSE, groups) \in Rows
        BY <2>1, NewRowType
      <4>. QED
        BY <3>2, <4>1 DEF CreateEmployee
    <3>3. ASSUME NEW e \in Employees, NEW address \in Addresses,
                 NEW teams \in TeamsUsers \cup {None}, NEW groups \in SUBSET GroupIds,
                 UpdateEmployee(e, address, teams, groups)
          PROVE  row' \in [Employees -> Rows]
      <4>0. groups \in SUBSET Groups /\ row[e] \in Rows
        BY <2>1
      <4>1. [row[e] EXCEPT !.address = address, !.teams = teams, !.groups = groups] \in Rows
        BY <4>0 DEF Rows
      <4>. QED
        BY <3>3, <4>1 DEF UpdateEmployee
    <3>. QED
      BY <1>1, <3>1, <3>2, <3>3 DEF RowEdit
  <2>3. UNCHANGED group
    BY <1>1 DEF RowEdit, DeactivateEmployee, CreateEmployee, UpdateEmployee
  <2>. QED
    BY <1>0, <2>2, <2>3
<1>2. CASE GroupEdit
  <2>1. row' \in [Employees -> Rows]
    <3>1. ASSUME NEW g \in Groups, RemoveGroup(g)
          PROVE  row' \in [Employees -> Rows]
      BY <3>1 DEF RemoveGroup, Rows
    <3>2. CASE UNCHANGED row
      BY <3>2
    <3>. QED
      BY <1>2, <3>1, <3>2 DEF GroupEdit, CreateGroup, UpdateGroup, SetActive
  <2>2. group' \in [Groups -> GroupRows]
    <3>1. ASSUME NEW g \in Groups, RemoveGroup(g)
          PROVE  group' \in [Groups -> GroupRows]
      BY <3>1 DEF RemoveGroup, GroupRows, NoGroup
    <3>2. ASSUME NEW g \in Groups, NEW chat \in GroupChats, NEW isDefault \in BOOLEAN,
                 CreateGroup(g, chat, isDefault) \/ UpdateGroup(g, chat, isDefault)
          PROVE  group' \in [Groups -> GroupRows]
      <4>1. [group[g] EXCEPT !.chat = chat, !.isDefault = isDefault] \in GroupRows
        BY DEF GroupRows
      <4>2. [chat |-> chat, isDefault |-> isDefault, active |-> TRUE] \in GroupRows
        BY DEF GroupRows
      <4>. QED
        BY <3>2, <4>1, <4>2 DEF CreateGroup, UpdateGroup
    <3>3. ASSUME NEW chat \in GroupChats, NEW isActive \in BOOLEAN, SetActive(chat, isActive)
          PROVE  group' \in [Groups -> GroupRows]
      BY <3>3 DEF SetActive, GroupRows
    <3>. QED
      BY <1>2, <3>1, <3>2, <3>3 DEF GroupEdit
  <2>. QED
    BY <1>0, <2>1, <2>2
<1>. QED
  BY <1>1, <1>2

LEMMA StepType == TypeOK /\ [Next]_vars => TypeOK'
<1> SUFFICES ASSUME TypeOK, [Next]_vars PROVE TypeOK'
  OBVIOUS
<1>1. CASE Restart
  BY <1>1 DEF Restart, TypeOK, TurnRows
<1>2. CASE UNCHANGED vars
  BY <1>2 DEF vars, TypeOK
<1>. QED
  BY <1>1, <1>2, NextSteps, TurnStepType, EditType

\* The type invariant, for any number of employees, users, groups and turns.
THEOREM TypeCorrect == Spec => []TypeOK
  BY InitType, StepType, PTL DEF Spec

-----------------------------------------------------------------------------
(* The two sides of group routing *)

LEMMA TypesAgree == TypeOK => SidesAgree
<1> SUFFICES ASSUME TypeOK, NEW e \in Employees, OnTheBot(e)
             PROVE  Targets(e) = {group[g].chat : g \in {h \in Digested : e \in Members(h)}}
  BY DEF SidesAgree
<1>1. \A h \in Groups : group[h].active => h \in GroupIds
  BY DEF GroupIds, NoGroup
<1>2. row[e].groups \subseteq Groups
  BY DEF TypeOK, Rows
<1>3. {h \in Digested : e \in Members(h)}
        = IF row[e].groups # {} THEN {h \in row[e].groups : group[h].active}
          ELSE {h \in GroupIds : group[h].isDefault /\ group[h].active}
  <2>1. \A h : e \in Members(h) <=> h \in row[e].groups
                                     \/ (group[h].isDefault /\ row[e].groups = {})
    BY DEF Members
  <2>. QED
    BY <1>1, <1>2, <2>1 DEF Digested, GroupIds
<1>. QED
  BY <1>3 DEF Targets

\* Announcements are made, and digests sent, in the same chats, whatever the
\* groups, the assignments and the chats the bot is in.
THEOREM RoutesAgree == Spec => []SidesAgree
  BY TypeCorrect, TypesAgree, PTL

-----------------------------------------------------------------------------
(* Links, as long as administrators write between turns *)

\* A row without an address is no row.
NoGhosts == \A e \in Employees : ~Exists(e) => row[e] = NoRow

\* What a turn has found of the rows stays true until it writes.
TurnFaithful(p) ==
  LET t == turn[p].user
  IN  /\ turn[p].op = "link" =>
           turn[p].employee \in Employees /\ SameMailbox(turn[p].employee, t)
      /\ turn[p].op \in {"find", "link", "create", "error"} =>
           \A e \in LinkedTo(t) : SameMailbox(e, t)
      /\ turn[p].op = "create" =>
           \A e \in Employees : SameMailbox(e, t) => e \in LinkedTo(t)
      /\ turn[p].op = "error" => LinkedTo(t) # {}

Inv == TypeOK /\ NoGhosts /\ \A p \in Turns : TurnFaithful(p)

LEMMA InitInv == Init => Inv
<1> SUFFICES ASSUME Init PROVE NoGhosts /\ \A p \in Turns : TurnFaithful(p)
  BY InitType DEF Inv
<1>1. NoGhosts
  <2> SUFFICES ASSUME NEW e \in Employees, row[e] # NoRow PROVE Exists(e)
    BY DEF NoGhosts
  <2>1. PICK a \in Addresses : row[e] = NewRow(a, None, FALSE, {})
    BY DEF Init
  <2>. QED
    BY <2>1, RosterAssumption DEF NewRow, Exists
<1>2. \A p \in Turns : turn[p].op = "idle"
  BY DEF Init, Idle
<1>. QED
  BY <1>1, <1>2 DEF TurnFaithful

\* The rows keep their addresses and users.
LinksStay ==
  \A e \in Employees : row'[e].address = row[e].address /\ row'[e].teams = row[e].teams

LEMMA LinksStayViews ==
  ASSUME LinksStay, NEW t
  PROVE  /\ LinkedTo(t)' = LinkedTo(t)
         /\ \A e \in Employees : SameMailbox(e, t)' <=> SameMailbox(e, t)
  BY DEF LinksStay, LinkedTo, SameMailbox, Exists

\* Turns that stand still while the rows keep their users.
LEMMA Unmoved ==
  ASSUME Inv, LinksStay, NEW p \in Turns, turn'[p] = turn[p]
  PROVE  TurnFaithful(p)'
<1>1. TurnFaithful(p)
  BY DEF Inv
<1>2. LinkedTo(turn[p].user) \subseteq Employees
  BY DEF LinkedTo
<1>. QED
  BY <1>1, <1>2, LinksStayViews DEF TurnFaithful

\* A step of a turn that leaves the links alone.
LEMMA LinklessStep ==
  ASSUME Inv, NEW p \in Turns,
         \/ \E t \in TeamsUsers, personal \in BOOLEAN : Message(p, t, personal)
         \/ Remember(p) \/ RememberFails(p) \/ Lookup(p) \/ Find(p) \/ End(p)
  PROVE  /\ LinksStay
         /\ NoGhosts'
         /\ TurnFaithful(p)'
         /\ \A q \in Turns \ {p} : turn'[q] = turn[q]
<1>1. turn \in [Turns -> TurnRows] /\ row \in [Employees -> Rows]
  BY DEF Inv, TypeOK
<1>2. \A q \in Turns \ {p} : turn'[q] = turn[q]
  BY <1>1 DEF Message, Remember, RememberFails, Lookup, Find, End, Proceed
<1>3. CASE Remember(p)
  <2>1. \A e \in Employees : row'[e] = [row[e] EXCEPT !.chat = turn[p].user]
                             \/ row'[e] = row[e]
    BY <1>3 DEF Remember
  <2>2. turn[p] # Idle
    BY <1>3 DEF Remember, Idle
  <2>3. turn[p].user # None
    BY <2>2, RosterAssumption, TurnRowTypes DEF Inv
  <2>4. \A e \in Employees : row[e] = NoRow => row'[e] = row[e]
    BY <1>3, <2>3 DEF Remember, LinkedTo, NoRow
  <2>5. LinksStay
    BY <1>1, <2>1 DEF LinksStay, Rows
  <2>6. NoGhosts'
    BY <2>4, <2>5 DEF LinksStay, NoGhosts, Inv, Exists
  <2>7. turn'[p].op = "lookup"
    BY <1>1, <1>3, <2>2 DEF Remember, Proceed, TurnRows
  <2>. QED
    BY <1>2, <2>5, <2>6, <2>7 DEF TurnFaithful
<1>4. CASE ~Remember(p)
  <2>1. UNCHANGED row
    BY <1>4 DEF Message, RememberFails, Lookup, Find, End
  <2>2. LinksStay /\ NoGhosts'
    BY <2>1 DEF LinksStay, NoGhosts, Exists, Inv
  <2>3. TurnFaithful(p)'
    <3>1. ASSUME turn'[p].op \in {"idle", "remember", "lookup", "answer"}
          PROVE  TurnFaithful(p)'
      BY <3>1 DEF TurnFaithful
    <3>2. ASSUME NEW t \in TeamsUsers, NEW personal \in BOOLEAN, Message(p, t, personal)
          PROVE  TurnFaithful(p)'
      BY <1>1, <3>1, <3>2 DEF Message, Proceed
    <3>3. CASE RememberFails(p)
      <4>1. turn'[p].op = "lookup"
        BY <1>1, <3>3 DEF RememberFails, Proceed, To, TurnRows, Idle
      <4>. QED
        BY <3>1, <4>1
    <3>4. CASE Lookup(p)
      <4>1. turn[p] # Idle
        BY <3>4 DEF Lookup, Idle
      <4>2. CASE LinkedTo(turn[p].user) # {}
        <5>1. turn'[p].op = "answer"
          BY <1>1, <3>4, <4>1, <4>2 DEF Lookup, Proceed, TurnRows
        <5>. QED
          BY <3>1, <5>1
      <4>3. CASE LinkedTo(turn[p].user) = {}
        <5>1. turn'[p].op = "find" /\ turn'[p].user = turn[p].user
          BY <1>1, <3>4, <4>1, <4>3 DEF Lookup, Proceed, TurnRows
        <5>. QED
          BY <2>2, <4>3, <5>1, LinksStayViews DEF TurnFaithful
      <4>. QED
        BY <4>2, <4>3
    <3>5. CASE Find(p)
      <4>0. turn[p].op = "find"
        BY <3>5 DEF Find
      <4>1. turn[p].op = "find" /\ turn[p] # Idle
        BY <4>0 DEF Idle
      <4>2. \A e \in LinkedTo(turn[p].user) : SameMailbox(e, turn[p].user)
        BY <4>1 DEF Inv, TurnFaithful
      <4>3. CASE Proceed(p, Idle)
        BY <1>1, <3>1, <4>3 DEF Proceed, Idle
      <4>4. ASSUME NEW e \in Employees, SameMailbox(e, turn[p].user),
                   Proceed(p, IF row[e].teams = turn[p].user
                              THEN To(p, "answer")
                              ELSE [turn[p] EXCEPT !.op = "link", !.employee = e])
            PROVE  TurnFaithful(p)'
        <5>1. CASE row[e].teams = turn[p].user
          <6>1. turn'[p].op = "answer"
            BY <1>1, <4>1, <4>4, <5>1 DEF Proceed, To, TurnRows
          <6>. QED
            BY <3>1, <6>1
        <5>2. CASE row[e].teams # turn[p].user
          <6>1. /\ turn'[p].op = "link" /\ turn'[p].employee = e
                /\ turn'[p].user = turn[p].user
            BY <1>1, <4>1, <4>4, <5>2 DEF Proceed, TurnRows
          <6>. QED
            BY <2>2, <4>2, <4>4, <6>1, LinksStayViews DEF TurnFaithful, LinkedTo
        <5>. QED
          BY <5>1, <5>2
      <4>5. CASE Proceed(p, To(p, "create")) /\ \A e \in Employees : ~SameMailbox(e, turn[p].user)
        <5>1. turn'[p].op = "create" /\ turn'[p].user = turn[p].user
          BY <1>1, <4>1, <4>5 DEF Proceed, To, TurnRows
        <5>. QED
          BY <2>2, <4>2, <4>5, <5>1, LinksStayViews DEF TurnFaithful, LinkedTo
      <4>. QED
        BY <3>5, <4>3, <4>4, <4>5 DEF Find
    <3>6. CASE End(p)
      BY <1>1, <3>1, <3>6 DEF End, Proceed, Idle
    <3>. QED
      BY <1>4, <3>2, <3>3, <3>4, <3>5, <3>6
  <2>. QED
    BY <1>2, <2>2, <2>3
<1>. QED
  BY <1>3, <1>4

LEMMA LinkStep ==
  ASSUME Inv, NEW p \in Turns, Link(p)
  PROVE  NoGhosts' /\ \A q \in Turns : TurnFaithful(q)'
<1>. PICK e, t : e = turn[p].employee /\ t = turn[p].user
  OBVIOUS
<1>1. turn \in [Turns -> TurnRows] /\ row \in [Employees -> Rows]
  BY DEF Inv, TypeOK
<1>2. turn[p].op = "link" /\ turn[p] # Idle
  BY DEF Link, Idle
<1>3. t \in TeamsUsers /\ e \in Employees /\ SameMailbox(e, t)
  BY <1>2, TurnRowTypes DEF Inv, TurnFaithful
<1>4. \A d \in LinkedTo(t) : d \in Employees /\ SameMailbox(d, t)
  BY <1>2 DEF Inv, TurnFaithful, LinkedTo
<1>5. \A q \in Turns \ {p} : turn'[q] = turn[q]
  BY <1>1 DEF Link, Proceed
<1>6. CASE LinkedTo(t) \ {e} # {}
  <2>1. UNCHANGED row
    BY <1>6 DEF Link
  <2>2. LinksStay
    BY <2>1 DEF LinksStay
  <2>3. turn'[p].op = "error" /\ turn'[p].user = t
    BY <1>1, <1>2, <1>6 DEF Link, Proceed, TurnRows
  <2>4. TurnFaithful(p)'
    BY <1>4, <1>6, <2>2, <2>3, LinksStayViews DEF TurnFaithful
  <2>5. NoGhosts'
    BY <2>1 DEF NoGhosts, Exists, Inv
  <2>. QED
    BY <1>5, <2>2, <2>4, <2>5, Unmoved
<1>7. CASE LinkedTo(t) \ {e} = {}
  <2>1. row' = [row EXCEPT ![e].teams = t]
    BY <1>7 DEF Link
  <2>2. turn'[p].op = "answer"
    <3>1. Proceed(p, [turn[p] EXCEPT !.op = "answer", !.employee = None])
      BY <1>7 DEF Link
    <3>. QED
      BY <1>1, <1>2, <3>1 DEF Proceed, TurnRows
  <2>3. \A d \in Employees : row'[d].address = row[d].address
    BY <1>1, <2>1 DEF Rows
  <2>4. \A d \in Employees : row'[d].teams = IF d = e THEN t ELSE row[d].teams
    BY <1>1, <1>3, <2>1 DEF Rows
  <2>5. \A d \in Employees : \A u : SameMailbox(d, u)' <=> SameMailbox(d, u)
    BY <2>3 DEF SameMailbox, Exists
  <2>6. NoGhosts'
    <3>1. Exists(e)
      BY <1>3 DEF SameMailbox
    <3>2. \A d \in Employees \ {e} : row'[d] = row[d]
      BY <2>1
    <3>. QED
      BY <2>3, <3>1, <3>2 DEF NoGhosts, Inv, Exists
  <2>7. ASSUME NEW q \in Turns, q # p
        PROVE  TurnFaithful(q)'
    <3>. PICK u : u = turn[q].user
      OBVIOUS
    <3>1. turn'[q] = turn[q] /\ TurnFaithful(q)
      BY <1>5, <2>7 DEF Inv
    <3>2. SameMailbox(e, u) /\ turn[q] # Idle => u = t
      BY <1>3, TurnRowTypes, DirectoryAssumption DEF SameMailbox, Inv
    <3>3. turn[q] = Idle => turn[q].op = "idle"
      BY DEF Idle
    <3>4. turn[q].op = "link" => turn[q].employee \in Employees
                                  /\ SameMailbox(turn[q].employee, u)'
      BY <2>5, <3>1 DEF TurnFaithful
    <3>5. ASSUME turn[q].op \in {"find", "link", "create", "error"}, NEW d \in LinkedTo(u)'
          PROVE  SameMailbox(d, u)'
      <4>1. d \in Employees /\ row'[d].teams = u
        BY <3>5 DEF LinkedTo
      <4>2. CASE d = e
        BY <1>3, <2>4, <2>5, <4>1, <4>2
      <4>3. CASE d # e
        <5>1. d \in LinkedTo(u)
          BY <2>4, <4>1, <4>3 DEF LinkedTo
        <5>. QED
          BY <2>5, <3>1, <3>5, <4>1, <5>1 DEF TurnFaithful
      <4>. QED
        BY <4>2, <4>3
    <3>6. ASSUME turn[q].op = "create", NEW d \in Employees, SameMailbox(d, u)'
          PROVE  d \in LinkedTo(u)'
      <4>1. SameMailbox(d, u) /\ d \in LinkedTo(u)
        BY <2>5, <3>1, <3>6 DEF TurnFaithful
      <4>2. CASE d = e
        BY <1>3, <2>4, <3>2, <3>3, <3>6, <4>1, <4>2 DEF LinkedTo
      <4>3. CASE d # e
        BY <2>4, <4>1, <4>3 DEF LinkedTo
      <4>. QED
        BY <4>2, <4>3
    <3>7. ASSUME turn[q].op = "error"
          PROVE  LinkedTo(u)' # {}
      <4>1. PICK d \in LinkedTo(u) : SameMailbox(d, u)
        BY <3>1, <3>7 DEF TurnFaithful
      <4>2. d \in Employees /\ row[d].teams = u
        BY DEF LinkedTo
      <4>3. row'[d].teams = u
        BY <1>3, <2>4, <3>2, <3>3, <3>7, <4>1, <4>2
      <4>. QED
        BY <4>2, <4>3 DEF LinkedTo
    <3>. QED
      BY <3>1, <3>4, <3>5, <3>6, <3>7 DEF TurnFaithful
  <2>8. TurnFaithful(p)'
    BY <2>2 DEF TurnFaithful
  <2>. QED
    BY <2>6, <2>7, <2>8
<1>. QED
  BY <1>6, <1>7

LEMMA CreateStep ==
  ASSUME Inv, NEW p \in Turns, Create(p)
  PROVE  NoGhosts' /\ \A q \in Turns : TurnFaithful(q)'
<1>. PICK t : t = turn[p].user
  OBVIOUS
<1>1. turn \in [Turns -> TurnRows] /\ row \in [Employees -> Rows]
  BY DEF Inv, TypeOK
<1>2. turn[p].op = "create" /\ turn[p] # Idle
  BY DEF Create, Idle
<1>3. t \in TeamsUsers /\ Directory[t] # None
  BY <1>2, TurnRowTypes, RosterAssumption DEF Inv
<1>4. /\ \A d \in LinkedTo(t) : SameMailbox(d, t)
      /\ \A d \in Employees : SameMailbox(d, t) => d \in LinkedTo(t)
  BY <1>2 DEF Inv, TurnFaithful
<1>5. \A q \in Turns \ {p} : turn'[q] = turn[q]
  BY <1>1 DEF Create, Proceed
<1>6. CASE Taken(None, Directory[t], t)
  <2>1. UNCHANGED row /\ Proceed(p, To(p, "error"))
    BY <1>6 DEF Create
  <2>2. LinksStay
    BY <2>1 DEF LinksStay
  <2>3. turn'[p].op = "error" /\ turn'[p].user = t
    BY <1>1, <1>2, <2>1 DEF Proceed, To, TurnRows
  <2>4. LinkedTo(t) # {}
    <3>1. PICK d \in Employees : Exists(d) /\ (row[d].address = Directory[t] \/ row[d].teams = t)
      BY <1>6 DEF Taken
    <3>. QED
      BY <1>4, <3>1 DEF SameMailbox, LinkedTo
  <2>5. TurnFaithful(p)'
    BY <1>4, <2>2, <2>3, <2>4, LinksStayViews DEF TurnFaithful, LinkedTo
  <2>6. NoGhosts'
    BY <2>1 DEF NoGhosts, Exists, Inv
  <2>. QED
    BY <1>5, <2>2, <2>5, <2>6, Unmoved
<1>7. CASE ~Taken(None, Directory[t], t)
  <2>1. PICK e \in Employees :
          ~Exists(e) /\ row' = [row EXCEPT ![e] = NewRow(Directory[t], t, TRUE, {})]
    BY <1>7 DEF Create
  <2>2. turn'[p].op = "answer"
    BY <1>1, <1>2, <1>7 DEF Create, Proceed, To, TurnRows
  <2>3. row'[e].address = Directory[t] /\ row'[e].teams = t
    BY <1>1, <2>1 DEF NewRow
  <2>4. \A d \in Employees \ {e} : row'[d] = row[d]
    BY <1>1, <2>1
  <2>5. row[e].address = None /\ row[e].teams = None
    BY <2>1 DEF Exists, Inv, NoGhosts, NoRow
  <2>6. \A d \in Employees \ {e} : \A u : SameMailbox(d, u)' <=> SameMailbox(d, u)
    BY <2>4 DEF SameMailbox, Exists
  <2>7. NoGhosts'
    BY <1>3, <2>3, <2>4 DEF NoGhosts, Inv, Exists
  <2>8. ASSUME NEW q \in Turns, q # p
        PROVE  TurnFaithful(q)'
    <3>. PICK u : u = turn[q].user
      OBVIOUS
    <3>1. turn'[q] = turn[q] /\ TurnFaithful(q)
      BY <1>5, <2>8 DEF Inv
    <3>2. turn[q].op # "idle" => u \in TeamsUsers /\ u # None
      <4>1. turn[q].op # "idle" => turn[q] # Idle
        BY DEF Idle
      <4>. QED
        BY <4>1, TurnRowTypes, RosterAssumption DEF Inv
    <3>3. SameMailbox(e, u)' /\ u \in TeamsUsers => u = t
      BY <1>3, <2>3, DirectoryAssumption DEF SameMailbox
    <3>4. SameMailbox(e, t)'
      BY <1>3, <2>3 DEF SameMailbox, Exists
    <3>5. turn[q].op = "link" => turn[q].employee \in Employees
                                  /\ SameMailbox(turn[q].employee, u)'
      <4>1. turn[q].op = "link" => turn[q].employee \in Employees
                                    /\ SameMailbox(turn[q].employee, u)
        BY <3>1 DEF TurnFaithful
      <4>2. turn[q].op = "link" => turn[q].employee # e
        BY <2>1, <4>1 DEF SameMailbox
      <4>. QED
        BY <2>6, <3>1, <4>1, <4>2
    <3>6. ASSUME turn[q].op \in {"find", "link", "create", "error"}, NEW d \in LinkedTo(u)'
          PROVE  SameMailbox(d, u)'
      <4>1. d \in Employees /\ row'[d].teams = u
        BY <3>6 DEF LinkedTo
      <4>2. CASE d = e
        BY <2>3, <3>4, <4>1, <4>2
      <4>3. CASE d # e
        <5>1. d \in LinkedTo(u)
          BY <2>4, <4>1, <4>3 DEF LinkedTo
        <5>. QED
          BY <2>6, <3>1, <3>6, <4>1, <4>3, <5>1 DEF TurnFaithful
      <4>. QED
        BY <4>2, <4>3
    <3>7. ASSUME turn[q].op = "create", NEW d \in Employees, SameMailbox(d, u)'
          PROVE  d \in LinkedTo(u)'
      <4>1. CASE d = e
        BY <2>3, <3>2, <3>3, <3>7, <4>1 DEF LinkedTo
      <4>2. CASE d # e
        <5>1. d \in LinkedTo(u)
          BY <2>6, <3>1, <3>7, <4>2 DEF TurnFaithful
        <5>. QED
          BY <2>4, <4>2, <5>1 DEF LinkedTo
      <4>. QED
        BY <4>1, <4>2
    <3>8. ASSUME turn[q].op = "error"
          PROVE  LinkedTo(u)' # {}
      <4>1. PICK d \in Employees : row[d].teams = u
        BY <3>1, <3>8 DEF TurnFaithful, LinkedTo
      <4>2. d # e
        BY <2>5, <3>2, <3>8, <4>1
      <4>. QED
        BY <2>4, <4>1, <4>2 DEF LinkedTo
    <3>. QED
      BY <3>1, <3>5, <3>6, <3>7, <3>8 DEF TurnFaithful
  <2>9. TurnFaithful(p)'
    BY <2>2 DEF TurnFaithful
  <2>. QED
    BY <2>7, <2>8, <2>9
<1>. QED
  BY <1>6, <1>7

LEMMA EditStep ==
  ASSUME Inv, OneAtATime, RowEdit \/ GroupEdit
  PROVE  NoGhosts' /\ \A q \in Turns : TurnFaithful(q)'
<1>1. turn \in [Turns -> TurnRows] /\ row \in [Employees -> Rows]
  BY DEF Inv, TypeOK
<1>2. CASE RowEdit
  <2>1. Edit /\ Undisturbed
    BY <1>2 DEF RowEdit, DeactivateEmployee, CreateEmployee, UpdateEmployee
  <2>2. \A q \in Turns : turn'[q].op = "idle"
    BY <2>1 DEF Edit, Undisturbed, Idle
  <2>3. NoGhosts'
    <3>1. ASSUME NEW e \in Employees, DeactivateEmployee(e)
          PROVE  NoGhosts'
      <4>1. /\ Exists(e)
            /\ row'[e].address = row[e].address
            /\ \A d \in Employees \ {e} : row'[d] = row[d]
        BY <1>1, <3>1 DEF DeactivateEmployee, Rows
      <4>. QED
        BY <4>1 DEF NoGhosts, Inv, Exists
    <3>2. ASSUME NEW e \in Employees, NEW address \in Addresses, NEW teams, NEW groups,
                 CreateEmployee(e, address, teams, groups)
                 \/ UpdateEmployee(e, address, teams, groups)
          PROVE  NoGhosts'
      <4>1. /\ row'[e].address = address
            /\ \A d \in Employees \ {e} : row'[d] = row[d]
        <5>1. CASE CreateEmployee(e, address, teams, groups)
          BY <1>1, <5>1 DEF CreateEmployee, NewRow
        <5>2. CASE UpdateEmployee(e, address, teams, groups)
          <6>1. row' = [row EXCEPT ![e] = [row[e] EXCEPT !.address = address,
                          !.teams = teams, !.groups = groups]]
            BY <5>2 DEF UpdateEmployee
          <6>2. row'[e] = [row[e] EXCEPT !.address = address, !.teams = teams,
                                         !.groups = groups]
            BY <1>1, <6>1
          <6>. QED
            BY <1>1, <6>1, <6>2 DEF Rows
        <5>. QED
          BY <3>2, <5>1, <5>2
      <4>. QED
        BY <4>1, RosterAssumption DEF NoGhosts, Inv, Exists
    <3>. QED
      BY <1>2, <3>1, <3>2 DEF RowEdit
  <2>. QED
    BY <2>2, <2>3 DEF TurnFaithful
<1>3. CASE GroupEdit
  <2>1. Edit
    BY <1>3 DEF GroupEdit, RemoveGroup, CreateGroup, UpdateGroup, SetActive
  <2>2. UNCHANGED turn
    BY <2>1 DEF Edit
  <2>3. LinksStay /\ NoGhosts'
    <3>1. ASSUME NEW g \in Groups, RemoveGroup(g)
          PROVE  LinksStay /\ NoGhosts'
      <4>1. \A e \in Employees : row'[e] = [row[e] EXCEPT !.groups = @ \ {g}]
        BY <3>1 DEF RemoveGroup
      <4>2. LinksStay
        BY <1>1, <4>1 DEF LinksStay, Rows
      <4>3. \A e \in Employees : row[e] = NoRow => row'[e] = NoRow
        BY <4>1 DEF NoRow
      <4>. QED
        BY <4>2, <4>3 DEF LinksStay, NoGhosts, Inv, Exists
    <3>2. CASE UNCHANGED row
      BY <3>2 DEF LinksStay, NoGhosts, Exists, Inv
    <3>. QED
      BY <1>3, <3>1, <3>2 DEF GroupEdit, CreateGroup, UpdateGroup, SetActive
  <2>. QED
    BY <2>2, <2>3, Unmoved
<1>. QED
  BY <1>2, <1>3

LEMMA StepInv == OneAtATime /\ Inv /\ [Next]_vars => Inv'
<1> SUFFICES ASSUME OneAtATime, Inv, [Next]_vars
             PROVE  NoGhosts' /\ \A q \in Turns : TurnFaithful(q)'
  BY StepType DEF Inv
<1>1. CASE Restart
  BY <1>1 DEF Restart, NoGhosts, Exists, TurnFaithful, Idle, Inv
<1>2. CASE UNCHANGED vars
  BY <1>2, Unmoved DEF vars, LinksStay, NoGhosts, Exists, Inv
<1>3. ASSUME NEW p \in Turns, TurnStep(p)
      PROVE  NoGhosts' /\ \A q \in Turns : TurnFaithful(q)'
  <2>1. CASE Link(p)
    BY <2>1, LinkStep
  <2>2. CASE Create(p)
    BY <2>2, CreateStep
  <2>3. CASE ~Link(p) /\ ~Create(p)
    <3>1. /\ LinksStay /\ NoGhosts' /\ TurnFaithful(p)'
          /\ \A q \in Turns \ {p} : turn'[q] = turn[q]
      BY <1>3, <2>3, LinklessStep DEF TurnStep
    <3>. QED
      BY <3>1, Unmoved
  <2>. QED
    BY <2>1, <2>2, <2>3
<1>. QED
  BY <1>1, <1>2, <1>3, NextSteps, EditStep

LEMMA InvHolds == ASSUME OneAtATime PROVE Spec => []Inv
  BY InitInv, StepInv, PTL DEF Spec

\* A turn that loses the race for a link leaves its user linked.
THEOREM LosersAreLinked == ASSUME OneAtATime PROVE Spec => []LoserIsLinked
<1>1. Inv => LoserIsLinked
  BY DEF Inv, TurnFaithful, LoserIsLinked
<1>. QED
  BY <1>1, InvHolds, PTL

\* The bot makes no second row for a mailbox.
THEOREM NoPhantomRows == ASSUME OneAtATime PROVE Spec => NoPhantoms
<1>1. ASSUME Inv, [Next]_vars, NEW e \in Employees, NEW d \in Employees,
             ~Exists(e), row'[e].provisional, d # e, Exists(d)
      PROVE  Mailbox[row[d].address] # Mailbox[row'[e].address]
  <2>1. turn \in [Turns -> TurnRows] /\ row \in [Employees -> Rows]
    BY <1>1 DEF Inv, TypeOK
  <2>2. row[e] = NoRow /\ ~row[e].provisional
    <3>1. row[e] = NoRow
      BY <1>1 DEF Inv, NoGhosts
    <3>. QED
      BY <3>1 DEF NoRow
  <2>3. row'[e] # row[e]
    BY <1>1, <2>2
  <2>4. ASSUME NEW p \in Turns, Create(p)
        PROVE  Mailbox[row[d].address] # Mailbox[row'[e].address]
    <3>. PICK t : t = turn[p].user
      OBVIOUS
    <3>1. turn[p].op = "create" /\ ~Taken(None, Directory[t], t)
      BY <2>3, <2>4 DEF Create
    <3>2. row'[e].address = Directory[t]
      BY <2>1, <2>3, <2>4, <3>1 DEF Create, NewRow
    <3>3. SUFFICES ASSUME SameMailbox(d, t) PROVE FALSE
      BY <1>1, <3>2 DEF SameMailbox
    <3>4. row[d].teams = t
      BY <1>1, <3>1, <3>3 DEF Inv, TurnFaithful, LinkedTo
    <3>5. t # None
      <4>1. turn[p] # Idle
        BY <3>1 DEF Idle
      <4>. QED
        BY <1>1, <4>1, TurnRowTypes, RosterAssumption DEF Inv
    <3>. QED
      BY <1>1, <3>1, <3>4, <3>5, RosterAssumption DEF Taken
  <2>5. CASE RowEdit
    <3>1. ASSUME NEW c \in Employees, DeactivateEmployee(c) \/
                 \E address, teams, groups : UpdateEmployee(c, address, teams, groups)
          PROVE  FALSE
      BY <1>1, <2>1, <2>3, <3>1 DEF DeactivateEmployee, UpdateEmployee
    <3>2. ASSUME NEW c \in Employees, NEW address, NEW teams, NEW groups,
                 CreateEmployee(c, address, teams, groups)
          PROVE  FALSE
      BY <1>1, <2>1, <2>3, <3>2 DEF CreateEmployee, NewRow
    <3>. QED
      BY <2>5, <3>1, <3>2 DEF RowEdit
  <2>6. CASE GroupEdit
    <3>1. ASSUME NEW g \in Groups, RemoveGroup(g)
          PROVE  FALSE
      <4>1. row'[e] = [row[e] EXCEPT !.groups = @ \ {g}]
        BY <3>1 DEF RemoveGroup
      <4>. QED
        BY <1>1, <2>2, <4>1 DEF NoRow
    <3>. QED
      BY <2>3, <2>6, <3>1 DEF GroupEdit, CreateGroup, UpdateGroup, SetActive
  <2>7. ASSUME NEW p \in Turns, TurnStep(p), ~Create(p)
        PROVE  FALSE
    <3>1. CASE Link(p)
      <4>1. SameMailbox(turn[p].employee, turn[p].user)
        BY <1>1, <3>1 DEF Inv, TurnFaithful, Link
      <4>. QED
        BY <1>1, <2>1, <2>3, <3>1, <4>1 DEF Link, SameMailbox
    <3>2. CASE Remember(p)
      <4>1. turn[p].op = "remember"
        BY <3>2 DEF Remember
      <4>2. turn[p].user # None
        <5>1. turn[p] # Idle
          BY <4>1 DEF Idle
        <5>. QED
          BY <1>1, <5>1, TurnRowTypes, RosterAssumption DEF Inv
      <4>. QED
        BY <2>2, <2>3, <3>2, <4>2 DEF Remember, LinkedTo, NoRow
    <3>3. CASE ~Link(p) /\ ~Remember(p)
      BY <2>3, <2>7, <3>3
      DEF TurnStep, Message, RememberFails, Lookup, Find, End
    <3>. QED
      BY <3>1, <3>2, <3>3
  <2>8. ~Restart /\ ~UNCHANGED vars
    BY <2>3 DEF Restart, vars
  <2>. QED
    BY <1>1, <2>4, <2>5, <2>6, <2>7, <2>8, NextSteps
<1>2. Inv /\ [Next]_vars =>
        [\A e, d \in Employees :
           ~Exists(e) /\ row'[e].provisional /\ d # e /\ Exists(d)
             => Mailbox[row[d].address] # Mailbox[row'[e].address]]_vars
  BY <1>1
<1>. QED
  BY <1>2, InvHolds, PTL DEF Spec, NoPhantoms

\* The bot links users to the rows of their own mailboxes only.
THEOREM LinksAreVerified == ASSUME OneAtATime PROVE Spec => LinkIsVerified
<1>1. ASSUME Inv, [Next]_vars, NEW p \in Turns, NEW e \in Employees,
             turn[p].op \in {"link", "create"}, row'[e].teams # row[e].teams,
             turn'[p].op = "answer"
      PROVE  Mailbox[row'[e].address] = Mailbox[Directory[turn[p].user]]
  <2>1. turn \in [Turns -> TurnRows] /\ row \in [Employees -> Rows]
    BY <1>1 DEF Inv, TypeOK
  <2>2. turn'[p] # turn[p] /\ turn'[p] # Idle
    BY <1>1 DEF Idle
  <2>3. CASE Link(p)
    <3>1. SameMailbox(turn[p].employee, turn[p].user)
      BY <1>1, <2>3 DEF Inv, TurnFaithful, Link
    <3>2. e = turn[p].employee
      BY <1>1, <2>1, <2>3 DEF Link
    <3>3. row'[e].address = row[e].address
      BY <2>1, <2>3 DEF Link, Rows
    <3>. QED
      BY <3>1, <3>2, <3>3 DEF SameMailbox
  <2>4. CASE Create(p)
    BY <1>1, <2>1, <2>4 DEF Create, NewRow
  <2>5. CASE ~Link(p) /\ ~Create(p)
    <3>1. ~TurnStep(p)
      BY <1>1, <2>5 DEF TurnStep, Message, Remember, RememberFails, Lookup, Find, End,
                        Idle
    <3>2. \A q \in Turns \ {p} : ~TurnStep(q)
      BY <2>1, <2>2 DEF TurnStep, Message, Remember, RememberFails, Lookup, Find, Link,
                        Create, End, Proceed
    <3>3. ~RowEdit
      BY <2>2 DEF RowEdit, DeactivateEmployee, CreateEmployee, UpdateEmployee, Edit
    <3>4. ~GroupEdit
      BY <2>2 DEF GroupEdit, RemoveGroup, CreateGroup, UpdateGroup, SetActive, Edit
    <3>5. ~Restart /\ ~UNCHANGED vars
      BY <2>2 DEF Restart, vars
    <3>. QED
      BY <1>1, <3>1, <3>2, <3>3, <3>4, <3>5, NextSteps
  <2>. QED
    BY <2>3, <2>4, <2>5
<1>2. Inv /\ [Next]_vars =>
        [\A p \in Turns, e \in Employees :
           turn[p].op \in {"link", "create"} /\ row'[e].teams # row[e].teams
             /\ turn'[p].op = "answer"
             => Mailbox[row'[e].address] = Mailbox[Directory[turn[p].user]]]_vars
  BY <1>1
<1>. QED
  BY <1>2, InvHolds, PTL DEF Spec, LinkIsVerified
=============================================================================
