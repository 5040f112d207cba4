------------------------------ MODULE OrgChart ------------------------------
(***************************************************************************)
(* Who reports to whom, and what follows from it: the search for all       *)
(* reports of a person and the permissions built on it                     *)
(* (src/src/admin/admin.service.ts 186-381).  The search asks the database *)
(* once per level of the chart, so an administrator may change the chart   *)
(* between two levels.                                                     *)
(*                                                                         *)
(* Rows name managers and HR by email.  An email stands here for the       *)
(* person who has it; an address nobody has leads nowhere.                 *)
(***************************************************************************)
EXTENDS Integers, FiniteSets

CONSTANTS
  Employees,
  Role,        \* employee -> the role in the token of the employee's requests
  Charts,      \* the charts to begin with
  MaxDepth,    \* 25: the levels the search goes down
  Requests,    \* slots for questions in flight
  MaxEdits,    \* bound of the model
  None

ASSUME ChartAssumption ==
  /\ IsFiniteSet(Employees)
  /\ Role \in [Employees -> {"ADMIN", "HR", "EMPLOYEE"}]
  /\ Charts \subseteq [Employees -> SUBSET Employees]
  /\ MaxDepth \in Nat
  /\ MaxEdits \in Nat
  /\ None \notin Employees

VARIABLES
  managers,   \* employee -> managerEmails
  hr,         \* employee -> hrEmail
  edits,      \* the number of edits so far
  job         \* slot -> the question in flight, with its local variables

vars == <<managers, hr, edits, job>>

Idle == [op |-> "idle"]

Init ==
  /\ managers \in Charts
  /\ hr = [e \in Employees |-> None]
  /\ edits = 0
  /\ job = [p \in Requests |-> Idle]

-----------------------------------------------------------------------------
(* Charts as sets of pairs, manager first *)

Lines(chart) == {l \in Employees \X Employees : l[1] \in chart[l[2]]}

\* The people below e: whoever is in every set that has e, and with somebody
\* all who report to them.
Below(lines, e) ==
  {b \in Employees \ {e} :
     \A S \in SUBSET Employees :
       (e \in S /\ \A l \in lines : l[1] \in S => l[2] \in S) => b \in S}

\* The people at most n lines below e: the ends of the chains of n steps that
\* each go down a line or stay.
Within(lines, e, n) ==
  {b \in Employees \ {e} :
     \E c \in [0..n -> Employees] :
       /\ c[0] = e /\ c[n] = b
       /\ \A i \in 1..n : c[i - 1] = c[i] \/ <<c[i - 1], c[i]>> \in lines}

-----------------------------------------------------------------------------
(* getAllReports: breadth first, a query per level.  What the chart has had *)
(* all the while (`kept`) and at some time (`seen`) since the question was  *)
(* asked is kept for the properties.                                        *)

Proceed(p, next) == job' = [job EXCEPT ![p] = next]

Ask(p, question, u) ==
  /\ job[p] = Idle
  /\ Proceed(p, [op |-> "walk", question |-> question, user |-> u,
                 visited |-> {u}, frontier |-> {u}, found |-> {}, depth |-> 0,
                 kept |-> Lines(managers), seen |-> Lines(managers)])
  /\ UNCHANGED <<managers, hr, edits>>

\* Mutant: the last level is not asked for.
Walking_short(j) == j.op = "walk" /\ j.frontier # {} /\ j.depth + 1 < MaxDepth

Walking(j) == j.op = "walk" /\ j.frontier # {} /\ j.depth < MaxDepth

\* Mutant: whoever has been visited is not passed over.
Fresh_again(j) == {e \in Employees : managers[e] \cap j.frontier # {}}

\* The next level: those who report to the frontier and are not counted yet.
Fresh(j) ==
  {e \in Employees : managers[e] \cap j.frontier # {} /\ e \notin j.visited}

\* Mutant: a loop that stops at no depth and passes nobody over.
Level_loop(p) ==
  LET j == job[p]
  IN  /\ Walking(j)
      /\ Proceed(p, [j EXCEPT !.frontier = Fresh_again(j)])
      /\ UNCHANGED <<managers, hr, edits>>

Level(p) ==
  LET j == job[p]
  IN  /\ Walking(j)
      /\ Proceed(p, [j EXCEPT !.visited = @ \cup Fresh(j), !.found = @ \cup Fresh(j),
                              !.frontier = Fresh(j), !.depth = @ + 1])
      /\ UNCHANGED <<managers, hr, edits>>

-----------------------------------------------------------------------------
(* canViewEmployeeData, or getVisibleEmployeeIds, and canManageLeave *)

AssignedTo(u) == {e \in Employees : hr[e] = u}

\* Mutant: HR decides about the leave of those it is assigned to.
Granted_hrDecides(j) ==
  IF Role[j.user] = "ADMIN" THEN Employees
  ELSE j.found \cup (IF j.question = "view" THEN {j.user} ELSE {})
               \cup (IF Role[j.user] = "HR" THEN AssignedTo(j.user) ELSE {})

\* Whom the answer is yes for.  HR sees, and does not decide.
Granted(j) ==
  IF Role[j.user] = "ADMIN" THEN Employees
  ELSE j.found \cup (IF j.question = "view" THEN {j.user} ELSE {})
               \cup (IF j.question = "view" /\ Role[j.user] = "HR"
                     THEN AssignedTo(j.user) ELSE {})

\* The query for those HR is assigned to, and the answer.
Answer(p) ==
  LET j == job[p]
  IN  /\ j.op = "walk"
      /\ ~Walking(j)
      /\ Proceed(p, [op |-> "answer", user |-> j.user, question |-> j.question,
                     granted |-> Granted(j)])
      /\ UNCHANGED <<managers, hr, edits>>

Done(p) ==
  /\ job[p].op = "answer"
  /\ Proceed(p, Idle)
  /\ UNCHANGED <<managers, hr, edits>>

-----------------------------------------------------------------------------
(* updateEmployee *)

\* The questions in flight live to see the chart change.
Witnessed(chart) ==
  [p \in Requests |->
     IF job[p].op = "walk"
     THEN [job[p] EXCEPT !.kept = @ \cap Lines(chart), !.seen = @ \cup Lines(chart)]
     ELSE job[p]]

UpdateManagers(e, to) ==
  /\ edits < MaxEdits
  /\ edits' = edits + 1
  /\ managers' = [managers EXCEPT ![e] = to]
  /\ job' = Witnessed(managers')
  /\ UNCHANGED hr

UpdateHr(e, to) ==
  /\ edits < MaxEdits
  /\ edits' = edits + 1
  /\ hr' = [hr EXCEPT ![e] = to]
  /\ UNCHANGED <<managers, job>>

Next ==
  \/ \E e \in Employees :
       \/ \E to \in SUBSET Employees : UpdateManagers(e, to)
       \/ \E to \in Employees \cup {None} : UpdateHr(e, to)
  \/ \E p \in Requests :
       \/ \E question \in {"view", "decide"}, u \in Employees : Ask(p, question, u)
       \/ Level(p) \/ Answer(p) \/ Done(p)

Spec == Init /\ [][Next]_vars

FairSpec == Spec /\ \A p \in Requests : WF_vars(Level(p)) /\ WF_vars(Answer(p))

-----------------------------------------------------------------------------
(* Types *)

AllLines == Employees \X Employees

Jobs ==
  {Idle}
    \cup [op : {"walk"}, question : {"view", "decide"}, user : Employees,
          visited : SUBSET Employees, frontier : SUBSET Employees,
          found : SUBSET Employees, depth : Nat,
          kept : SUBSET AllLines, seen : SUBSET AllLines]
    \cup [op : {"answer"}, question : {"view", "decide"}, user : Employees,
          granted : SUBSET Employees]

TypeOK ==
  /\ managers \in [Employees -> SUBSET Employees]
  /\ hr \in [Employees -> Employees \cup {None}]
  /\ edits \in Nat
  /\ job \in [Requests -> Jobs]

-----------------------------------------------------------------------------
(* What the search finds *)

\* Nobody is found who is not below the person by lines the chart has had while
\* the search went on - though not necessarily all of them at one time - and the
\* person is not found, whatever cycles the chart has (getAllReports, lines
\* 288-314).
FoundAreBelow ==
  \A p \in Requests :
    job[p].op = "walk" => job[p].found \subseteq Below(job[p].seen, job[p].user)

\* Whoever has been below the person all the while is found: "all direct and
\* indirect reports" (line 281), whatever else is moved meanwhile.  Only a search
\* that is cut off with people left to ask about may miss somebody, and then only
\* those more than MaxDepth lines down (`depth < 25`, line 299).
BelowAreFound ==
  \A p \in Requests :
    LET j == job[p]
    IN  j.op = "walk" /\ ~Walking(j)
          => IF j.frontier = {}
             THEN Below(j.kept, j.user) \subseteq j.found
             ELSE Within(j.kept, j.user, MaxDepth) \subseteq j.found

\* A yes is for the person, for somebody below, or for those HR is assigned to,
\* and the last two kinds in their place only: nobody but an administrator
\* decides about their own leave, and HR about nobody's (lines 340-381).
GrantsHaveReasons ==
  [][\A p \in Requests :
       job'[p].op = "answer" /\ job[p].op = "walk" /\ Role[job[p].user] # "ADMIN"
         => \A e \in job'[p].granted :
              \/ e \in Below(job[p].seen, job[p].user)
              \/ /\ job[p].question = "view"
                 /\ \/ e = job[p].user
                    \/ Role[job[p].user] = "HR" /\ hr[e] = job[p].user]_vars

\* Every query but the last of a search has found somebody not counted before:
\* cycles, and people moved under those already counted, cost no queries of their
\* own ("O(depth) queries is fine", line 285, which rests on `visitedEmails`).
QueriesAreFew ==
  \A p \in Requests :
    LET j == job[p]
    IN  j.op = "walk"
          => /\ j.depth <= MaxDepth
             /\ j.depth <= Cardinality(j.found) + (IF j.frontier = {} THEN 1 ELSE 0)

\* Every question is answered, also when the chart goes round in circles and is
\* changed while it is walked.
QuestionsEnd ==
  \A p \in Requests : job[p].op = "walk" ~> job[p].op = "answer"
=============================================================================
