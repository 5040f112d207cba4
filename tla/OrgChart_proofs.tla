--------------------------- MODULE OrgChart_proofs ---------------------------
(***************************************************************************)
(* For charts of any size and shape, with cycles or without, changed while *)
(* they are searched: whom the search for reports finds, and whom the      *)
(* permissions built on it are granted for.                                *)
(***************************************************************************)
EXTENDS OrgChart, FiniteSetTheorems, TLAPS

-----------------------------------------------------------------------------
(* Being below somebody *)

\* More lines, more people below.
LEMMA BelowGrows ==
  ASSUME NEW lines, NEW more, lines \subseteq more, NEW e
  PROVE  Below(lines, e) \subseteq Below(more, e)
BY DEF Below

\* Who reports to the person, or to somebody below, is below.
LEMMA ReportsAreBelow ==
  ASSUME NEW lines, NEW e \in Employees, NEW m, m = e \/ m \in Below(lines, e),
         NEW b \in Employees, b # e, <<m, b>> \in lines
  PROVE  b \in Below(lines, e)
<1>1. ASSUME NEW S \in SUBSET Employees, e \in S,
             \A l \in lines : l[1] \in S => l[2] \in S
      PROVE  b \in S
  <2>1. m \in S
    BY <1>1 DEF Below
  <2> QED BY <1>1, <2>1
<1> QED BY <1>1 DEF Below

\* A set that has the person and all who report to its members has everybody
\* below.
LEMMA ClosedHasBelow ==
  ASSUME NEW lines, NEW e, NEW S \in SUBSET Employees, e \in S,
         \A l \in lines : l[1] \in S => l[2] \in S
  PROVE  Below(lines, e) \subseteq S \ {e}
BY DEF Below

LEMMA LinesAreLines ==
  ASSUME NEW chart \in [Employees -> SUBSET Employees]
  PROVE  /\ Lines(chart) \subseteq AllLines
         /\ \A m, e \in Employees : <<m, e>> \in Lines(chart) <=> m \in chart[e]
BY DEF Lines, AllLines

-----------------------------------------------------------------------------
(* Types *)

LEMMA WalkFields ==
  ASSUME TypeOK, NEW p \in Requests, job[p].op = "walk"
  PROVE  job[p] \in [op : {"walk"}, question : {"view", "decide"}, user : Employees,
                     visited : SUBSET Employees, frontier : SUBSET Employees,
                     found : SUBSET Employees, depth : Nat,
                     kept : SUBSET AllLines, seen : SUBSET AllLines]
BY DEF TypeOK, Jobs, Idle

LEMMA TypeInit == Init => TypeOK
BY ChartAssumption DEF Init, TypeOK, Jobs

LEMMA TypeNext == TypeOK /\ [Next]_vars => TypeOK'
<1> SUFFICES ASSUME TypeOK, [Next]_vars PROVE TypeOK'
  OBVIOUS
<1>1. ASSUME NEW e \in Employees, NEW to \in SUBSET Employees, UpdateManagers(e, to)
      PROVE  TypeOK'
  <2>1. managers' \in [Employees -> SUBSET Employees] /\ edits' \in Nat
    BY <1>1 DEF UpdateManagers, TypeOK
  <2>2. Lines(managers') \subseteq AllLines
    BY <2>1, LinesAreLines
  <2>3. ASSUME NEW p \in Requests, job[p].op = "walk"
        PROVE  [job[p] EXCEPT !.kept = @ \cap Lines(managers'),
                              !.seen = @ \cup Lines(managers')] \in Jobs
    BY <2>2, <2>3, WalkFields DEF Jobs
  <2>4. job' \in [Requests -> Jobs]
    BY <1>1, <2>3 DEF UpdateManagers, Witnessed, TypeOK
  <2> QED BY <1>1, <2>1, <2>4 DEF UpdateManagers, TypeOK
<1>2. ASSUME NEW e \in Employees, NEW to \in Employees \cup {None}, UpdateHr(e, to)
      PROVE  TypeOK'
  BY <1>2 DEF UpdateHr, TypeOK
<1>3. ASSUME NEW p \in Requests, NEW question \in {"view", "decide"},
             NEW u \in Employees, Ask(p, question, u)
      PROVE  TypeOK'
  <2>1. Lines(managers) \subseteq AllLines
    BY LinesAreLines DEF TypeOK
  <2>2. [op |-> "walk", question |-> question, user |-> u, visited |-> {u},
         frontier |-> {u}, found |-> {}, depth |-> 0, kept |-> Lines(managers),
         seen |-> Lines(managers)] \in Jobs
    BY <2>1 DEF Jobs
  <2> QED BY <1>3, <2>2 DEF Ask, Proceed, TypeOK
<1>4. ASSUME NEW p \in Requests, Level(p) PROVE TypeOK'
  <2> DEFINE j == job[p]
             k == [j EXCEPT !.visited = @ \cup Fresh(j), !.found = @ \cup Fresh(j),
                            !.frontier = Fresh(j), !.depth = @ + 1]
  <2>1. Fresh(j) \subseteq Employees
    BY DEF Fresh
  <2>2. k \in Jobs
    <3>1. j.depth + 1 \in Nat
      BY <1>4, WalkFields DEF Level, Walking
    <3>2. /\ j.visited \cup Fresh(j) \in SUBSET Employees
          /\ j.found \cup Fresh(j) \in SUBSET Employees
          /\ Fresh(j) \in SUBSET Employees
      BY <1>4, <2>1, WalkFields DEF Level, Walking
    <3> QED BY <1>4, <3>1, <3>2, WalkFields DEF Level, Walking, Jobs
  <2>3. job' \in [Requests -> Jobs]
    BY <1>4, <2>2 DEF Level, Proceed, TypeOK
  <2> QED BY <1>4, <2>3 DEF Level, TypeOK
<1>5. ASSUME NEW p \in Requests, Answer(p) PROVE TypeOK'
  <2>1. Granted(job[p]) \subseteq Employees
    BY <1>5, WalkFields DEF Answer, Granted, AssignedTo
  <2>2. [op |-> "answer", user |-> job[p].user, question |-> job[p].question,
         granted |-> Granted(job[p])] \in Jobs
    BY <1>5, <2>1, WalkFields DEF Answer, Jobs
  <2> QED BY <1>5, <2>2 DEF Answer, Proceed, TypeOK
<1>6. ASSUME NEW p \in Requests, Done(p) PROVE TypeOK'
  BY <1>6 DEF Done, Proceed, TypeOK, Jobs
<1>7. CASE UNCHANGED vars
  BY <1>7 DEF vars, TypeOK
<1> QED BY <1>1, <1>2, <1>3, <1>4, <1>5, <1>6, <1>7 DEF Next

\* The type invariant of the chart and the questions in flight.
THEOREM TypeCorrect == Spec => []TypeOK
BY TypeInit, TypeNext, PTL DEF Spec

-----------------------------------------------------------------------------
(* The search *)

\* What a search has visited is the person and people below; whoever reported
\* all the while to somebody it is done with has been visited.
Sound(j) ==
  /\ j.user \in j.visited
  /\ j.found = j.visited \ {j.user}
  /\ j.found \subseteq Below(j.seen, j.user)

Complete(j) ==
  /\ j.frontier \subseteq j.visited
  /\ \A l \in j.kept : l[1] \in j.visited \ j.frontier => l[2] \in j.visited

\* Every level that finds somebody adds to what has been found.
Deep(j) == j.frontier # {} => Cardinality(j.found) >= j.depth

WalkInv ==
  /\ TypeOK
  /\ \A p \in Requests :
       job[p].op = "walk" =>
         /\ job[p].kept \subseteq Lines(managers) /\ Lines(managers) \subseteq job[p].seen
         /\ Sound(job[p]) /\ Complete(job[p]) /\ Deep(job[p])

LEMMA WalkInit == Init => WalkInv
<1> SUFFICES ASSUME Init PROVE WalkInv
  OBVIOUS
<1>1. TypeOK
  BY TypeInit
<1>2. \A p \in Requests : job[p].op # "walk"
  BY DEF Init, Idle
<1> QED BY <1>1, <1>2 DEF WalkInv

\* One level down.
LEMMA LevelKeeps ==
  ASSUME WalkInv, NEW p \in Requests, Level(p), NEW k,
         k = [job[p] EXCEPT !.visited = @ \cup Fresh(job[p]), !.found = @ \cup Fresh(job[p]),
                            !.frontier = Fresh(job[p]), !.depth = @ + 1]
  PROVE  Sound(k) /\ Complete(k) /\ Deep(k)
<1> DEFINE j == job[p]
           F == Fresh(j)
<1>1. j \in [op : {"walk"}, question : {"view", "decide"}, user : Employees,
             visited : SUBSET Employees, frontier : SUBSET Employees,
             found : SUBSET Employees, depth : Nat,
             kept : SUBSET AllLines, seen : SUBSET AllLines]
  BY WalkFields DEF WalkInv, Level, Walking
<1>2. /\ j.kept \subseteq Lines(managers) /\ Lines(managers) \subseteq j.seen
      /\ Sound(j) /\ Complete(j) /\ Deep(j) /\ j.frontier # {}
  BY DEF WalkInv, Level, Walking
<1>3. /\ k.user = j.user /\ k.visited = j.visited \cup F /\ k.found = j.found \cup F
      /\ k.frontier = F /\ k.depth = j.depth + 1 /\ k.kept = j.kept /\ k.seen = j.seen
  BY <1>1
<1>4. F \subseteq Employees /\ F \cap j.visited = {}
  BY DEF Fresh
<1>5. managers \in [Employees -> SUBSET Employees]
  BY DEF WalkInv, TypeOK
<1>6. ASSUME NEW e \in F PROVE e \in Below(j.seen, j.user)
  <2>1. PICK m \in j.frontier : m \in managers[e]
    BY DEF Fresh
  <2>2. m \in Employees /\ e \in Employees
    BY <1>1, <1>4, <2>1
  <2>3. <<m, e>> \in j.seen
    BY <1>2, <1>5, <2>1, <2>2, LinesAreLines
  <2>4. m = j.user \/ m \in Below(j.seen, j.user)
    BY <1>2, <2>1 DEF Sound, Complete
  <2>5. e # j.user
    BY <1>2, <1>4 DEF Sound
  <2> QED BY <1>1, <2>2, <2>3, <2>4, <2>5, ReportsAreBelow
<1>7. Sound(k)
  <2>1. j.user \notin F
    BY <1>2, <1>4 DEF Sound
  <2> QED BY <1>2, <1>3, <1>6, <2>1 DEF Sound
<1>8. Complete(k)
  <2>1. ASSUME NEW l \in j.kept, l[1] \in j.visited PROVE l[2] \in j.visited \cup F
    <3>1. CASE l[1] \in j.frontier
      <4>1. l \in Lines(managers)
        BY <1>2
      <4>2. l[2] \in Employees /\ l[1] \in managers[l[2]]
        BY <4>1 DEF Lines
      <4> QED BY <3>1, <4>2 DEF Fresh
    <3>2. CASE l[1] \notin j.frontier
      BY <1>2, <2>1, <3>2 DEF Complete
    <3> QED BY <3>1, <3>2
  <2>2. k.visited \ k.frontier = j.visited
    BY <1>3, <1>4
  <2> QED BY <1>3, <2>1, <2>2 DEF Complete
<1>9. Deep(k)
  <2> SUFFICES ASSUME F # {} PROVE Cardinality(j.found \cup F) >= j.depth + 1
    BY <1>3 DEF Deep
  <2>1. IsFiniteSet(j.found) /\ IsFiniteSet(j.found \cup F)
    BY <1>1, <1>4, ChartAssumption, FS_Subset
  <2>2. PICK e \in F : e \notin j.found
    BY <1>2, <1>4 DEF Sound
  <2>3. Cardinality(j.found \cup {e}) = Cardinality(j.found) + 1
    BY <2>1, <2>2, FS_AddElement
  <2>4. Cardinality(j.found \cup {e}) <= Cardinality(j.found \cup F)
    BY <2>1, FS_Subset
  <2>5. Cardinality(j.found) >= j.depth
    BY <1>2 DEF Deep
  <2>6. /\ Cardinality(j.found) \in Nat /\ Cardinality(j.found \cup F) \in Nat
        /\ j.depth \in Nat
    BY <1>1, <2>1, FS_CardinalityType
  <2> QED BY <2>3, <2>4, <2>5, <2>6
<1> QED BY <1>7, <1>8, <1>9

\* The chart changes: what is found stays found, by lines seen before.
LEMMA ChangeKeeps ==
  ASSUME NEW j, NEW k, Sound(j), Complete(j), Deep(j),
         k.user = j.user, k.visited = j.visited, k.found = j.found,
         k.frontier = j.frontier, k.depth = j.depth,
         k.kept \subseteq j.kept, j.seen \subseteq k.seen
  PROVE  Sound(k) /\ Complete(k) /\ Deep(k)
BY BelowGrows DEF Sound, Complete, Deep

LEMMA WalkNext == WalkInv /\ [Next]_vars => WalkInv'
<1> SUFFICES ASSUME WalkInv, [Next]_vars PROVE WalkInv'
  OBVIOUS
<1>t. TypeOK /\ TypeOK'
  BY TypeNext DEF WalkInv
<1>1. ASSUME NEW e \in Employees, NEW to \in SUBSET Employees, UpdateManagers(e, to)
      PROVE  WalkInv'
  <2>1. ASSUME NEW p \in Requests, job'[p].op = "walk"
        PROVE  /\ job'[p].kept \subseteq Lines(managers')
               /\ Lines(managers') \subseteq job'[p].seen
               /\ Sound(job'[p]) /\ Complete(job'[p]) /\ Deep(job'[p])
    <3>1. job[p].op = "walk"
      BY <1>1, <2>1, <1>t DEF UpdateManagers, Witnessed, TypeOK
    <3>2. job'[p] = [job[p] EXCEPT !.kept = @ \cap Lines(managers'),
                                   !.seen = @ \cup Lines(managers')]
      BY <1>1, <3>1, <1>t DEF UpdateManagers, Witnessed, TypeOK
    <3>3. /\ job'[p].user = job[p].user /\ job'[p].visited = job[p].visited
          /\ job'[p].found = job[p].found /\ job'[p].frontier = job[p].frontier
          /\ job'[p].depth = job[p].depth
          /\ job'[p].kept = job[p].kept \cap Lines(managers')
          /\ job'[p].seen = job[p].seen \cup Lines(managers')
      BY <1>t, <3>1, <3>2, WalkFields
    <3>4. Sound(job[p]) /\ Complete(job[p]) /\ Deep(job[p])
      BY <3>1 DEF WalkInv
    <3> QED BY <3>3, <3>4, ChangeKeeps
  <2> QED BY <1>t, <2>1 DEF WalkInv, Sound, Complete, Deep
<1>2. ASSUME NEW e \in Employees, NEW to \in Employees \cup {None}, UpdateHr(e, to)
      PROVE  WalkInv'
  BY <1>2, <1>t DEF UpdateHr, WalkInv, Sound, Complete, Deep
<1>3. ASSUME NEW p \in Requests, NEW question \in {"view", "decide"},
             NEW u \in Employees, Ask(p, question, u)
      PROVE  WalkInv'
  <2> DEFINE k == [op |-> "walk", question |-> question, user |-> u, visited |-> {u},
                   frontier |-> {u}, found |-> {}, depth |-> 0,
                   kept |-> Lines(managers), seen |-> Lines(managers)]
  <2>1. job' = [job EXCEPT ![p] = k] /\ UNCHANGED managers
    BY <1>3 DEF Ask, Proceed
  <2>2. Cardinality({}) = 0
    BY FS_EmptySet
  <2>3. Sound(k) /\ Complete(k) /\ Deep(k)
    BY <2>2 DEF Sound, Complete, Deep
  <2>4. ASSUME NEW q \in Requests
        PROVE  job'[q] = k \/ job'[q] = job[q]
    BY <2>1, <1>t DEF TypeOK
  <2>5. k.kept = Lines(managers') /\ k.seen = Lines(managers')
    BY <2>1
  <2> QED BY <1>t, <2>1, <2>3, <2>4, <2>5 DEF WalkInv, Sound, Complete, Deep
<1>4. ASSUME NEW p \in Requests, Level(p) PROVE WalkInv'
  <2> DEFINE k == [job[p] EXCEPT !.visited = @ \cup Fresh(job[p]),
                                 !.found = @ \cup Fresh(job[p]),
                                 !.frontier = Fresh(job[p]), !.depth = @ + 1]
  <2>1. Sound(k) /\ Complete(k) /\ Deep(k)
    BY <1>4, LevelKeeps
  <2>2. job' = [job EXCEPT ![p] = k] /\ UNCHANGED managers /\ job[p].op = "walk"
    BY <1>4 DEF Level, Proceed, Walking
  <2>3. k.kept = job[p].kept /\ k.seen = job[p].seen
    BY <1>t, <2>2, WalkFields
  <2>4. ASSUME NEW q \in Requests
        PROVE  (job'[q] = k /\ q = p) \/ job'[q] = job[q]
    BY <2>2, <1>t DEF TypeOK
  <2> HIDE DEF k
  <2> QED BY <1>t, <2>1, <2>2, <2>3, <2>4 DEF WalkInv, Sound, Complete, Deep
<1>5. ASSUME NEW p \in Requests, Answer(p) \/ Done(p) PROVE WalkInv'
  <2>1. ASSUME NEW q \in Requests, job'[q].op = "walk" PROVE job'[q] = job[q]
    BY <1>5, <2>1, <1>t DEF Answer, Done, Proceed, TypeOK, Idle
  <2>2. UNCHANGED managers
    BY <1>5 DEF Answer, Done
  <2> QED BY <1>t, <2>1, <2>2 DEF WalkInv, Sound, Complete, Deep
<1>6. CASE UNCHANGED vars
  BY <1>6, <1>t DEF vars, WalkInv, Sound, Complete, Deep
<1> QED BY <1>1, <1>2, <1>3, <1>4, <1>5, <1>6 DEF Next

LEMMA WalkInvariant == Spec => []WalkInv
BY WalkInit, WalkNext, PTL DEF Spec

\* Whoever is found is below the person, by lines the chart has had since the
\* question was asked, and is not the person.
THEOREM SearchIsSound == Spec => []FoundAreBelow
<1>1. WalkInv => FoundAreBelow
  BY DEF WalkInv, Sound, FoundAreBelow
<1> QED BY <1>1, WalkInvariant, PTL

\* Of QueriesAreFew what Deep does not say.
ShortSoFar ==
  \A p \in Requests :
    job[p].op = "walk"
      => /\ job[p].depth <= MaxDepth
         /\ job[p].depth <= Cardinality(job[p].found) + 1

LEMMA FewQueriesNext ==
  ASSUME WalkInv, ShortSoFar, [Next]_vars
  PROVE  ShortSoFar'
<1> SUFFICES ASSUME NEW p \in Requests, job'[p].op = "walk"
             PROVE  /\ job'[p].depth <= MaxDepth
                    /\ job'[p].depth <= Cardinality(job'[p].found) + 1
  BY DEF ShortSoFar
<1>t. TypeOK
  BY DEF WalkInv
<1> DEFINE Kept == job[p].op = "walk" /\ job'[p].depth = job[p].depth
                                     /\ job'[p].found = job[p].found
<1>1. CASE Kept
  BY <1>1 DEF ShortSoFar
<1> HIDE DEF Kept
<1>2. ASSUME NEW e \in Employees, NEW to \in SUBSET Employees, UpdateManagers(e, to)
      PROVE  Kept
  <2>1. job[p].op = "walk"
    BY <1>2, <1>t DEF UpdateManagers, Witnessed, TypeOK
  <2>2. job'[p] = [job[p] EXCEPT !.kept = @ \cap Lines(managers'),
                                 !.seen = @ \cup Lines(managers')]
    BY <1>2, <2>1, <1>t DEF UpdateManagers, Witnessed, TypeOK
  <2> QED BY <1>t, <2>1, <2>2, WalkFields DEF Kept
<1>3. ASSUME UNCHANGED job PROVE Kept
  BY <1>3 DEF Kept
<1>4. ASSUME NEW q \in Requests, NEW question \in {"view", "decide"},
             NEW u \in Employees, Ask(q, question, u)
      PROVE  \/ Kept
             \/ job'[p].depth = 0 /\ job'[p].found = {}
  <2> DEFINE k == [op |-> "walk", question |-> question, user |-> u, visited |-> {u},
                   frontier |-> {u}, found |-> {}, depth |-> 0,
                   kept |-> Lines(managers), seen |-> Lines(managers)]
  <2>1. job' = [job EXCEPT ![q] = k]
    BY <1>4 DEF Ask, Proceed
  <2>2. job'[p] = k \/ job'[p] = job[p]
    BY <1>t, <2>1 DEF TypeOK
  <2> QED BY <2>2 DEF Kept
<1>5. ASSUME Level(p)
      PROVE  /\ job'[p].depth <= MaxDepth
             /\ job'[p].depth <= Cardinality(job'[p].found) + 1
  <2> DEFINE j == job[p]
             F == Fresh(j)
  <2>1. /\ j.op = "walk" /\ j.frontier # {} /\ j.depth < MaxDepth
        /\ job' = [job EXCEPT ![p] = [j EXCEPT !.visited = @ \cup F, !.found = @ \cup F,
                                              !.frontier = F, !.depth = @ + 1]]
    BY <1>5 DEF Level, Proceed, Walking
  <2>2. j.depth \in Nat /\ j.found \subseteq Employees /\ F \subseteq Employees
    BY <1>t, <2>1, WalkFields DEF Fresh
  <2>3. job'[p].depth = j.depth + 1 /\ job'[p].found = j.found \cup F
    BY <1>t, <2>1, WalkFields DEF TypeOK
  <2>4. Cardinality(j.found) >= j.depth
    BY <2>1 DEF WalkInv, Deep
  <2>5. IsFiniteSet(j.found) /\ IsFiniteSet(j.found \cup F)
    BY <2>2, ChartAssumption, FS_Subset
  <2>6. /\ Cardinality(j.found) \in Nat /\ Cardinality(j.found \cup F) \in Nat
        /\ Cardinality(j.found) <= Cardinality(j.found \cup F)
    BY <2>5, FS_Subset, FS_CardinalityType
  <2>7. Cardinality(job'[p].found) = Cardinality(j.found \cup F)
    BY <2>3
  <2>8. j.depth \in Nat /\ MaxDepth \in Nat /\ j.depth < MaxDepth
    BY <2>1, <2>2, ChartAssumption
  <2> HIDE DEF j, F
  <2>9. job'[p].depth <= MaxDepth
    BY <2>3, <2>8
  <2>10. job'[p].depth <= Cardinality(j.found \cup F) + 1
    BY <2>3, <2>4, <2>6, <2>8
  <2> QED BY <2>7, <2>9, <2>10
<1>6. ASSUME NEW q \in Requests, Level(q), q # p PROVE Kept
  BY <1>6, <1>t DEF Level, Proceed, TypeOK, Kept
<1>7. ASSUME NEW q \in Requests, Answer(q) \/ Done(q) PROVE Kept
  <2>1. job'[p] = job[p]
    BY <1>7, <1>t DEF Answer, Done, Proceed, TypeOK, Idle
  <2> QED BY <2>1 DEF Kept
<1>8. MaxDepth \in Nat /\ Cardinality({}) = 0
  BY ChartAssumption, FS_EmptySet
<1>9. ASSUME NEW e \in Employees, NEW to \in Employees \cup {None}, UpdateHr(e, to)
      PROVE  Kept
  BY <1>3, <1>9 DEF UpdateHr
<1> DEFINE Few == /\ job'[p].depth <= MaxDepth
                  /\ job'[p].depth <= Cardinality(job'[p].found) + 1
<1>10. Kept => Few
  BY <1>1
<1>11. job'[p].depth = 0 /\ job'[p].found = {} => Few
  BY <1>8
<1>12. ASSUME Level(p) PROVE Few
  BY <1>5, <1>12
<1> HIDE DEF Few
<1>13. ASSUME NEW q \in Requests, NEW question \in {"view", "decide"},
              NEW u \in Employees, Ask(q, question, u)
       PROVE  Few
  BY <1>4, <1>10, <1>11, <1>13
<1>14. ASSUME NEW q \in Requests, Level(q) PROVE Few
  <2>1. CASE q = p
    BY <1>12, <1>14, <2>1
  <2>2. CASE q # p
    BY <1>6, <1>10, <1>14, <2>2
  <2> QED BY <2>1, <2>2
<1>15. ASSUME UNCHANGED vars PROVE Few
  BY <1>3, <1>10, <1>15 DEF vars
<1>16. ASSUME NEW q \in Requests, Answer(q) \/ Done(q) PROVE Few
  BY <1>7, <1>10, <1>16
<1>17. Few
  BY <1>2, <1>9, <1>10, <1>13, <1>14, <1>15, <1>16 DEF Next
<1> QED BY <1>17 DEF Few

\* A chain of lines the chart has had all the while, as long as the levels gone
\* down, has been followed to its end.
Chains(lines, e, n) ==
  {c \in [0..n -> Employees] :
     c[0] = e /\ \A i \in 1..n : c[i - 1] = c[i] \/ <<c[i - 1], c[i]>> \in lines}

Reached(j) == \A c \in Chains(j.kept, j.user, j.depth) : c[j.depth] \in j.visited

ReachedSoFar == \A p \in Requests : job[p].op = "walk" => Reached(job[p])

LEMMA ChainsShrink ==
  ASSUME NEW lines, NEW more, lines \subseteq more, NEW e, NEW n
  PROVE  Chains(lines, e, n) \subseteq Chains(more, e, n)
BY DEF Chains

\* The end of a chain one step longer is one of the next level, or visited before.
LEMMA LevelReaches ==
  ASSUME WalkInv, ReachedSoFar, NEW p \in Requests, Level(p), NEW k,
         k = [job[p] EXCEPT !.visited = @ \cup Fresh(job[p]), !.found = @ \cup Fresh(job[p]),
                            !.frontier = Fresh(job[p]), !.depth = @ + 1]
  PROVE  Reached(k)
<1> DEFINE j == job[p]
           F == Fresh(j)
           n == j.depth
<1>1. j \in [op : {"walk"}, question : {"view", "decide"}, user : Employees,
             visited : SUBSET Employees, frontier : SUBSET Employees,
             found : SUBSET Employees, depth : Nat,
             kept : SUBSET AllLines, seen : SUBSET AllLines]
  BY WalkFields DEF WalkInv, Level, Walking
<1>2. j.kept \subseteq Lines(managers) /\ Complete(j) /\ Reached(j)
  BY DEF WalkInv, ReachedSoFar, Level, Walking
<1>3. /\ k.user = j.user /\ k.visited = j.visited \cup F
      /\ k.depth = n + 1 /\ k.kept = j.kept
  BY <1>1
<1>4. n \in Nat
  BY <1>1
<1> HIDE DEF n
<1>5. ASSUME NEW c \in Chains(j.kept, j.user, n + 1) PROVE c[n + 1] \in j.visited \cup F
  <2> DEFINE short == [i \in 0..n |-> c[i]]
  <2>1. /\ c \in [0..(n + 1) -> Employees] /\ c[0] = j.user
        /\ \A i \in 1..(n + 1) : c[i - 1] = c[i] \/ <<c[i - 1], c[i]>> \in j.kept
    BY DEF Chains
  <2>2. short \in [0..n -> Employees] /\ short[0] = j.user
    BY <1>4, <2>1
  <2>3. ASSUME NEW i \in 1..n
        PROVE  short[i - 1] = short[i] \/ <<short[i - 1], short[i]>> \in j.kept
    <3>1. i \in 1..(n + 1) /\ i \in 0..n /\ i - 1 \in 0..n
      BY <1>4
    <3> QED BY <2>1, <3>1
  <2>4. short \in Chains(j.kept, j.user, n)
    BY <2>2, <2>3 DEF Chains
  <2> HIDE DEF short
  <2>5. short[n] \in j.visited
    BY <1>2, <2>4 DEF Reached, n
  <2>6. c[n] = short[n]
    BY <1>4 DEF short
  <2>7. c[n] = c[n + 1] \/ <<c[n], c[n + 1]>> \in j.kept
    <3>1. n + 1 \in 1..(n + 1) /\ (n + 1) - 1 = n
      BY <1>4
    <3> QED BY <2>1, <3>1
  <2>8. CASE c[n] = c[n + 1]
    BY <2>5, <2>6, <2>8
  <2>9. CASE <<c[n], c[n + 1]>> \in j.kept
    <3>1. CASE c[n] \notin j.frontier
      <4>1. \A l \in j.kept : l[1] \in j.visited \ j.frontier => l[2] \in j.visited
        BY <1>2 DEF Complete
      <4> QED BY <2>5, <2>6, <2>9, <3>1, <4>1
    <3>2. CASE c[n] \in j.frontier
      <4>1. <<c[n], c[n + 1]>> \in Lines(managers)
        BY <1>2, <2>9
      <4>2. c[n + 1] \in Employees /\ c[n] \in managers[c[n + 1]]
        BY <4>1 DEF Lines
      <4> QED BY <3>2, <4>2 DEF Fresh
    <3> QED BY <3>1, <3>2
  <2> QED BY <2>7, <2>8, <2>9
<1>6. Reached(k)
  <2> SUFFICES ASSUME NEW c \in Chains(k.kept, k.user, k.depth) PROVE c[k.depth] \in k.visited
    BY DEF Reached
  <2> QED BY <1>3, <1>5
<1> QED BY <1>6

LEMMA ReachedNext ==
  ASSUME WalkInv, ReachedSoFar, [Next]_vars
  PROVE  ReachedSoFar'
<1> SUFFICES ASSUME NEW p \in Requests, job'[p].op = "walk" PROVE Reached(job'[p])
  BY DEF ReachedSoFar
<1>t. TypeOK
  BY DEF WalkInv
<1>1. ASSUME job'[p] = job[p] PROVE Reached(job'[p])
  BY <1>1 DEF ReachedSoFar
<1>2. ASSUME NEW e \in Employees, NEW to \in SUBSET Employees, UpdateManagers(e, to)
      PROVE  Reached(job'[p])
  <2>1. job[p].op = "walk"
    BY <1>2, <1>t DEF UpdateManagers, Witnessed, TypeOK
  <2>2. job'[p] = [job[p] EXCEPT !.kept = @ \cap Lines(managers'),
                                 !.seen = @ \cup Lines(managers')]
    BY <1>2, <2>1, <1>t DEF UpdateManagers, Witnessed, TypeOK
  <2>3. /\ job'[p].user = job[p].user /\ job'[p].visited = job[p].visited
        /\ job'[p].depth = job[p].depth /\ job'[p].kept \subseteq job[p].kept
    BY <1>t, <2>1, <2>2, WalkFields
  <2>4. Chains(job'[p].kept, job[p].user, job[p].depth)
          \subseteq Chains(job[p].kept, job[p].user, job[p].depth)
    BY <2>3, ChainsShrink
  <2>5. Reached(job[p])
    BY <2>1 DEF ReachedSoFar
  <2> QED BY <2>3, <2>4, <2>5 DEF Reached
<1>3. ASSUME NEW e \in Employees, NEW to \in Employees \cup {None}, UpdateHr(e, to)
      PROVE  Reached(job'[p])
  BY <1>1, <1>3 DEF UpdateHr
<1>4. ASSUME NEW q \in Requests, NEW question \in {"view", "decide"},
             NEW u \in Employees, Ask(q, question, u)
      PROVE  Reached(job'[p])
  <2> DEFINE k == [op |-> "walk", question |-> question, user |-> u, visited |-> {u},
                   frontier |-> {u}, found |-> {}, depth |-> 0,
                   kept |-> Lines(managers), seen |-> Lines(managers)]
  <2>1. job' = [job EXCEPT ![q] = k]
    BY <1>4 DEF Ask, Proceed
  <2>2. job'[p] = k \/ job'[p] = job[p]
    BY <1>t, <2>1 DEF TypeOK
  <2>3. Reached(k)
    BY DEF Reached, Chains
  <2> QED BY <1>1, <2>2, <2>3
<1>5. ASSUME NEW q \in Requests, Level(q) PROVE Reached(job'[p])
  <2> DEFINE k == [job[q] EXCEPT !.visited = @ \cup Fresh(job[q]),
                                 !.found = @ \cup Fresh(job[q]),
                                 !.frontier = Fresh(job[q]), !.depth = @ + 1]
  <2>1. Reached(k)
    BY <1>5, LevelReaches
  <2>2. job' = [job EXCEPT ![q] = k]
    BY <1>5 DEF Level, Proceed
  <2> HIDE DEF k
  <2>3. job'[p] = k \/ job'[p] = job[p]
    BY <1>t, <2>2 DEF TypeOK
  <2> QED BY <1>1, <2>1, <2>3
<1>6. ASSUME NEW q \in Requests, Answer(q) \/ Done(q) PROVE Reached(job'[p])
  <2>1. job'[p] = job[p]
    BY <1>6, <1>t DEF Answer, Done, Proceed, TypeOK, Idle
  <2> QED BY <1>1, <2>1
<1>7. CASE UNCHANGED vars
  BY <1>1, <1>7 DEF vars
<1> QED BY <1>2, <1>3, <1>4, <1>5, <1>6, <1>7 DEF Next

\* Whoever has been below the person all the while is found, in a chart of any
\* size: a search that runs out of people has found everybody below, and one that
\* is cut off (getAllReports, line 299) everybody down to MaxDepth lines below.
THEOREM SearchIsComplete == Spec => []BelowAreFound
<1>1. ASSUME WalkInv, ShortSoFar, ReachedSoFar PROVE BelowAreFound
  <2> SUFFICES ASSUME NEW p \in Requests, job[p].op = "walk", ~Walking(job[p])
               PROVE  IF job[p].frontier = {}
                      THEN Below(job[p].kept, job[p].user) \subseteq job[p].found
                      ELSE Within(job[p].kept, job[p].user, MaxDepth) \subseteq job[p].found
    BY DEF BelowAreFound
  <2> DEFINE j == job[p]
  <2>1. Sound(j) /\ Complete(j) /\ Reached(j) /\ j.depth <= MaxDepth
    BY <1>1 DEF WalkInv, ShortSoFar, ReachedSoFar
  <2>2. /\ j.user \in Employees /\ j.visited \subseteq Employees /\ j.depth \in Nat
        /\ j.found \subseteq Employees
    BY <1>1, WalkFields DEF WalkInv
  <2>3. CASE j.frontier = {}
    <3>1. \A l \in j.kept : l[1] \in j.visited => l[2] \in j.visited
      BY <2>1, <2>3 DEF Complete
    <3>2. Below(j.kept, j.user) \subseteq j.visited \ {j.user}
      BY <2>1, <2>2, <3>1, ClosedHasBelow DEF Sound
    <3> QED BY <2>1, <2>3, <3>2 DEF Sound
  <2>4. CASE j.frontier # {}
    <3>1. j.depth = MaxDepth
      BY <2>1, <2>2, <2>4, ChartAssumption DEF Walking
    <3>2. ASSUME NEW b \in Within(j.kept, j.user, MaxDepth) PROVE b \in j.found
      <4>1. PICK c \in [0..MaxDepth -> Employees] :
              /\ c[0] = j.user /\ c[MaxDepth] = b
              /\ \A i \in 1..MaxDepth : c[i - 1] = c[i] \/ <<c[i - 1], c[i]>> \in j.kept
        BY DEF Within
      <4>2. c \in Chains(j.kept, j.user, j.depth)
        BY <3>1, <4>1 DEF Chains
      <4>3. b \in j.visited
        BY <2>1, <3>1, <4>1, <4>2 DEF Reached
      <4>4. b # j.user
        BY DEF Within
      <4> QED BY <2>1, <4>3, <4>4 DEF Sound
    <3> QED BY <2>4, <3>2
  <2> QED BY <2>3, <2>4
<1>2. WalkInv /\ ShortSoFar /\ ReachedSoFar => BelowAreFound
  BY <1>1
<1>3. Init => ShortSoFar /\ ReachedSoFar
  BY DEF Init, Idle, ShortSoFar, ReachedSoFar
<1>4. WalkInv /\ ShortSoFar /\ [Next]_vars => ShortSoFar'
  BY FewQueriesNext
<1>5. WalkInv /\ ReachedSoFar /\ [Next]_vars => ReachedSoFar'
  BY ReachedNext
<1> QED BY <1>2, <1>3, <1>4, <1>5, WalkInvariant, PTL DEF Spec

\* Every query but the last of a search finds somebody, and there are MaxDepth at
\* most, in a chart of any size and with cycles (getAllReports): what makes the
\* search end once its queries are answered.
THEOREM SearchIsShort == Spec => []QueriesAreFew
<1>1. Init => ShortSoFar
  BY DEF Init, Idle, ShortSoFar
<1>2. WalkInv /\ ShortSoFar /\ [Next]_vars => ShortSoFar'
  BY FewQueriesNext
<1>3. ASSUME WalkInv, ShortSoFar PROVE QueriesAreFew
  <2> SUFFICES ASSUME NEW p \in Requests, job[p].op = "walk"
               PROVE  /\ job[p].depth <= MaxDepth
                      /\ job[p].depth <= Cardinality(job[p].found)
                                           + (IF job[p].frontier = {} THEN 1 ELSE 0)
    BY DEF QueriesAreFew
  <2>1. job[p].depth <= MaxDepth /\ job[p].depth <= Cardinality(job[p].found) + 1
    BY <1>3 DEF ShortSoFar
  <2>2. job[p].frontier # {} => Cardinality(job[p].found) >= job[p].depth
    BY <1>3 DEF WalkInv, Deep
  <2>3. job[p].depth \in Nat /\ Cardinality(job[p].found) \in Nat
    BY <1>3, WalkFields, ChartAssumption, FS_Subset, FS_CardinalityType DEF WalkInv
  <2> QED BY <2>1, <2>2, <2>3
<1>4. WalkInv /\ ShortSoFar => QueriesAreFew
  BY <1>3
<1> QED BY <1>1, <1>2, <1>4, WalkInvariant, PTL DEF Spec

\* A yes has a reason, whatever happens to the chart meanwhile: nobody but an
\* administrator decides about their own leave, and HR about nobody's.
THEOREM GrantsAreReasoned == Spec => GrantsHaveReasons
<1>1. ASSUME WalkInv, Next, NEW p \in Requests, job'[p].op = "answer",
             job[p].op = "walk", Role[job[p].user] # "ADMIN",
             NEW e \in job'[p].granted
      PROVE  \/ e \in Below(job[p].seen, job[p].user)
             \/ /\ job[p].question = "view"
                /\ \/ e = job[p].user
                   \/ Role[job[p].user] = "HR" /\ hr[e] = job[p].user
  <2>t. TypeOK
    BY <1>1 DEF WalkInv
  <2>1. Answer(p)
    <3>1. ASSUME NEW x \in Employees, NEW to \in SUBSET Employees, UpdateManagers(x, to)
          PROVE  FALSE
      <4>1. job'[p] = [job[p] EXCEPT !.kept = @ \cap Lines(managers'),
                                     !.seen = @ \cup Lines(managers')]
        BY <1>1, <3>1, <2>t DEF UpdateManagers, Witnessed, TypeOK
      <4>2. job'[p].op = job[p].op
        BY <1>1, <2>t, <4>1, WalkFields
      <4> QED BY <1>1, <4>2
    <3>2. ASSUME UNCHANGED job PROVE FALSE
      BY <1>1, <3>2
    <3>3. ASSUME NEW q \in Requests, NEW question, NEW u, Ask(q, question, u) PROVE FALSE
      BY <1>1, <3>3, <2>t DEF Ask, Proceed, TypeOK
    <3>4. ASSUME NEW q \in Requests, Level(q) PROVE FALSE
      <4> DEFINE k == [job[q] EXCEPT !.visited = @ \cup Fresh(job[q]),
                                     !.found = @ \cup Fresh(job[q]),
                                     !.frontier = Fresh(job[q]), !.depth = @ + 1]
      <4>1. job[q].op = "walk" /\ job' = [job EXCEPT ![q] = k]
        BY <3>4 DEF Level, Proceed, Walking
      <4>2. k.op = "walk"
        BY <2>t, <4>1, WalkFields
      <4> HIDE DEF k
      <4> QED BY <1>1, <2>t, <4>1, <4>2 DEF TypeOK
    <3>5. ASSUME NEW q \in Requests, Answer(q) \/ Done(q), q # p PROVE FALSE
      BY <1>1, <3>5, <2>t DEF Answer, Done, Proceed, TypeOK
    <3>6. ~Done(p)
      BY <1>1 DEF Done
    <3>7. ASSUME NEW x \in Employees, NEW to, UpdateHr(x, to) PROVE FALSE
      BY <3>2, <3>7 DEF UpdateHr
    <3> QED BY <1>1, <3>1, <3>3, <3>4, <3>5, <3>6, <3>7 DEF Next
  <2>2. job'[p].granted = Granted(job[p])
    BY <2>1, <2>t DEF Answer, Proceed, TypeOK
  <2>3. job[p].question \in {"view", "decide"} /\ job[p].user \in Employees
    BY <1>1, <2>t, WalkFields
  <2>4. job[p].found \subseteq Below(job[p].seen, job[p].user)
    BY <1>1 DEF WalkInv, Sound
  <2>5. CASE job[p].question = "decide"
    BY <1>1, <2>2, <2>4, <2>5 DEF Granted
  <2>6. CASE job[p].question = "view" /\ Role[job[p].user] = "HR"
    <3>1. Granted(job[p]) = job[p].found \cup {job[p].user} \cup AssignedTo(job[p].user)
      BY <1>1, <2>6 DEF Granted
    <3> QED BY <1>1, <2>2, <2>4, <2>6, <3>1 DEF AssignedTo
  <2>7. CASE job[p].question = "view" /\ Role[job[p].user] # "HR"
    <3>1. Granted(job[p]) = job[p].found \cup {job[p].user}
      BY <1>1, <2>7 DEF Granted
    <3> QED BY <1>1, <2>2, <2>4, <2>7, <3>1
  <2> QED BY <2>3, <2>5, <2>6, <2>7
<1>2. WalkInv /\ [Next]_vars
        => [\A p \in Requests :
              job'[p].op = "answer" /\ job[p].op = "walk" /\ Role[job[p].user] # "ADMIN"
                => \A e \in job'[p].granted :
                     \/ e \in Below(job[p].seen, job[p].user)
                     \/ /\ job[p].question = "view"
                        /\ \/ e = job[p].user
                           \/ Role[job[p].user] = "HR" /\ hr[e] = job[p].user]_vars
  BY <1>1
<1> QED BY <1>2, WalkInvariant, PTL DEF Spec, GrantsHaveReasons
=============================================================================
