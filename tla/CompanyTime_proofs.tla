------------------------- MODULE CompanyTime_proofs -------------------------
(***************************************************************************)
(* Facts about instants, clock times and sums of minutes that the proofs   *)
(* about sessions rest on.  The provers have no induction: where one is    *)
(* needed it is the existence of a minimal set (WFMin on finite sets       *)
(* ordered by strict inclusion), which takes no operator as parameter.     *)
(***************************************************************************)
EXTENDS CompanyTime, FiniteSetTheorems, TLAPS

-----------------------------------------------------------------------------
(* Sums *)

\* The least sets of a nonempty collection of finite sets: every finite set
\* that lacks a property has a least subset that lacks it.
LEMMA MinimalFiniteSet ==
  ASSUME NEW U, NEW C, C # {}, C \subseteq FiniteSubsetsOf(U)
  PROVE  \E s \in C : \A r \in C : r \subseteq s => r = s
<1>1. IsWellFoundedOn(StrictSubsetOrdering(U), FiniteSubsetsOf(U))
  BY FS_StrictSubsetOrderingWellFounded
<1>2. PICK s \in C : \A r \in C : <<r, s>> \notin StrictSubsetOrdering(U)
  BY <1>1, WFMin
<1>3. \A r \in C : r \in SUBSET U
  BY DEF FiniteSubsetsOf
<1> QED BY <1>2, <1>3 DEF StrictSubsetOrdering

\* What a fold's recursive function does on the subsets of T.
Unrolls(g, f, T) ==
  \A s \in SUBSET T :
    g[s] = IF s = {} THEN 0
           ELSE f[CHOOSE x \in s : TRUE] + g[s \ {CHOOSE x \in s : TRUE}]

Unrolling(f, T) == {g \in [SUBSET T -> Nat] : Unrolls(g, f, T)}

LEMMA UnrollingUnique ==
  ASSUME NEW U, IsFiniteSet(U), NEW f,
         NEW S \in SUBSET U, NEW T \in SUBSET U,
         NEW g, NEW h, Unrolls(g, f, S), Unrolls(h, f, T),
         NEW s, s \subseteq S, s \subseteq T
  PROVE  g[s] = h[s]
<1> DEFINE C == {r \in SUBSET U : r \subseteq S /\ r \subseteq T /\ g[r] # h[r]}
<1> SUFFICES ASSUME C # {} PROVE FALSE
  OBVIOUS
<1>1. C \subseteq FiniteSubsetsOf(U)
  BY FS_Subset DEF FiniteSubsetsOf
<1>2. PICK r \in C : \A q \in C : q \subseteq r => q = r
  <2> HIDE DEF C
  <2> QED BY <1>1, MinimalFiniteSet
<1>3. r # {}
  BY DEF Unrolls
<1> DEFINE x == CHOOSE x \in r : TRUE
<1>4. x \in r
  BY <1>3
<1>5. r \ {x} \notin C
  BY <1>2, <1>4
<1>6. g[r \ {x}] = h[r \ {x}]
  BY <1>5
<1>7. g[r] = f[x] + g[r \ {x}] /\ h[r] = f[x] + h[r \ {x}]
  BY <1>3 DEF Unrolls
<1> QED BY <1>6, <1>7

LEMMA UnrollingExists ==
  ASSUME NEW U, IsFiniteSet(U), NEW f, \A x \in U : f[x] \in Nat
  PROVE  Unrolling(f, U) # {}
<1> DEFINE C == {r \in SUBSET U : Unrolling(f, r) = {}}
<1> SUFFICES ASSUME C # {} PROVE FALSE
  OBVIOUS
<1>1. C \subseteq FiniteSubsetsOf(U)
  BY FS_Subset DEF FiniteSubsetsOf
<1>2. PICK r \in C : \A q \in C : q \subseteq r => q = r
  <2> HIDE DEF C
  <2> QED BY <1>1, MinimalFiniteSet
<1>0. ASSUME NEW q \in SUBSET U, NEW t \in SUBSET q, NEW g, NEW h,
             Unrolls(g, f, q), Unrolls(h, f, t)
      PROVE  g[t] = h[t]
  BY <1>0, UnrollingUnique
<1> DEFINE first(s) == CHOOSE x \in s : TRUE
           rest(s)  == s \ {first(s)}
           V(q)     == CHOOSE g \in Unrolling(f, q) : TRUE
           G        == [s \in SUBSET r |-> IF s = {} THEN 0
                                          ELSE f[first(s)] + V(rest(s))[rest(s)]]
<1>3. \A s \in SUBSET r : s # {} => first(s) \in s /\ rest(s) \subseteq r /\ rest(s) # r
  OBVIOUS
<1>4. \A q \in SUBSET r : q # r => V(q) \in Unrolling(f, q)
  BY <1>2
<1>5. \A q \in SUBSET r : q # r => V(q) \in [SUBSET q -> Nat] /\ Unrolls(V(q), f, q)
  BY <1>4 DEF Unrolling
<1>6. G \in [SUBSET r -> Nat]
  <2> SUFFICES ASSUME NEW s \in SUBSET r, s # {}
               PROVE  f[first(s)] + V(rest(s))[rest(s)] \in Nat
    OBVIOUS
  <2>1. f[first(s)] \in Nat
    BY <1>3
  <2>2. V(rest(s))[rest(s)] \in Nat
    <3> DEFINE q == rest(s)
    <3>1. q \in SUBSET r /\ q # r
      BY <1>3
    <3>2. V(q) \in [SUBSET q -> Nat]
      BY <3>1, <1>5
    <3>3. V(q)[q] \in Nat
      <4> HIDE DEF V, q
      <4> QED BY <3>2
    <3> QED BY <3>3
  <2> HIDE DEF first, rest, V
  <2> QED BY <2>1, <2>2
<1>7. Unrolls(G, f, r)
  <2> SUFFICES ASSUME NEW s \in SUBSET r, s # {}
               PROVE  G[s] = f[first(s)] + G[rest(s)]
    <3>1. G[{}] = 0
      OBVIOUS
    <3> HIDE DEF G
    <3> QED BY <3>1 DEF Unrolls
  <2> DEFINE q == rest(s)
  <2>1. q \subseteq r /\ q # r /\ q \subseteq U
    BY <1>3
  <2>2. Unrolls(V(q), f, q)
    BY <1>5, <2>1
  <2>3. CASE q = {}
    <3>1. V(q)[q] = 0
      <4> HIDE DEF V, q
      <4> QED BY <2>2, <2>3 DEF Unrolls
    <3> QED BY <3>1, <2>3
  <2>4. CASE q # {}
    <3>1. V(q)[q] = f[first(q)] + V(q)[rest(q)]
      <4> HIDE DEF V, q
      <4> QED BY <2>2, <2>4 DEF Unrolls
    <3>2. rest(q) \subseteq q /\ rest(q) # r /\ rest(q) \subseteq r /\ rest(q) \subseteq U
      BY <2>1
    <3>3. Unrolls(V(rest(q)), f, rest(q))
      BY <1>5, <3>2
    <3>4. V(q)[rest(q)] = V(rest(q))[rest(q)]
      <4> HIDE DEF V, rest, q
      <4> QED BY <1>0, <3>2, <3>3, <2>1, <2>2
    <3>5. G[q] = f[first(q)] + V(rest(q))[rest(q)]
      BY <2>1, <2>4
    <3>6. G[q] = V(q)[q]
      BY <3>1, <3>4, <3>5
    <3> QED BY <3>6
  <2> QED BY <2>3, <2>4
<1> QED BY <1>2, <1>6, <1>7 DEF Unrolling

\* A sum is what such a function gives for the whole domain.
LEMMA SumUnrolls ==
  ASSUME NEW f, IsFiniteSet(DOMAIN f), \A x \in DOMAIN f : f[x] \in Nat
  PROVE  \E g \in Unrolling(f, DOMAIN f) : SumFunction(f) = g[DOMAIN f]
<1> DEFINE S == DOMAIN f
           step(it) == [s \in SUBSET S |->
                          IF s = {} THEN 0
                          ELSE f[CHOOSE x \in s : TRUE] + it[s \ {CHOOSE x \in s : TRUE}]]
           iter == CHOOSE it : it = step(it)
<1>1. PICK g \in Unrolling(f, S) : TRUE
  BY UnrollingExists
<1>2. g = step(g)
  BY <1>1 DEF Unrolling, Unrolls
<1>3. iter = step(iter)
  BY <1>2
<1>4. Unrolls(iter, f, S)
  BY <1>3 DEF Unrolls
<1>5. iter[S] = g[S]
  BY <1>1, <1>4, UnrollingUnique DEF Unrolling
<1>6. SumFunction(f) = iter[S]
  BY DEF SumFunction, SumFunctionOnSet, FoldFunctionOnSet, MapThenFoldSet
<1> QED BY <1>1, <1>5, <1>6

\* The sum of finitely many minutes is a number of minutes.
LEMMA SumOfNaturals ==
  ASSUME NEW f, IsFiniteSet(DOMAIN f), \A x \in DOMAIN f : f[x] \in Nat
  PROVE  SumFunction(f) \in Nat
<1>1. PICK g \in Unrolling(f, DOMAIN f) : SumFunction(f) = g[DOMAIN f]
  BY SumUnrolls
<1>2. g \in [SUBSET DOMAIN f -> Nat]
  BY <1>1 DEF Unrolling
<1> QED BY <1>1, <1>2

LEMMA SumOfNothing ==
  ASSUME NEW f, DOMAIN f = {}
  PROVE  SumFunction(f) = 0
<1>1. PICK g \in Unrolling(f, {}) : SumFunction(f) = g[{}]
  BY SumUnrolls, FS_EmptySet
<1> QED BY <1>1 DEF Unrolling, Unrolls

\* Any element may be taken out first.
LEMMA UnrollsAnywhere ==
  ASSUME NEW S, IsFiniteSet(S), NEW f, \A x \in S : f[x] \in Nat,
         NEW g \in Unrolling(f, S), NEW s \in SUBSET S, NEW x \in s
  PROVE  g[s] = f[x] + g[s \ {x}]
<1> DEFINE C == {r \in SUBSET S : \E y \in r : g[r] # f[y] + g[r \ {y}]}
<1> SUFFICES ASSUME C # {} PROVE FALSE
  OBVIOUS
<1>1. C \subseteq FiniteSubsetsOf(S)
  BY FS_Subset DEF FiniteSubsetsOf
<1>2. PICK r \in C : \A q \in C : q \subseteq r => q = r
  <2> HIDE DEF C
  <2> QED BY <1>1, MinimalFiniteSet
<1>3. PICK y \in r : g[r] # f[y] + g[r \ {y}]
  OBVIOUS
<1> DEFINE z == CHOOSE z \in r : TRUE
           rest == (r \ {y}) \ {z}
<1>4. z \in r /\ y \in r /\ r \in SUBSET S
  OBVIOUS
<1>5. g[r] = f[z] + g[r \ {z}]
  BY <1>3 DEF Unrolling, Unrolls
<1>6. y # z
  BY <1>3, <1>5
<1>7. g[r \ {z}] = f[y] + g[rest]
  <2>1. r \ {z} \notin C /\ y \in r \ {z}
    BY <1>2, <1>4, <1>6
  <2>2. (r \ {z}) \ {y} = rest
    OBVIOUS
  <2> QED BY <1>4, <2>1, <2>2
<1>8. g[r \ {y}] = f[z] + g[rest]
  <2>1. r \ {y} \notin C /\ z \in r \ {y}
    BY <1>2, <1>4, <1>6
  <2> QED BY <1>4, <2>1
<1>9. g[rest] \in Nat /\ f[y] \in Nat /\ f[z] \in Nat
  BY <1>4 DEF Unrolling
<1> HIDE DEF z, rest, C
<1> QED BY <1>3, <1>5, <1>7, <1>8, <1>9

\* A sum is one of its terms and the sum of the others.
LEMMA SumSplits ==
  ASSUME NEW f, IsFiniteSet(DOMAIN f), \A y \in DOMAIN f : f[y] \in Nat,
         NEW x \in DOMAIN f
  PROVE  SumFunction(f) = f[x] + SumFunction([y \in DOMAIN f \ {x} |-> f[y]])
<1> DEFINE S == DOMAIN f
           T == S \ {x}
           h == [y \in T |-> f[y]]
<1>1. PICK g \in Unrolling(f, S) : SumFunction(f) = g[S]
  BY SumUnrolls
<1>2. PICK k \in Unrolling(h, T) : SumFunction(h) = k[T]
  <2>1. IsFiniteSet(T) /\ DOMAIN h = T /\ \A y \in T : h[y] \in Nat
    BY FS_Subset
  <2> HIDE DEF h, T
  <2> QED BY <2>1, SumUnrolls
<1>3. Unrolls(k, f, T)
  <2>1. \A s \in SUBSET T : s # {} => h[CHOOSE y \in s : TRUE] = f[CHOOSE y \in s : TRUE]
    OBVIOUS
  <2>2. Unrolls(k, h, T)
    BY DEF Unrolling
  <2> HIDE DEF h, T
  <2> QED BY <2>1, <2>2 DEF Unrolls
<1>4. k[T] = g[T]
  <2>1. Unrolls(g, f, S) /\ T \subseteq S
    BY DEF Unrolling
  <2> HIDE DEF h, T
  <2> QED BY <1>3, <2>1, UnrollingUnique
<1>5. g[S] = f[x] + g[T]
  BY UnrollsAnywhere
<1> QED BY <1>1, <1>2, <1>4, <1>5

\* Finitely many disjoint finite sets have as many elements together as the sum
\* of what each has.
LEMMA CountsAddUp ==
  ASSUME NEW S, IsFiniteSet(S), NEW g, NEW n \in [S -> Nat],
         \A x \in S : IsFiniteSet(g[x]) /\ n[x] = Cardinality(g[x]),
         \A x \in S : \A y \in S : x # y => g[x] \cap g[y] = {},
         NEW all, \A u : u \in all <=> \E x \in S : u \in g[x]
  PROVE  SumFunction(n) = Cardinality(all)
<1> DEFINE U(r) == UNION {g[x] : x \in r}
           P(r) == /\ IsFiniteSet(U(r))
                   /\ SumFunction([x \in r |-> n[x]]) = Cardinality(U(r))
           C == {r \in SUBSET S : ~P(r)}
<1> SUFFICES ASSUME C # {} PROVE FALSE
  <2>1. P(S)
    <3> HIDE DEF P
    <3> QED OBVIOUS
  <2>2. U(S) = all
    OBVIOUS
  <2>3. [x \in S |-> n[x]] = n
    OBVIOUS
  <2> HIDE DEF U
  <2> QED BY <2>1, <2>2, <2>3
<1>1. C \subseteq FiniteSubsetsOf(S)
  BY FS_Subset DEF FiniteSubsetsOf
<1>2. PICK r \in C : \A q \in C : q \subseteq r => q = r
  <2> HIDE DEF C
  <2> QED BY <1>1, MinimalFiniteSet
<1>3. r # {}
  <2>1. U({}) = {}
    OBVIOUS
  <2> DEFINE f == [x \in {} |-> n[x]]
  <2>2. SumFunction(f) = 0
    <3>1. DOMAIN f = {}
      OBVIOUS
    <3> HIDE DEF f
    <3> QED BY <3>1, SumOfNothing
  <2>3. P({})
    <3> HIDE DEF U
    <3> QED BY <2>1, <2>2, FS_EmptySet
  <2> HIDE DEF P
  <2> QED BY <2>3
<1>4. PICK x \in r : TRUE
  BY <1>3
<1> DEFINE q == r \ {x}
<1>5. P(q)
  <2>1. q \notin C /\ q \in SUBSET S
    BY <1>2, <1>4
  <2> HIDE DEF P, q
  <2> QED BY <2>1
<1>6. U(r) = U(q) \cup g[x] /\ U(q) \cap g[x] = {}
  <2>1. \A y \in q : g[y] \cap g[x] = {}
    BY <1>4
  <2> QED BY <1>4, <2>1
<1>7. /\ IsFiniteSet(U(r))
      /\ Cardinality(U(r)) = Cardinality(U(q)) + Cardinality(g[x])
  <2>1. IsFiniteSet(g[x]) /\ IsFiniteSet(U(q))
    BY <1>4, <1>5
  <2> HIDE DEF U, q
  <2>2. /\ IsFiniteSet(U(q) \cup g[x])
        /\ Cardinality(U(q) \cup g[x])
             = Cardinality(U(q)) + Cardinality(g[x]) - Cardinality({})
    BY <1>6, <2>1, FS_Union
  <2>3. Cardinality(U(q)) \in Nat /\ Cardinality(g[x]) \in Nat /\ Cardinality({}) = 0
    BY <2>1, FS_CardinalityType, FS_EmptySet
  <2> QED BY <1>6, <2>2, <2>3
<1>8. SumFunction([y \in r |-> n[y]]) = n[x] + SumFunction([y \in q |-> n[y]])
  <2> DEFINE f == [y \in r |-> n[y]]
  <2>1. IsFiniteSet(DOMAIN f) /\ x \in DOMAIN f
    BY <1>4, FS_Subset
  <2>2. \A y \in DOMAIN f : f[y] \in Nat
    BY FS_CardinalityType
  <2>3. SumFunction(f) = f[x] + SumFunction([y \in DOMAIN f \ {x} |-> f[y]])
    <3> HIDE DEF f
    <3> QED BY <2>1, <2>2, SumSplits
  <2>4. [y \in DOMAIN f \ {x} |-> f[y]] = [y \in q |-> n[y]]
    OBVIOUS
  <2> HIDE DEF q
  <2> QED BY <1>4, <2>3, <2>4
<1>9. Cardinality(g[x]) \in Nat /\ n[x] = Cardinality(g[x])
  BY <1>4, FS_CardinalityType
<1>10. Cardinality(U(q)) \in Nat
  BY <1>5, FS_CardinalityType
<1>11. SumFunction([y \in r |-> n[y]]) = Cardinality(U(r))
  <2> HIDE DEF U, q
  <2> QED BY <1>5, <1>7, <1>8, <1>9, <1>10
<1>12. P(r)
  BY <1>7, <1>11
<1>13. ~P(r)
  <2> HIDE DEF P
  <2> QED OBVIOUS
<1> QED BY <1>12, <1>13

-----------------------------------------------------------------------------
(* Days and minutes *)

LEMMA DayTicksPositive == DayTicks \in Nat \ {0}
<1>1. \A m, n \in Nat \ {0} : m * n \in Nat \ {0}
  OBVIOUS
<1> QED BY <1>1, ClockAssumption DEF DayTicks

LEMMA DivisionBounds ==
  ASSUME NEW d \in Nat \ {0}, NEW t \in Nat
  PROVE  /\ t \div d \in Nat
         /\ (t \div d) * d \in Nat
         /\ (t \div d) * d <= t
         /\ t < (t \div d) * d + d
  OBVIOUS

\* A day starts no later than its instants, and ends after them.
LEMMA DayBounds ==
  ASSUME NEW t \in Instants
  PROVE  /\ StartOfDay(t) \in Instants /\ NextMidnight(t) \in Instants
         /\ StartOfDay(t) <= t
         /\ t < NextMidnight(t)
BY DayTicksPositive, DivisionBounds DEF StartOfDay, NextMidnight, Instants

LEMMA MultiplesApart ==
  ASSUME NEW d \in Nat \ {0}, NEW m \in Nat, NEW n \in Nat, m * d < n * d
  PROVE  m * d + d <= n * d
<1>1. m < n
  OBVIOUS
<1>2. m + 1 <= n
  BY <1>1
<1>3. \A k \in Nat : (m + 1 + k) * d >= (m + 1) * d
  OBVIOUS
<1>4. n * d >= (m + 1) * d
  BY <1>2, <1>3
<1> QED BY <1>4

\* An instant before a day is over before that day starts.
LEMMA DaysApart ==
  ASSUME NEW t \in Instants, NEW u \in Instants, t < StartOfDay(u)
  PROVE  NextMidnight(t) <= StartOfDay(u)
<1>1. StartOfDay(t) < StartOfDay(u)
  BY DayBounds DEF Instants
<1>2. t \div DayTicks \in Nat /\ u \div DayTicks \in Nat
  BY DayTicksPositive, DivisionBounds DEF Instants
<1> QED BY <1>1, <1>2, DayTicksPositive, MultiplesApart DEF StartOfDay, NextMidnight

LEMMA MinutesAreNatural ==
  ASSUME NEW t \in Int, NEW u \in Int
  PROVE  MinutesBetween(t, u) \in Nat
BY DivisionBounds, ClockAssumption DEF MinutesBetween

\* Whole minutes of two stretches of time, and of both together.
LEMMA FloorOfSum ==
  ASSUME NEW d \in Nat \ {0}, NEW t \in Nat, NEW u \in Nat
  PROVE  /\ (t \div d) + (u \div d) <= (t + u) \div d
         /\ (t + u) \div d <= (t \div d) + (u \div d) + 1
<1> DEFINE m == t \div d
           n == u \div d
           q == (t + u) \div d
<1>1. /\ m \in Nat /\ m * d <= t /\ t < m * d + d
      /\ n \in Nat /\ n * d <= u /\ u < n * d + d
      /\ q \in Nat /\ q * d <= t + u /\ t + u < q * d + d
  BY DivisionBounds
<1> HIDE DEF m, n, q
<1>2. (m + n) * d < (q + 1) * d /\ q * d < (m + n + 2) * d
  BY <1>1
<1>3. m + n < q + 1 /\ q < m + n + 2
  BY <1>1, <1>2
<1>4. m + n <= q /\ q <= m + n + 1
  BY <1>1, <1>3
<1> QED BY <1>4 DEF m, n, q

LEMMA MinutesSplit ==
  ASSUME NEW from \in Int, NEW mid \in Int, NEW to \in Int, from <= mid, mid <= to
  PROVE  /\ MinutesBetween(from, mid) + MinutesBetween(mid, to) <= MinutesBetween(from, to)
         /\ MinutesBetween(from, to)
              <= MinutesBetween(from, mid) + MinutesBetween(mid, to) + 1
<1>1. \A t, u \in Int : t <= u => MinutesBetween(t, u) = (u - t) \div MinuteTicks
  BY ClockAssumption DEF MinutesBetween
<1>2. mid - from \in Nat /\ to - mid \in Nat /\ (mid - from) + (to - mid) = to - from
  OBVIOUS
<1>3. from <= to
  OBVIOUS
<1> DEFINE m(t) == t \div MinuteTicks
<1>4. /\ m(mid - from) + m(to - mid) <= m(to - from)
      /\ m(to - from) <= m(mid - from) + m(to - mid) + 1
  <2>. PICK t \in Nat, u \in Nat : t = mid - from /\ u = to - mid
    BY <1>2
  <2>1. /\ m(t) + m(u) <= m(t + u)
        /\ m(t + u) <= m(t) + m(u) + 1
    <3> HIDE DEF m
    <3> QED BY ClockAssumption, FloorOfSum DEF m
  <2>2. t + u = to - from
    BY <1>2
  <2> HIDE DEF m
  <2> QED BY <2>1, <2>2
<1>5. /\ MinutesBetween(from, mid) = m(mid - from)
      /\ MinutesBetween(mid, to) = m(to - mid)
      /\ MinutesBetween(from, to) = m(to - from)
  BY <1>1, <1>3
<1> HIDE DEF m
<1> QED BY <1>4, <1>5

\* A session cut back from `to` to `at` loses what it lasted in between, its
\* break no more than that but for the minute lost in rounding.
LEMMA CutBack ==
  ASSUME NEW from \in Int, NEW at \in Int, NEW to \in Int, NEW start \in Int,
         from <= at, at <= to
  PROVE  /\ MinutesBetween(from, at) <= MinutesBetween(from, to)
         /\ MinutesBetween(from, at) - MinutesBetween(start, at)
              <= MinutesBetween(from, to) - MinutesBetween(start, to) + 1
<1>. PICK worked \in Nat, shown \in Nat, between \in Nat, taken \in Nat, counted \in Nat,
          before \in Nat :
       /\ worked = MinutesBetween(from, at) /\ shown = MinutesBetween(from, to)
       /\ between = MinutesBetween(at, to)
       /\ taken = MinutesBetween(start, at) /\ counted = MinutesBetween(start, to)
       /\ before = MinutesBetween(at, start)
  BY MinutesAreNatural
<1>1. worked + between <= shown
  BY MinutesSplit
<1>2. CASE start <= at
  <2>1. counted <= taken + between + 1
    BY <1>2, MinutesSplit
  <2>2. worked <= shown /\ worked - taken <= shown - counted + 1
    BY <1>1, <2>1
  <2> QED BY <2>2
<1>3. CASE start > at
  <2>1. taken = 0
    BY <1>3 DEF MinutesBetween
  <2>2. counted <= between
    <3>1. CASE start <= to
      <4>1. before + counted <= between
        BY <1>3, <3>1, MinutesSplit
      <4> QED BY <4>1
    <3>2. CASE start > to
      <4>1. counted = 0
        BY <3>2 DEF MinutesBetween
      <4> QED BY <4>1
    <3> QED BY <3>1, <3>2
  <2>3. worked <= shown /\ worked - taken <= shown - counted + 1
    BY <1>1, <2>1, <2>2
  <2> QED BY <2>3
<1> QED BY <1>2, <1>3

LEMMA ClockTimeType ==
  ASSUME NEW t \in Instants, NEW c
  PROVE  /\ AtClockTime(t, c) \in Instants \cup {NoTime}
         /\ AtClockTime(t, c) # NoTime => AtClockTime(t, c) >= StartOfDay(t)
<1>1. CASE c \in ClockTimes
  <2>1. c \in Nat
    BY <1>1, ClockAssumption DEF ClockTimes
  <2>2. c * MinuteTicks \in Nat
    BY <2>1, ClockAssumption
  <2> QED BY <1>1, <2>2, DayBounds DEF AtClockTime, Instants, NoTime
<1>2. CASE c \notin ClockTimes
  BY <1>2 DEF AtClockTime
<1> QED BY <1>1, <1>2

-----------------------------------------------------------------------------
(* The latest of some instants, and when a sweep closes a session *)

LEMMA LatestExists ==
  ASSUME NEW S, S \subseteq Nat, S # {}, IsFiniteSet(S)
  PROVE  Max(S) \in S /\ \A t \in S : t <= Max(S)
<1> DEFINE above(t) == {u \in S : u >= t}
           C == {r \in SUBSET S : \E t \in S : r = above(t)}
<1>1. C # {} /\ C \subseteq FiniteSubsetsOf(S)
  <2>1. PICK t \in S : TRUE
    OBVIOUS
  <2>2. above(t) \in C
    BY <2>1
  <2>3. C \subseteq FiniteSubsetsOf(S)
    BY FS_Subset DEF FiniteSubsetsOf
  <2> QED BY <2>2, <2>3
<1>2. PICK s \in C : \A r \in C : r \subseteq s => r = s
  <2> HIDE DEF C
  <2> QED BY <1>1, MinimalFiniteSet
<1>3. PICK m \in S : s = above(m)
  BY <1>2
<1>4. ASSUME NEW t \in S, t > m PROVE FALSE
  <2>1. above(t) \in C
    BY <1>4
  <2>2. above(t) \subseteq above(m)
    <3>1. ASSUME NEW u \in above(t) PROVE u \in S /\ u >= m
      <4>1. u \in Nat /\ t \in Nat /\ m \in Nat /\ u >= t /\ u \in S
        BY <3>1
      <4> QED BY <4>1, <1>4
    <3> QED BY <3>1
  <2>3. m \in above(m) /\ m \notin above(t)
    <3>1. m \in Nat /\ t \in Nat
      OBVIOUS
    <3> QED BY <3>1, <1>4
  <2> HIDE DEF above, C
  <2> QED BY <2>1, <2>2, <2>3, <1>2, <1>3
<1>5. \A t \in S : m >= t
  BY <1>4
<1> QED BY <1>3, <1>5 DEF Max

LEMMA EarlierOfTwo ==
  ASSUME NEW t \in Nat, NEW u \in Nat
  PROVE  /\ Min({t, u}) \in {t, u}
         /\ Min({t, u}) <= t /\ Min({t, u}) <= u
BY DEF Min

LEMMA LaterOfTwo ==
  ASSUME NEW t \in Nat, NEW u \in Nat
  PROVE  /\ Max({t, u}) \in {t, u}
         /\ Max({t, u}) >= t /\ Max({t, u}) >= u
BY DEF Max

LEMMA MaxWithZero ==
  ASSUME NEW t \in Int
  PROVE  Max({0, t}) \in Nat
<1>1. \E m \in {0, t} : \A u \in {0, t} : m >= u
  OBVIOUS
<1>2. Max({0, t}) \in {0, t} /\ Max({0, t}) >= 0
  BY <1>1 DEF Max
<1> QED BY <1>2

\* A forgotten session is closed after its check-in, and not after the
\* midnight that ends the day of the check-in (autoCheckOutTime, 327-348).
THEOREM AutoCheckOutWithinDay ==
  ASSUME NEW t \in Instants, NEW stamps, stamps \subseteq Instants,
         IsFiniteSet(stamps), NEW s \in ShiftRecords
  PROVE  /\ AutoCheckOutTime(t, stamps, s) \in Instants
         /\ t < AutoCheckOutTime(t, stamps, s)
         /\ AutoCheckOutTime(t, stamps, s) <= NextMidnight(t)
<1> DEFINE midnight == NextMidnight(t)
           start == AtClockTime(t, s.start)
           end == AtClockTime(t, s.end)
<1>1. midnight \in Nat /\ t \in Nat /\ t < midnight
  BY DayBounds DEF Instants
<1>2. CASE start = NoTime \/ end = NoTime \/ end <= start \/ end <= t
  BY <1>1, <1>2 DEF AutoCheckOutTime, Instants
<1>3. CASE ~(start = NoTime \/ end = NoTime \/ end <= start \/ end <= t)
  <2>1. end \in Nat /\ end > t
    BY <1>1, <1>3, ClockTimeType DEF Instants
  <2> DEFINE S == {end} \cup stamps
  <2>2. S \subseteq Nat /\ IsFiniteSet(S) /\ S # {}
    <3>1. IsFiniteSet(stamps \cup {end})
      BY FS_AddElement
    <3>2. S = stamps \cup {end}
      OBVIOUS
    <3> QED BY <2>1, <3>1, <3>2 DEF Instants
  <2>3. Max(S) \in Nat /\ Max(S) >= end
    BY <2>2, LatestExists
  <2>4. AutoCheckOutTime(t, stamps, s) = Min({midnight, Max(S)})
    BY <1>3 DEF AutoCheckOutTime
  <2> HIDE DEF S, midnight, end, start
  <2>5. /\ Min({midnight, Max(S)}) \in {midnight, Max(S)}
        /\ Min({midnight, Max(S)}) <= midnight
    BY <2>3, <1>1, EarlierOfTwo
  <2>6. Max(S) > t
    BY <2>1, <2>3, <1>1
  <2> QED BY <2>3, <2>4, <2>5, <2>6, <1>1 DEF midnight, Instants
<1> QED BY <1>2, <1>3
=============================================================================
