----------------------------- MODULE MCOrgChart -----------------------------
EXTENDS OrgChart, TLC

CONSTANTS a, b, c, d

\* A line longer than the search goes, the same line closed to a circle, and a
\* chart in which somebody has two managers.
MCCharts == {
  a :> {}  @@ b :> {a} @@ c :> {b} @@ d :> {c},
  a :> {d} @@ b :> {a} @@ c :> {b} @@ d :> {c},
  a :> {}  @@ b :> {a} @@ c :> {a} @@ d :> {b, c}}

MCRole == a :> "HR" @@ b :> "ADMIN" @@ c :> "EMPLOYEE" @@ d :> "EMPLOYEE"
=============================================================================
