------------------------------- MODULE MCTasks -------------------------------
EXTENDS TaskHistory, TLC

\* Tasks of somebody who is no administrator.
MCOwner == LET worker == CHOOSE u \in Users : u \notin Admins
           IN  [t \in Tasks |-> worker]

MCBlank == LET new == CHOOSE v \in Values : TRUE
           IN  [f \in Fields |-> new]

Symmetry == Permutations(Requests) \cup Permutations(Fields)
=============================================================================
