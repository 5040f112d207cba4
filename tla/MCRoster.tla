------------------------------ MODULE MCRoster ------------------------------
EXTENDS TeamsRoster, TLC

\* Two ways to write the first mailbox, one to write the second.
MCAddresses == {"m1", "M1", "m2"}
MCMailbox == [m1 |-> 1, M1 |-> 1, m2 |-> 2]
MCDirectory == [t1 |-> "m1", t2 |-> "m2"]

\* A default group the bot is in or has left, and another one it is in, has left,
\* or that is still to be made.
MCGroupsAtStart ==
  {[all |-> [chat |-> "c1", isDefault |-> TRUE, active |-> here], team |-> team] :
     here \in BOOLEAN,
     team \in {NoGroup} \cup [chat : {"c2"}, isDefault : {FALSE}, active : BOOLEAN]}
MCNoGroups == {<<>>}

Symmetry == Permutations(Employees) \cup Permutations(Turns)
=============================================================================
