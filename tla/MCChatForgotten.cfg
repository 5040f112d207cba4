SPECIFICATION Spec
CONSTANTS
  Employees = {e1, e2}
  TeamsUsers = {"t1", "t2"}
  Addresses <- MCAddresses
  Mailbox <- MCMailbox
  Directory <- MCDirectory
  Groups = {}
  GroupChats = {"c1", "c2"}
  GroupsAtStart <- MCNoGroups
  Turns = {p1, p2}
  OneAtATime = TRUE
  MaxEdits = 0
  None = None
INVARIANTS
  ChatKnown
CHECK_DEADLOCK FALSE
