SPECIFICATION Spec
CONSTANTS
  Employees = {e1, e2}
  TeamsUsers = {"t1", "t2"}
  Addresses <- MCAddresses
  Mailbox <- MCMailbox
  Directory <- MCDirectory
  Groups = {"all", "team"}
  GroupChats = {"c1", "c2"}
  GroupsAtStart <- MCGroupsAtStart
  Turns = {p1, p2}
  OneAtATime = TRUE
  MaxEdits = 1
  None = None
SYMMETRY Symmetry
INVARIANTS
  LoserIsLinked
  SidesAgree
PROPERTIES
  LinkIsVerified
  NoPhantoms
CHECK_DEADLOCK FALSE
