SPECIFICATION FairSpec
CONSTANTS
  Nodes = {n1, n2}
  Users = {u1}
  Logins = {l1, l2}
  NoNode = NoNode
  NoUser = NoUser
  Events = {"shutdown", "crash", "dbError"}
INVARIANTS ReleasedAfterLast
PROPERTIES ClaimHeals
\* every node may have crashed for good
CHECK_DEADLOCK FALSE
