SPECIFICATION FairSpec
CONSTANTS
  Nodes = {n1, n2}
  Users = {u1}
  Logins = {l1, l2}
  NoNode = NoNode
  NoUser = NoUser
  Events = {"crash", "restart"}
PROPERTIES ClaimHeals
\* every node may have crashed for good
CHECK_DEADLOCK FALSE
