SPECIFICATION Spec
CONSTANTS
  Nodes = {n1, n2}
  Users = {u1}
  Logins = {l1, l2}
  NoNode = NoNode
  NoUser = NoUser
  Events = {"lateRecord"}
INVARIANTS ReleasedAfterLast
