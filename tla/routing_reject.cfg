SPECIFICATION Spec
CONSTANTS
  Nodes = {n1, n2}
  Conns = {c1}
  Users <- MCOneUser
  Services <- MCOneService
  Hosts <- MCOneHost
  Requests = {q1}
  Origins = {n1}
  NoNode = NoNode
  NoConn = NoConn
  MaxEntries = 1
INVARIANTS RejectionForgetsRoute
