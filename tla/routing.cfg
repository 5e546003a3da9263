SPECIFICATION FairSpec
CONSTANTS
  Nodes = {n1, n2, n3}
  Conns = {c1}
  Users <- MCUsers
  Services <- MCOneService
  Hosts <- MCOneHost
  Requests = {q1}
  Origins = {n1}
  NoNode = NoNode
  NoConn = NoConn
  MaxEntries = 1
INVARIANTS TypeOK OpenedForOwner RoutesBounded
PROPERTIES RequestAdvances  RoutesHeal
