SPECIFICATION Spec
CONSTANTS
  Nodes = {n1, n2}
  Users = {u1}
  Logins = {l1, l2}
  NoNode = NoNode
  NoUser = NoUser
  Events = {"crash", "restart", "abandon", "lateRecord", "dbError", "clearError", "lostReply", "stall", "shutdown", "operator"}
SYMMETRY NodeSymmetry
INVARIANTS TypeOK NoOrphanedClaim
PROPERTIES ClaimKept DisabledGainsNothing RevocationHolds
