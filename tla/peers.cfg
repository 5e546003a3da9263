SPECIFICATION FairSpec
CONSTANTS
  Remotes = {r1}
  Dials = {d1, d2}
  None = None
  Events = {"hang", "shutdown"}
INVARIANTS TypeOK PeerOwned  ClientsWatched
PROPERTIES SuccessorKept AddNeverRacesWait CloseReturns DeadPeerWithdrawn
