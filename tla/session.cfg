SPECIFICATION FairSpec
CONSTANTS
  Services = {web}
  PortZero = zero
  Sessions = {s1}
  Putters = {k1}
  None = none
  NoRow = norow
  MaxInputs = 3
  Faults = {"dbError", "lostReply"}
INVARIANTS TypeOK BelievesServices  NoLostUpdate
PROPERTIES ExitOnce Answered 
