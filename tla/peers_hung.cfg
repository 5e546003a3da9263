SPECIFICATION FairSpec
CONSTANTS
  Remotes = {r1}
  Dials = {d1}
  None = None
  Events = {"hang"}
PROPERTIES HeartbeatGoesOn
