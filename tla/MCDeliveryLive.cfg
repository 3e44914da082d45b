SPECIFICATION FairSpec
CONSTANTS
  c1 = c1
  c2 = c2
  p1 = p1
  p2 = p2
  Nobody = Nobody
  NoPod = NoPod
  NoName = NoName
  Collectors = {c1, c2}
  Pods = {p1}
  Images = {"scan", "scan2", "mirror", "badMirror"}
  Watched <- SharedPods
  Contents <- LiveKinds
  Class <- ByName
  Mirrors <- Scan2Mirrored
  Filed <- Literal
  AgentKnowsCaller = FALSE
  LapseMode = "unused"
  MaxFaults = 1
  MaxEvents = 0
  MaxRotations = 0
  MaxExtra = 0
INVARIANT ReservationsAreUsed
PROPERTIES
  NearerToIdle
  EventuallyProcessed
CHECK_DEADLOCK FALSE
