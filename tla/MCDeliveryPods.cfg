SPECIFICATION Spec
CONSTANTS
  c1 = c1
  c2 = c2
  p1 = p1
  p2 = p2
  Nobody = Nobody
  NoPod = NoPod
  NoName = NoName
  Collectors = {c1}
  Pods = {p1, p2}
  Images = {"scan", "mirror", "noDigest", "noPull", "excluded", "unlisted"}
  Watched <- SharedPods
  Contents <- Changing
  Class <- ByName
  Mirrors <- ScanMirrored
  Filed <- Literal
  AgentKnowsCaller = FALSE
  LapseMode = "anytime"
  MaxFaults = 1
  MaxEvents = 2
  MaxRotations = 1
  MaxExtra = 0
INVARIANTS
  ProcessedWasDelivered
  SleepMeansDone
PROPERTIES
  
  ImplementsQueue
CHECK_DEADLOCK FALSE
