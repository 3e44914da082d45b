SPECIFICATION FairSpec
CONSTANTS
  c1 = c1
  c2 = c2
  p1 = p1
  p2 = p2
  Nobody = Nobody
  NoPod = NoPod
  NoName = NoName
  Collectors = {c1}
  Pods = {p1}
  Images = {"scan"}
  Watched <- SharedPods
  Contents <- OneImage
  Class <- ByName
  Mirrors <- Unmirrored
  Filed <- Literal
  AgentKnowsCaller = TRUE
  LapseMode = "unused"
  MaxFaults = 0
  MaxEvents = 0
  MaxRotations = 1
  MaxExtra = 0
PROPERTY SubmissionEnds
CHECK_DEADLOCK FALSE
