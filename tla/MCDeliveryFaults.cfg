SPECIFICATION Spec
CONSTANTS
  c1 = c1
  c2 = c2
  p1 = p1
  p2 = p2
  Nobody = Nobody
  NoPod = NoPod
  NoName = NoName
  Collectors = {c1, c2}
  Pods = {p1, p2}
  Images = {"scan", "scan2", "mirror"}
  Watched <- OwnPods
  Contents <- TwoImages
  Class <- ByName
  Mirrors <- Scan2Mirrored
  Filed <- Own
  AgentKnowsCaller = TRUE
  LapseMode = "unused"
  MaxFaults = 2
  MaxEvents = 0
  MaxRotations = 0
  MaxExtra = 3
INVARIANTS
  TypeOK
  OneWorkerPerImage
  OneExtraPerLostAnswer
PROPERTY ImplementsLedger
SYMMETRY Swapping
CHECK_DEADLOCK FALSE
