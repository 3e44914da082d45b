SPECIFICATION FairSpec
CONSTANTS
  p1 = p1
  Pods = {p1}
  RunAsDaemon = TRUE
  NodeName = "here"
  IncludePatterns = {}
  ExcludePatterns = {"s*"}
  Unparsable = {}
  Matches <- NamespaceMatches
  Shapes <- AllShapes
  Newborn <- AllNewborn
  MaxChanges = 3
  MaxGaps = 1
  MaxRestarts = 1
INVARIANTS
  TypeOK
  NoLostWakeup
  OnlyRelistsHide
PROPERTIES
  OnlyOwnExamined
  EventuallyExamined
  ImplementsQueue
CHECK_DEADLOCK FALSE
