SPECIFICATION Spec
CONSTANTS
  p1 = p1
  Pods = {p1}
  RunAsDaemon = TRUE
  NodeName = "here"
  IncludePatterns = {}
  ExcludePatterns = {"s*"}
  Unparsable = {}
  Matches <- NamespaceMatches
  Shapes <- FewShapes
  Newborn <- FewNewborn
  MaxChanges = 3
  MaxGaps = 1
  MaxRestarts = 0
INVARIANT CreatesAreTransient
CHECK_DEADLOCK FALSE
