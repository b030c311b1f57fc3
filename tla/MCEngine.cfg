\* Workflows of up to four nodes, of which three may be executed.
SPECIFICATION FairSpec
CONSTANTS
  s = s
  c = c
  x = x
  y = y
  ghost = ghost
  None = None
  Null = Null
  Ids = {s, c, x, y, ghost}
  MaxNodes = 3
  Drawings <- SmallDrawings
  Definitions <- SmallDefinitions
INVARIANTS
  SuccessAtEnd
  RefusedForCause
PROPERTIES
  ImplementsWalk
  Returns
