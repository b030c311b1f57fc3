\* Where two publishes overlap.
SPECIFICATION Spec
CONSTANTS
  Creators = {c1, c2}
  Publishers = {p1, p2}
  Triggers = {}
  None = None
  MaxVersion = 2
INVARIANT
  AtMostOnePublished
