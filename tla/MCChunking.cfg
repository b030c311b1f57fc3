\* Every cleaned text of up to seven characters, chunks of one to six and
\* overlaps from none to more than is allowed.
SPECIFICATION Spec
CONSTANTS
  MaxLen = 7
  Texts <- ShortTexts
  ChunkSizes = {1, 2, 3, 5, 6}
  Overlaps = {0, 1, 2, 9}
INVARIANTS
  PassagesWhole
PROPERTIES
  Terminates
