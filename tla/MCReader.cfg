SPECIFICATION ReadSpec
CONSTANTS
  Ranges <- MCRanges
  Writers = {w1, w2}
  w1 = w1
  w2 = w2
  Readers = {r1}
  r1 = r1
  None = None
  Budget = 1
SYMMETRY Symmetry
INVARIANTS
  AnswersAreWhole
PROPERTIES
  CoverageKept
