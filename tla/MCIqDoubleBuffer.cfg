CONSTANTS
  WORDS = 5
  SPEED = 2
  HALVES = 6
SPECIFICATION Spec
INVARIANTS TypeOK WholeUnlessLate OneSeam
PROPERTIES GaplessUnlessLate
