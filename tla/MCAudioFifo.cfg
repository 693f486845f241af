CONSTANTS
  HALF = 4
  LATEST <- MCLatest
  TAGS = 17
SPECIFICATION Spec
INVARIANTS TypeOK
PROPERTIES PlayedWholeInOrder EventuallySound
