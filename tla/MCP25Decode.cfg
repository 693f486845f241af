CONSTANTS
  BREAKS <- MCBreaks
  MISREADS = 1
SPECIFICATION Spec
INVARIANTS TypeOK GivesUp
PROPERTIES DibitsInPlace EncryptedStaysMuted
