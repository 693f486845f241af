CONSTANTS
  BREAKS <- MCBreaks
  MISREADS = 1
SPECIFICATION Spec
PROPERTY LinkControlComplete
