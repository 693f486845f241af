CONSTANTS
  OUT_BUFFER_SIZE = 4
  PLAY_MARK = 2
  FRAMES <- MCFrames
  MAX_WRITTEN = 6
  HALF = 3
  LATEST = 1
  TAGS = 18
SPECIFICATION Spec
PROPERTY ImplementsChannel
