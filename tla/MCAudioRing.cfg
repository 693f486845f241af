CONSTANTS
  OUT_BUFFER_SIZE = 8
  FILL = 3
  PLAY_MARK = 4
  FRAMES <- MCFrames
  MAX_WRITTEN = 12
SPECIFICATION Spec
INVARIANTS TypeOK RingHoldsBacklog
PROPERTIES FillInOrder SpoiledOnlyByWrapOrLap EverySampleHeard
