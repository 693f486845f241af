CONSTANTS
  CAP = 6
  CHUNKS <- MCChunks
  DATAGRAMS <- MCDatagrams
  MAX_MADE = 11
SPECIFICATION Spec
INVARIANTS TypeOK NothingStale
PROPERTIES BatchIsWhatWasStored Drains
