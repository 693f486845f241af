CONSTANTS
  N_SAMPLES = 4
  BATCHES <- MCBatches
  CHANNELS = 3
  FOUND = 3
  HOP = 2
  IN_SYNC = 4
  SYNC_FOUND = 5
  CALL_ENDS = 1
  RESET_TICKS = 2
SPECIFICATION ScannerSpec
INVARIANT ScannerTypeOK
PROPERTIES CallKeepsChannel ParkedOnlyByReset HopsInSilence
