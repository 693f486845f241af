CONSTANTS
  CAP = 6
  CHUNKS <- MCChunks
  DATAGRAMS <- MCDatagrams
  MAX_MADE = 11
SPECIFICATION Spec
INVARIANT EchoIsProduct
