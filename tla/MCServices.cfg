CONSTANTS
  CONNS <- MCConns
  NET = 2
  DUMP = 2
  BITS <- MCBits
  SIZE = 2
  Default <- MCDefault
  MAX = 2
  LENGTHS <- MCLengths
  ETH_TX_DESC_CNT = 2
  FRAMES = {f1, f2, f3, f4, f5, f6}
  NOFRAME = NOFRAME
  CLIENTS <- MCClients
  REVERSE <- MCReverse
  FAULTS = 1
  NOBODY = NOBODY
SPECIFICATION Spec
INVARIANTS ServicesTypeOK
INVARIANTS KeptForItsReader Understood
PROPERTIES ImplementsStore ReadInTurn
INVARIANTS ReadBack InTurn
PROPERTIES RefusedWhenFull GoesOnWhileCalm
INVARIANTS ToldInOrder
PROPERTIES DumpEnds Served
\* The decoder of the image ends, and all iperf clients may be done.
CHECK_DEADLOCK FALSE
