CONSTANTS
  CONNS <- MCConns
  LENGTHS <- MCLengths
  GAINS <- MCGains
  RATES <- MCRates
  MODES <- MCModes
  SAVED <- MCSaved
SPECIFICATION Spec
INVARIANTS TypeOK FirstHalfTaken Restored
