CONSTANTS
  CONNS <- MCConns
  LENGTHS <- MCLengths
  GAINS <- MCGains
  RATES <- MCRates
  MODES <- MCModes
  SAVED <- MCSaved
SPECIFICATION Spec
INVARIANT ModeRestored
