SPECIFICATION Spec
CONSTANTS
  s1 = s1
  s2 = s2
  NONE = NONE
  Sessions = {s1, s2}
  Configs <- TwoConfigs
  Timeout = 1
  Quiet = 3
  Budget = 1
  LiveMaxAge = 1
  MaxAttempts = 1
  ReqSkew = 0
  ReqAge = 1
  Hour = 3
  MaxOffset = 1
  Delay = 0
  MaxTime = 4
  MaxSeq = 2
  MaxEpoch = 0
SYMMETRY Symmetry
INVARIANTS LimiterChain SignaturesCounted
CHECK_DEADLOCK FALSE
