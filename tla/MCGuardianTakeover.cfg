SPECIFICATION Spec
CONSTANTS
  s1 = s1
  s2 = s2
  NONE = NONE
  Sessions = {s1, s2}
  Configs <- OneConfig
  Timeout = 1
  Quiet = 3
  Budget = 1
  LiveMaxAge = 1
  MaxAttempts = 2
  ReqSkew = 0
  ReqAge = 0
  Hour = 3
  MaxOffset = 0
  Delay = 1
  MaxTime = 4
  MaxSeq = 2
  MaxEpoch = 2
SYMMETRY Symmetry
INVARIANTS OneWriter CommitteeChain
CHECK_DEADLOCK FALSE
