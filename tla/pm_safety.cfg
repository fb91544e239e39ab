SPECIFICATION MirrorSpec
CONSTANTS
  Values = {v1, v2}
  None = None
  MaxWrites = 1
  MaxAccess = 2
  MaxMirror = 3
SYMMETRY ValuesSymmetry
CHECK_DEADLOCK FALSE
INVARIANTS MirrorFollows NoProxyLeft AnswersFresh
