\* Two requests at a time, with the same body or with two.
SPECIFICATION FairSpec
CONSTANTS
  Workers = {w1, w2}
  Bodies = {b1, b2}
  MaxEffects = 3
  Idle = Idle
  NULL = NULL
INVARIANTS
  AtMostOnce
  SuccessIsReal
PROPERTIES
  KeyRecovers
