SPECIFICATION Spec
CONSTANTS
  t1 = t1
  t2 = t2
  Tokens <- TwoTokens
  Confs <- FlakyConfs
  Reply = 1
  Drift = 1
  Chunk = 1
  MinSnapshot = 1
  MinGain = 1
  Fp16Ctx = 3
  LookupTokens = 1
  StoreBudget = 8
SYMMETRY Symmetry
INVARIANT HandoffWholeEver
