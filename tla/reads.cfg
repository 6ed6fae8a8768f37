SPECIFICATION FairSpec
CONSTANTS
  r1 = r1
  r2 = r2
  w1 = w1
  w2 = w2
  MLX = MLX
  Nobody = Nobody
  Reads <- TwoReads
  Guesses <- OneGuess
  Parts <- ThreeParts
  Workers <- TwoWorkers
  Builds <- BothPools
  PartsFail = TRUE
  PushesFail = TRUE
  Slices <- ThreeParts
  Inline <- Second
  Readers = 2
  Slicers = 1
  SlicesFail = TRUE
INVARIANT NobodyWrites
INVARIANT ResultIsWhole
PROPERTY ResolvedOnce
PROPERTY ReadsResolve
PROPERTY DrainEnds
