SPECIFICATION FlowFairSpec
CONSTANTS
  k1 = k1
  k2 = k2
  k3 = k3
  s1 = s1
  s2 = s2
  s3 = s3
  None = None
  Loose = Loose
  Junk = Junk
  Experts <- TwoExperts
  Slots <- TwoSlots
  CallbackLag = FALSE
  SoftOnSlab = TRUE
  ReadsFail = TRUE
  BigPrefill = TRUE
  PredictInstall = FALSE
  Staging = 2
  SpecCap = 2
  DecodeBudget = 1
  PrefillBudget = 1
  Reserve = 1
  MinSlots = 1
  MaxWant = 2
  LayerOf <- TwoLayers
  Last = 2
  Warmup = 1
INVARIANT ComputeIntact
INVARIANT TableNamesResidents
INVARIANT NothingHeldInWarmup
PROPERTY TokenEnds
PROPERTY FetchReturns
