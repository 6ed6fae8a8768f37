SPECIFICATION Spec
CONSTANTS
  k1 = k1
  k2 = k2
  k3 = k3
  s1 = s1
  s2 = s2
  s3 = s3
  None = None
  Loose = Loose
  Junk = Junk
  Experts <- ThreeExperts
  Slots <- TwoSlots
  CallbackLag = TRUE
  SoftOnSlab = FALSE
  ReadsFail = FALSE
  BigPrefill = FALSE
  PredictInstall = FALSE
  Staging = 1
  SpecCap = 2
  DecodeBudget = 2
  PrefillBudget = 1
  Reserve = 0
  MinSlots = 2
  MaxWant = 2
INVARIANT ResidentIntact
