SPECIFICATION Spec
CONSTANTS
  k1 = k1
  k2 = k2
  k3 = k3
  s1 = s1
  s2 = s2
  s3 = s3
  None = None
  Loose = Loose
  Junk = Junk
  Experts <- ThreeExperts
  Slots <- ThreeSlots
  CallbackLag = FALSE
  SoftOnSlab = FALSE
  ReadsFail = TRUE
  BigPrefill = TRUE
  PredictInstall = TRUE
  Staging = 1
  SpecCap = 2
  DecodeBudget = 2
  PrefillBudget = 1
  Reserve = 1
  MinSlots = 2
  MaxWant = 2
SYMMETRY Symmetry
INVARIANT TypeOK
INVARIANT NoSharedSlot
INVARIANT ResidentIntact
INVARIANT ComputeIntact
INVARIANT NoWriteAfterFree
PROPERTY ImplementsSlotStore
