SPECIFICATION FairSpec
CONSTANTS
  Window = 2
  MinTokens = 4
  MaxProbe = 2
  Hold = 1
  Positions = 2
  Unit = 4
  Failures = 1
INVARIANT SameMix
INVARIANT CreditHonest
PROPERTY ProbeEnds
CHECK_DEADLOCK FALSE
