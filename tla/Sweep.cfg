\* Sweep: three admissions, pages of two, one restart, a fair caller
SPECIFICATION FairSpec
CONSTANTS
  a1 = a1
  a2 = a2
  a3 = a3
  Admissions <- ThreeAdmissions
  Limit = 2
  MaxRestarts = 1
PROPERTIES
  SweepIsComplete
  SweepIsBounded
  EveryUnresolvedIsListed
