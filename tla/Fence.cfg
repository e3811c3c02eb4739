\* Fence: three stores in two scopes race for one key while the owner mutates
SPECIFICATION Spec
CONSTANTS
  q1 = q1
  q2 = q2
  q3 = q3
  scopeA = scopeA
  scopeB = scopeB
  s1 = s1
  s2 = s2
  key = key
  d1 = d1
  ap1 = ap1
  o1 = o1
  o2 = o2
  Requesters <- ThreeRequesters
  ScopeOf <- AAndB
  Specs <- TwoSpecs
  KeyOf <- SameKey
  DelegationOf <- OfD1
  RevisionOf <- FirstAndAmended
  GenerationOf <- FirstAndAmended
  ApprovalOf <- OfAp1
  Delegations <- OneDelegation
  Approvals <- OneApproval
  Sessions <- OneSession
  Generations = {1, 2}
  MaxTicks = 1
INVARIANTS
  OneAdmissionPerKey
  AnswersAreTrue
PROPERTY FenceIsCurrent
