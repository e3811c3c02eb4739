SPECIFICATION FairSpec
CONSTANTS
  Contexts = {root, a, b}
  Root = root
  NoContext = none
  Workers = {w1, w2}
  Sessions = {s1, s2}
  Requests = {q1, q2, q3, q4}
  Keys = {k1, k2}
  Ids = {i1, i2}
  Principals = {me}
  PrincipalOf <- MCPrincipalOf
  SessionOf <- MCSessionOf
  KeyOf <- MCKeyOf
  IdOf <- MCIdOf
  Directives <- MCDirectives
  NoDirective = noDirective
  None = nobody
  Keep = keep
  ProjectRow = projectRow
  s1 = s1
  s2 = s2
  q1 = q1
  q2 = q2
  q3 = q3
  q4 = q4
  root = root
  a = a
  b = b
  k1 = k1
  k2 = k2
  i1 = i1
  i2 = i2
  me = me
INVARIANTS HistoryIsLinear AnswersAreDurable NoBranchIsLost
PROPERTIES FocusIsNotEndedByPeer OpenEventsSurvive ServesPromise CallsEnd
