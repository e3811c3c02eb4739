\* Sensing: six worlds of two or three frames, two threads on each side
SPECIFICATION FairSpec
CONSTANTS
  e1 = e1
  e2 = e2
  e3 = e3
  r1 = r1
  s1 = s1
  s2 = s2
  s3 = s3
  p1 = p1
  p2 = p2
  p3 = p3
  p4 = p4
  w1 = w1
  w2 = w2
  t1 = t1
  t2 = t2
  Events <- MCEvents
  Refs <- MCRefs
  Scopes <- MCScopes
  Prints <- MCPrints
  Frames <- MCFrames
  NoFrame = NoFrame
  NoEvent = NoEvent
  MaxConflicts = 1
  Worlds <- MCWorlds
  Own <- JustAgain
  MaxSeq = 2
  MaxFaults = 1
  MaxCrashes = 1
  Senders <- TwoThreads
  Workers <- TwoWorkers
INVARIANTS
  ReadOnce
  ScopeReadOnce
  GenuineIsNotStale
  ToldOnce
PROPERTIES
  VerdictIsRemembered
  ClaimsAreClosed
  KeepsPromise
CHECK_DEADLOCK FALSE
