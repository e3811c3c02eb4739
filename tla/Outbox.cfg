\* Outbox: two publishers, one pointer, a one-tick duplicate window
SPECIFICATION FairSpec
CONSTANTS
  p1 = p1
  p2 = p2
  m1 = m1
  Publishers <- TwoPublishers
  Messages <- OneMessage
  PublishTimeout = 1
  ClaimStale = 2
  DuplicateWindow = 1
  MaxAge = 3
  PointerTTL = 3
  MaxMsgs = 2
  WriteStall = 0
  ReplyStall = 0
  MaxTime = 3
  MaxCrashes = 1
  ForgedUpTo = 2
INVARIANTS
  AtMostOneCopy
  RefusedIsAbsent
PROPERTIES
  OutcomesAreFinal
  KeepsPromise
  AmbiguousIsAnswered
CHECK_DEADLOCK FALSE
