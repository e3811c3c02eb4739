\* FindingSecondCopy: the broker's last answer may take two ticks to arrive
SPECIFICATION Spec
CONSTANTS
  p1 = p1
  p2 = p2
  m1 = m1
  Publishers <- TwoPublishers
  Messages <- OneMessage
  PublishTimeout = 1
  ClaimStale = 3
  DuplicateWindow = 1
  MaxAge = 4
  PointerTTL = 4
  MaxMsgs = 2
  WriteStall = 0
  ReplyStall = 2
  MaxTime = 5
  MaxCrashes = 0
  ForgedUpTo = 0
INVARIANTS
  AtMostOneCopy
CHECK_DEADLOCK FALSE
