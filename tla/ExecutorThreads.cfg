\* ExecutorThreads: two threads of one process, one of them declaring attempts lost
SPECIFICATION Spec
CONSTANTS
  a1 = a1
  a2 = a2
  t1 = t1
  w1 = w1
  w2 = w2
  p1 = p1
  v0 = v0
  v1 = v1
  v2 = v2
  any = any
  Admissions <- OneAdmission
  Targets <- OneTarget
  TargetOf <- AllOnT1
  ArtifactOf <- OwnArtifact
  SeedArtifact = v0
  AnyVersion = any
  PreconditionOf <- NoPrecondition
  Processes <- OneProcess
  Workers <- TwoWorkers
  ProcessOf <- Together
  Declarers <- JustW2
  Expiring <- OneAdmission
  MaxFaults = 0
INVARIANTS
  ActiveIsExact
CHECK_DEADLOCK FALSE
