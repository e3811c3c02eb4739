\* ExecutorRecovery: faults against one batch, or two batches on one target; fair recovery
SPECIFICATION RecoverySpec
CONSTANTS
  a1 = a1
  a2 = a2
  t1 = t1
  w1 = w1
  w2 = w2
  p1 = p1
  v0 = v0
  v1 = v1
  v2 = v2
  any = any
  Admissions <- TwoAdmissions
  Targets <- OneTarget
  TargetOf <- AllOnT1
  ArtifactOf <- OwnArtifact
  SeedArtifact = v0
  AnyVersion = any
  PreconditionOf <- NoPrecondition
  Processes <- OneProcess
  Workers <- OneWorker
  ProcessOf <- Together
  Declarers <- OneWorker
  Expiring <- NoAdmission
  MaxFaults = 2
PROPERTIES
  InFlightIsLeft
  SettledIsClosed
  AppliedIsReported
CHECK_DEADLOCK FALSE
