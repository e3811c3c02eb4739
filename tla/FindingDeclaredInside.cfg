\* FindingDeclaredInside: an attempt declared lost inside its own process's call
SPECIFICATION Spec
CONSTANTS
  a1 = a1
  a2 = a2
  t1 = t1
  w1 = w1
  w2 = w2
  p1 = p1
  v0 = v0
  v1 = v1
  v2 = v2
  any = any
  Admissions <- OneAdmission
  Targets <- OneTarget
  TargetOf <- AllOnT1
  ArtifactOf <- OwnArtifact
  SeedArtifact = v0
  AnyVersion = any
  PreconditionOf <- NoPrecondition
  Processes <- OneProcess
  Workers <- TwoWorkers
  ProcessOf <- Together
  Declarers <- JustW2
  Expiring <- NoAdmission
  MaxFaults = 0
PROPERTY NeverDeclaredLostInside
CHECK_DEADLOCK FALSE
