\* ExecutorProcesses: two executor processes and one fault of any kind
SPECIFICATION Spec
CONSTANTS
  a1 = a1
  a2 = a2
  t1 = t1
  w1 = w1
  w2 = w2
  p1 = p1
  v0 = v0
  v1 = v1
  v2 = v2
  any = any
  Admissions <- OneAdmission
  Targets <- OneTarget
  TargetOf <- AllOnT1
  ArtifactOf <- OwnArtifact
  SeedArtifact = v0
  AnyVersion = any
  PreconditionOf <- NoPrecondition
  Processes <- TwoWorkers
  Workers <- TwoWorkers
  ProcessOf <- Itself
  Declarers <- NoAdmission
  Expiring <- NoAdmission
  MaxFaults = 1
SYMMETRY WorkerSymmetry
INVARIANTS
  AtMostOneCall
  NoCommitIsFinal
  CommittedIsApplied
  LedgerVerifies
  LedgerIsHonest
PROPERTIES
  TriggersAccept
  ImplementsPromise
CHECK_DEADLOCK FALSE
