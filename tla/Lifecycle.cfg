SPECIFICATION Spec
CONSTANTS
  a1 = a1
  t1 = t1
  rights = rights
  delegation = delegation
  decision = decision
  manager = manager
  Actors = {a1}
  Tasks = {t1}
  Parents = {rights, delegation, decision}
  Bindings = {b1, b2}
  Sessions = {s1, s2}
  Owners = {o1}
  Line <- MCLine
  ManagerOf <- MCManagerOf
  DecidedTask <- MCDecidedTask
  BindingTask <- MCBindingTask
  ActorOf <- MCActorOf
  Nobody = Nobody
  None = None
  MaxFaults = 1
INVARIANTS
  WorkDoneOnce
  NoWaitCycle
PROPERTIES
  AuthorityAtCommit
  KeepsPromise
SYMMETRY Symmetry
CHECK_DEADLOCK FALSE
