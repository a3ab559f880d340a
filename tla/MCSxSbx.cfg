SPECIFICATION FairBoxSpec
CONSTANTS
  idle = idle
  a = a
  b = b
  c = c
  x = x
  y = y
  m = m
  n = n
  e1 = e1
  e2 = e2
  e3 = e3
  Task <- MCTask
  Prio <- MCPrio
  NoTask = NoTask
  IdleTask = idle
  Box = {x, y}
  NoBox = NoBox
  Msg = {m, n}
  Env = {e1, e2}
  MaxDisable = 1
  WakeOverSuspended = FALSE
  StopAnyWaiter = FALSE
INVARIANTS
  BoxTypeOK
  EnvelopeInOnePlace
  QueuesMatchStates
  NoSleeperBesideMessage
  FreeBoxesAreClean
  OnlyExhaustionStops
PROPERTIES
  KernelSpec
  UrgentTakerServed
CHECK_DEADLOCK FALSE
