SPECIFICATION CosSpec
CONSTANTS
  idle = idle
  ta = ta
  tb = tb
  tc = tc
  sem = sem
  mtx = mtx
  x = x
  y = y
  e1 = e1
  e2 = e2
  Task <- MCTask
  Prio <- MCPrio
  NoTask = NoTask
  IdleTask = idle
  Sema = {sem}
  Mutex = {mtx}
  Box = {x}
  NoBox = NoBox
  TEnv = {e1, e2}
  NoEnv = NoEnv
  MaxCount = 2
  MaxDepth = 2
  MaxDisable = 1
  WakeOverSuspended = FALSE
INVARIANTS
  CosTypeOK
  LinksMatchStates
  NoSleeperBesideFree
  MutexExcludes
  TimedWaitHasTimer
  SemaTimersHaveCalls
PROPERTIES
  NoOvertaking
  KernelSpec
CHECK_DEADLOCK FALSE
SYMMETRY Symmetry
