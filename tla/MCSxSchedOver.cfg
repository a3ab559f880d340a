SPECIFICATION Spec
CONSTANTS
  idle = idle
  a = a
  b = b
  c = c
  d = d
  Task <- MCTask
  Prio <- MCPrio
  NoTask = NoTask
  IdleTask = idle
  MaxDisable = 3
  WakeOverSuspended = TRUE
PROPERTY WakeUpLinksOrActivates
