SPECIFICATION Spec
CONSTANTS
  t1 = t1
  t2 = t2
  i1 = i1
  x = x
  y = y
  e1 = e1
  e2 = e2
  e3 = e3
  Timer = {t1}
  TId <- MCTId
  TMbx <- MCTMbx
  IsrTimer = {}
  Mbx = {x}
  Env = {e1, e2, e3}
  MaxPeriod = 3
  MaxPer = 2
  UpWrap = 5
  MaxEvents = 0
  Duplicates = TRUE
PROPERTY StopAllStopsAll
CHECK_DEADLOCK FALSE
