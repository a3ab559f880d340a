SPECIFICATION FairSpec
CONSTANTS
  t1 = t1
  t2 = t2
  i1 = i1
  x = x
  y = y
  e1 = e1
  e2 = e2
  e3 = e3
  Timer = {t1, i1}
  TId <- MCTId
  TMbx <- MCTMbx
  IsrTimer = {i1}
  Mbx = {x}
  Env = {e1, e2}
  MaxPeriod = 3
  MaxPer = 2
  UpWrap = 5
  MaxEvents = 0
  Duplicates = FALSE
PROPERTY GoesOff
CHECK_DEADLOCK FALSE
