CONSTANTS
  m1 = m1
  m2 = m2
  r1 = r1
  r2 = r2
  Mgr = {m1}
  Req = {r1, r2}
  Owner <- OneManager
  MaxCopies = 1
  Faults = {"send"}
SPECIFICATION FairSpec
PROPERTIES EveryCallEnds
CHECK_DEADLOCK FALSE
