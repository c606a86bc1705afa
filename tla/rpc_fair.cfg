CONSTANTS
  m1 = m1
  m2 = m2
  r1 = r1
  r2 = r2
  Mgr = {m1, m2}
  Req = {r1, r2}
  Owner <- TwoManagers
  MaxCopies = 1
  Faults = {"lose", "cancel"}
SPECIFICATION FairSpec
INVARIANTS AnsweredIsAcked
PROPERTIES NoAnswerDropped FairPromise EveryCallEnds Drains
CHECK_DEADLOCK FALSE
