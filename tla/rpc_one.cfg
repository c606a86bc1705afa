CONSTANTS
  m1 = m1
  m2 = m2
  r1 = r1
  r2 = r2
  Mgr = {m1}
  Req = {r1, r2}
  Owner <- OneManager
  MaxCopies = 1
  Faults = {"send", "ack", "receive", "reconnect", "close", "cancel"}
SPECIFICATION Spec
SYMMETRY Symmetry
INVARIANTS IInv PendingExact OwnAnswer BlockedOnlyBySend
PROPERTIES CompletedOnce Promise
CHECK_DEADLOCK FALSE
