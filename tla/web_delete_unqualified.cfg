CONSTANTS
  t1 = t1
  t2 = t2
  f1 = f1
  f2 = f2
  a1 = a1
  Tab = {t1}
  Agent = {a1}
  Function = {f1}
  Package = {p1, p2}
  p1 = p1
  p2 = p2
  Kubectl = TRUE
  MaxRev = 3
SPECIFICATION Spec
PROPERTIES CheckSeesUsers
CHECK_DEADLOCK FALSE
