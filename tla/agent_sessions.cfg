CONSTANTS
  m1 = m1
  m2 = m2
  m3 = m3
  u1 = u1
  u2 = u2
  o1 = o1
  o2 = o2
  t1 = t1
  t2 = t2
  Msg = {m1, m2, m3}
  User = {u1, u2}
  UserOf <- Users
  Output = {o1, o2}
  Text = {t1, t2}
  Repair <- Repairs
  Json = {o1, o2, empty}
  empty = empty
  PostProcess = TRUE
  Script <- Scripts
SPECIFICATION Spec
SYMMETRY Symmetry
INVARIANTS IInv MapExact ResourcesReleased
PROPERTIES PrivateSessions
CHECK_DEADLOCK FALSE
