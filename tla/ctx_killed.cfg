CONSTANTS
  p1 = p1
  p2 = p2
  p3 = p3
  Proc = {p1}
  Name = {"", "a", "b"}
  NoName = ""
  Default = "pulsar://localhost:6650"
  MayCrash = TRUE
SPECIFICATION Spec
INVARIANTS SerialInv
PROPERTIES AtomicStore
CHECK_DEADLOCK FALSE
