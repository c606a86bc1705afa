CONSTANTS
  p1 = p1
  p2 = p2
  p3 = p3
  Proc = {p1, p2}
  Name = {"", "a", "b"}
  NoName = ""
  Default = "pulsar://localhost:6650"
  MayCrash = TRUE
SPECIFICATION Spec
SYMMETRY Symmetry
INVARIANTS IInv
PROPERTIES OnlyRacesLose
CHECK_DEADLOCK FALSE
