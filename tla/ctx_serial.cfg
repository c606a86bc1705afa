CONSTANTS
  p1 = p1
  p2 = p2
  p3 = p3
  Proc = {p1}
  Name = {"", "a", "b"}
  NoName = ""
  Default = "pulsar://localhost:6650"
  MayCrash = FALSE
SPECIFICATION FairSpec
INVARIANTS ReadableBetweenCommands
PROPERTIES AtomicStore UsesContext CommandsFinish
CHECK_DEADLOCK FALSE
