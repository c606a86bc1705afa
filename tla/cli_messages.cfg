CONSTANTS
  c1 = c1
  c2 = c2
  p1 = p1
  r1 = r1
  None = None
  Caller = {c1, c2}
  Producer = {p1}
  Reader = {r1}
  Requesting = {p1}
  Num = 1
  MaxAnswers = 1
SPECIFICATION FairSpec
INVARIANTS IInv OwnAnswer SubscribedBeforeSent PrivateTopic
PROPERTIES EveryCommandEnds
CHECK_DEADLOCK FALSE
