CONSTANTS
  r1 = r1
  j1 = j1
  p1 = p1
  p2 = p2
  m1 = m1
  m2 = m2
  k1 = k1
  Resource = {r1}
  Slot = {j1}
  Package = {p1, p2}
  Module = {m1, m2}
  Item = {k1}
SPECIFICATION TabAndForm
INVARIANTS IInv RefreshedAfterSuccess DroppedTextStaysOut SubmissionConsistent
PROPERTIES NoticesTruthful
CHECK_DEADLOCK FALSE
