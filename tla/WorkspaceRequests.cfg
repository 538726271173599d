SPECIFICATION MCSpec
CONSTANTS
  Reqs = {p1, p2}
  Users = {u1, u2}
  Ids = {w1, w2}
  Slugs = {s1}
  Projects = {x1, x2}
  None = None
  Free = Free
  Gone = Gone
  w1 = w1
  s1 = s1
  u1 = u1
  x1 = x1
  Faults <- AllFaults
INVARIANTS AdminPresent  KeysExplained AnswersTell
PROPERTIES RolesHold WritesPermitted RemovalsHold
SYMMETRY AnyOrder
