SPECIFICATION MCSpec
CONSTANTS
  Reqs = {c1}
  Users = {u1, u2, u3}
  u1 = u1
  u2 = u2
  None = None
  Faults <- AllFaults
  MaxFaults = 2
INVARIANTS ToldInOrder LoggedOnce StoredFirst
PROPERTY EverythingSettles
