SPECIFICATION MCSpec
CONSTANTS
  t1 = t1
  u1 = u1
  Users = {u1, u2}
  Tabs = {t1, t2}
  MaxReqs = 2
  None = None
  MaxTokens = 3
  MaxFaults = 1
INVARIANTS AlarmExplained IdentityKept PairKept
PROPERTY NobodyWaits
