SPECIFICATION MCSpec
CONSTANTS
  t1 = t1
  t2 = t2
  n1 = n1
  NoTask = NoTask
  NoData = NoData
  Tasks = {t1, t2}
  Notes = {n1}
  MaxCalls = 2
  MaxEvents = 4
INVARIANTS  ForeignOnlyWhileAwaited
PROPERTIES  Settles
