SPECIFICATION FairSpec
CONSTANTS
  Reqs = {p1, p2}
  t1 = t1
  t2 = t2
  w1 = w1
  w2 = w2
  u1 = u1
  u2 = u2
  a = a
  b = b
  Undef = Undef
  Null = Null
  Past = Past
  Tasks <- MCTasks
  Workspaces <- MCWorkspaces
  Users <- MCUsers
  Contents <- MCContents
  Calls <- MixedCalls
  Seed <- OneTask
  Serial = FALSE
  Faults <- AllFaults
INVARIANTS EntryFresh ListFresh TenantOnly ReplyTellsOutcome
PROPERTIES CleanUpdateIsAtomic  CachesHeal
