SPECIFICATION FairSpec
CONSTANTS
  t1 = t1
  t2 = t2
  s1 = s1
  s2 = s2
  k1 = k1
  k2 = k2
  Tasks = {t1}
  Scans = {s1}
  Workers = {k1, k2}
  Milestones <- MCMilestones
  Versions <- WorkVersions
  First <- OneTask
  Faults <- AllFaults
  MaxNow = 3
  MaxReminders = 1
  MaxEdits = 1
  MaxCrashes = 2
INVARIANTS DeliveryBounded 
 
