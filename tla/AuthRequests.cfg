SPECIFICATION MCSpec
CONSTANTS
  Reqs = {p1, p2}
  None = None
  Names = {1, 2}
  Passwords = {1}
  Life = 2
  MaxSessions = 2
  MaxNow = 2
  Faults <- AllFaults
INVARIANT AlarmExplained
PROPERTIES CleanSaveIsAtomic RevocationHolds VerificationHolds
SYMMETRY AnyOrder
