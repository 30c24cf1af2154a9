\* Two tabs of one user, two tasks each, one access that raises.
CONSTANTS
  s1 = s1
  s2 = s2
  Sessions = {s1, s2}
  Users = {"ann"}
  UserOf <- OneUser
  Results <- DashboardResults
  EvidenceGoal = 6
  Window = 3
  MaxTasks = 2
  MaxMishaps = 1
  NotYet = NotYet
SYMMETRY Tabs
SPECIFICATION Spec
INVARIANTS TypeOK StatsAreSums UnlockedIsEarned ReturnedTaskLeavesNone AnnouncedOnce CountedIsRecorded FlagsAreNews
