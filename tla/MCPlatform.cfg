CONSTANTS
  Clients = {"c1", "c2"}
  Users <- MCUsers
  RoleOf <- MCRoleOf
  MaxCalls = 3
  Requests = {"r1"}
  Subjects <- MCCustomers
  Versions <- MCVersions
  Cases = {"k1"}
  Customers <- MCCustomers
  MaxTime = 2
  StartDate = 1
  EndDate = 1
  MaxHour = 2
  Readers <- MCReaders
  MaxFaults = 1
  FlagRows = {"off", "on"}
  TaskOwner = "ann"
  Figures = {"some", "more"}
  MaxDay = 4
  Midnight <- MCMidnight
  Week = 2
  Milestones = {2}
  MaxExpenses = 1
  MaxDesks = 1
  Scripts = {"s1", "s2"}
  MaxStarts = 2
  People <- MCPeople
  Titles <- MCTitles
  Salaries <- MCSalaries
  LoggedDays = 2
  MembersOf = 2
SPECIFICATION Spec
INVARIANTS
  TypeOK
  SeparationOfDuties
  CompleteMeansConsented
  ListedByActivity
  CachesExplained
  BroadcastReachesAll
  StreakIsRun
  DebtsMatchCredits
  SeedComplete
PROPERTIES
  DecisionsStand
CHECK_DEADLOCK FALSE
