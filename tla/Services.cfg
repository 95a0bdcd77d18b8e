\* One handler of a workspace, or two in every interleaving of their reads and commits; two
\* threads, two processes, two readers, two decisions on two planner runs.
CONSTANTS
  r1 = r1
  r2 = r2
  h1 = h1
  h2 = h2
  Runs <- TwoRuns
  Handlers <- TwoHandlers
  Crews <- OneOrTwo
  Estimate = 2
  Grants <- SmallGrants
  Limits <- LimitOfOne
  RunLimits <- SomeRunLimits
  Costs <- AnyCost
  MaxGranted = 4
  LastMonth = 1
  KeyIds = {k1, k2}
  MaxKeys = 2
  MaxTokens = 2
  Threads = {c1, c2}
  NoThread = NoThread
  NoKeyId = NoKeyId
  Sweepers = {s1, s2}
  NoSweeper = NoSweeper
  Interval = 2
  ClaimTimeout = 1
  CoreRetention = 2
  DetailRetention = 1
  MaxTime = 3
  Readers = {p1, p2}
  MaxLimit = 2
  TailLines = 2
  MaxEntries = 2
  MaxLines = 3
  projectA = projectA
  projectB = projectB
  chatA = chatA
  repoB = repoB
  Projects = {projectA, projectB}
  Conversations = {chatA}
  Repositories = {repoB}
  ProjectOf <- TwoProjects
  NoRow = NoRow
  Deciders = {d1, d2}
  MaxDrafts = 2
  MaxPlans = 2
  MaxTasks = 2
SPECIFICATION MCSpec
CHECK_DEADLOCK FALSE
INVARIANTS
  TypesOK
  NoOverdraft
  SteadyProviderServes
  OneCleanupPerInterval
  LogReadOnce
  PlanDecidedOnce
PROPERTIES
  MoneyIsConserved
  MonthlyLimitHolds
