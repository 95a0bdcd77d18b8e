\* Two overlapping submissions spend the same credits.
CONSTANTS
  r1 = r1
  r2 = r2
  h1 = h1
  h2 = h2
  Runs <- TwoRuns
  Handlers <- TwoHandlers
  Crews <- Both
  Estimate = 2
  Grants <- SmallGrants
  Limits <- LimitOfOne
  RunLimits <- SomeRunLimits
  Costs <- AnyCost
  MaxGranted = 3
  LastMonth = 0
SPECIFICATION Spec
INVARIANT ReservationsAreFunded
