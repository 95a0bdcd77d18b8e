\* Two requests of one task with two artifacts.
CONSTANTS
  h1 = h1
  h2 = h2
  Handlers <- TwoHandlers
  Runners <- SomeRunners
  MaxArtifacts = 2
  MaxTests = 2
  Modes <- SomeModes
SPECIFICATION Spec
SYMMETRY Symmetry
\* The task ends.
CHECK_DEADLOCK FALSE
INVARIANT TypeOK
INVARIANT ApprovalRestsOnTests
INVARIANT OnePullRequestPerApproval
INVARIANT PullRequestsOnRecord
INVARIANT StatusHasEvidence
INVARIANT OnePublicationPerTask
INVARIANT TestingIsAttended
