\* Three requests of one browser on each kind of network.
CONSTANTS
  q1 = q1
  q2 = q2
  q3 = q3
  Requests <- ThreeRequests
  MaxSecret = 3
  Networks <- SomeNetworks
SPECIFICATION Spec
SYMMETRY Symmetry
\* The session ends.
CHECK_DEADLOCK FALSE
INVARIANT TypeOK
INVARIANT PreviousIsPredecessor
INVARIANT BrowserKeepsUp
INVARIANT NoFalseAlarm
PROPERTY NotTurnedAway
