CONSTANTS
  p1 = p1
  p2 = p2
  o1 = o1
  Procs <- MCProcs
  Operators <- MCOperators
  MaxAttempts = 2
  MaxDeliveries = 3
SYMMETRY Symmetry
SPECIFICATION Spec
CHECK_DEADLOCK FALSE
INVARIANTS
  TypeOK
  MessageAccounted
  PatchRestsOnUploads
  HeardCancelIsReported
  ContainersAccounted
