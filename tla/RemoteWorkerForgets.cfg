CONSTANTS
  p1 = p1
  p2 = p2
  o1 = o1
  Procs <- MCProcs
  Operators <- MCOperators
  MaxAttempts = 2
  MaxDeliveries = 2
SPECIFICATION Spec
CHECK_DEADLOCK FALSE
INVARIANT CompletionKeepsReceipt
