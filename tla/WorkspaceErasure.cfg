CONSTANTS
  g1 = g1  q1 = q1  c1 = c1
  Runs = {g1}
  Requests = {q1}
  Calls = {c1}
  Grace = 1
  MaxTime = 2
  MaxCustomers = 2
SPECIFICATION FairSpec
INVARIANT TypeOK
INVARIANT NoOrphanBilling
INVARIANT OperatorSurvives
PROPERTY CancelRemovesNothing
PROPERTY DueIsErased
CHECK_DEADLOCK FALSE
