SPECIFICATION BoundedSpec
SYMMETRY AnyOrder
CONSTANTS
  u1 = u1  u2 = u2  g1 = g1  g2 = g2  r1 = r1
  Users = {u1, u2}
  Runs = {g1, g2}
  Reasons = {r1}
  UndoWindow = 1
  ReopenAfter = 2
  SnoozeMax = 1
  KeepClosed = 1
  MaxTime = 3
  MaxLog = 4
  MaxRows = 2
INVARIANTS TypeOK ReopensCounted HistoryTellsRow
PROPERTIES DismissedStays SnoozeIsKept DoneHasItsTime UndoTakesBack
