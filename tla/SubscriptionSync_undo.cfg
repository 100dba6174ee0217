CONSTANTS
  s1 = s1  s2 = s2  call = call  none = none  nightly = nightly
  Subs = {s1, s2}
  None = none
  Calls = {call}
  Nightly = nightly
  MaxEvents = 3
  MaxOutages = 0
  MaxReplays = 0
  Attempts = 2
  MayForget = FALSE
  LateEvents = FALSE
SPECIFICATION Spec
SYMMETRY AnyOrder
PROPERTY UndoesNoCheckout
CHECK_DEADLOCK FALSE
