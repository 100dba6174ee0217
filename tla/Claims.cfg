CONSTANTS
  x = x  y = y  c1 = c1  c2 = c2  c3 = c3  w1 = w1  w2 = w2  k1 = k1
  Attempts = {c1, c2, c3}
  None = none
  Workspaces = {w1, w2}
  Mailboxes = {x, y}
  Cards = {k1}
  Settles = {c1, c2}
  NoKey = none
  Jobs = {c1, c2, c3}
  Hold = 2
  Cooldown = 2
  MaxRequests = 1
  MaxNow = 4
  Phrases = {x, y}
  Plans = {c1, c2, c3}
  NoPlan = none
  Cap = 1
  MaxWeek = 1
  Keywords = {x, y}
  Admissions = {c1, c2}
  MaxLimit = 2
SPECIFICATION Spec
SYMMETRY AnyOrder
PROPERTY SettlesAtOnce
INVARIANT PayableIsRecorded
INVARIANT OneTrialPerKey
INVARIANT HeldAlone
INVARIANT FitsRate
INVARIANT WeeklyCap
PROPERTY EndsOnlyForAnother
PROPERTY RoomHolds
CHECK_DEADLOCK FALSE
