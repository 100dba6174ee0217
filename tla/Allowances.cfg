CONSTANTS
  a1 = a1  x = x  y = y  c1 = c1  c2 = c2  p1 = p1
  Alerts = {a1}
  Addresses = {x, y}
  Calls = {c1, c2}
  Presses = {p1}
  MaxWaiting = 1
  MailsPerDay = 2
  MaxStamps = 2
  Asks = {c1, c2}
  NoAsk = none
  Limit = 1
  RunAttempts = 2
  AbandonAfter = 1
  MaxClock = 1
SPECIFICATION Spec
SYMMETRY AnyOrder
INVARIANT ConsentBacks
INVARIANT StaysOff
INVARIANT NewestLinkWorks
INVARIANT MailboxIsSpared
INVARIANT AllowanceHolds
INVARIANT ShownIsPaid
CHECK_DEADLOCK FALSE
