CONSTANTS
  s1 = s1  s2 = s2  call = call  none = none  nightly = nightly
  Subs = {s1, s2}
  None = none
  Calls = {call}
  Nightly = nightly
  MaxEvents = 2
  MaxOutages = 1
  MaxReplays = 0
  Attempts = 1
  MayForget = TRUE
  LateEvents = TRUE
SPECIFICATION FairSpec
PROPERTY RevokesOnlyUnbacked
PROPERTY NightlyRepairs
PROPERTY EventuallyAgrees
CHECK_DEADLOCK FALSE
