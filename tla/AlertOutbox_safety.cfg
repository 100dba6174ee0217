CONSTANTS
  k1 = k1  k2 = k2  a = a  b = b  none = none
  d1 = d1  d2 = d2  f1 = f1  f2 = f2  hook = hook  mail = mail
  Keys = {k1, k2}
  Texts = {a, b}
  NoText = none
  Dispatchers = {d1, d2}
  Flushers = {f1, f2}
  Channels = {hook}
  Volatile = {}
  Accepts <- AcceptAll
  ScopeOf <- OneScope
  Modes = {"batched"}
  MaxClaims = 2
  ClaimAttempts = 2
SYMMETRY AnyWorker
SPECIFICATION BoundedSpec
INVARIANT TypeOK
INVARIANT ClaimsAreWhole
INVARIANT JobsMatchOutbox
INVARIANT FlushedReachedChannels
PROPERTY SafelyPromised
CHECK_DEADLOCK FALSE
