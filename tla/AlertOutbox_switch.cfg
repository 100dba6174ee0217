CONSTANTS
  k1 = k1  k2 = k2  a = a  b = b  none = none
  d1 = d1  d2 = d2  f1 = f1  f2 = f2  hook = hook  mail = mail
  Keys = {k1, k2}
  Texts = {a}
  NoText = none
  Dispatchers = {d1}
  Flushers = {f1}
  Channels = {hook, mail}
  Volatile = {mail}
  Accepts <- AcceptSome
  ScopeOf <- TwoScopes
  Modes = {"batched", "instant"}
  MaxClaims = 2
  ClaimAttempts = 2
SPECIFICATION Spec
INVARIANT ClaimsAreWhole
CHECK_DEADLOCK FALSE
