SPECIFICATION Spec
CONSTANTS
  t1 = t1  a1 = a1  a2 = a2  s1 = s1  l1 = l1
  Process <- OneServerEach
  Tools = {t1}
  Authenticators = {a1}
  Statuses = {}
  Logins = {l1}
  ReadOnly = {t1, a1}
  OldTokens <- AllKinds
  HasTilde = FALSE
  NamedReadOnly = FALSE
  MaxConsents = 1
  MaxExpiries = 1
  MaxRevocations = 1
  MaxFaults = 1
  MaxCalls = 3
CHECK_DEADLOCK FALSE
INVARIANTS TypeOK ReadOnlyHoldsNoWrite ConsentIsLostOnlyToARace
PROPERTIES NoTokenIsLost
