SPECIFICATION Spec
CONSTANTS
  t1 = t1  a1 = a1  a2 = a2  s1 = s1  l1 = l1
  Process <- OneServerEach
  Tools = {t1}
  Authenticators = {a1}
  Statuses = {}
  Logins = {}
  ReadOnly = {}
  OldTokens <- FreshOrAged
  HasTilde = FALSE
  NamedReadOnly = FALSE
  MaxConsents = 1
  MaxExpiries = 1
  MaxRevocations = 0
  MaxFaults = 0
  MaxCalls = 2
CHECK_DEADLOCK FALSE
INVARIANTS ConsentStands
