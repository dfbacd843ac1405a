SPECIFICATION FairSpec
CONSTANTS
  t1 = t1  a1 = a1  a2 = a2  s1 = s1  l1 = l1
  Process <- OneServerEach
  Tools = {t1}
  Authenticators = {a1}
  Statuses = {s1}
  Logins = {}
  ReadOnly = {}
  OldTokens <- FreshOrAged
  HasTilde = TRUE
  NamedReadOnly = FALSE
  MaxConsents = 1
  MaxExpiries = 1
  MaxRevocations = 1
  MaxFaults = 0
  MaxCalls = 3
CHECK_DEADLOCK FALSE
PROPERTIES StatusIsTrue WaitsEndAsTheyShould
