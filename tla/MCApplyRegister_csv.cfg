SPECIFICATION Spec
CONSTANTS
  t1 = t1
  t2 = t2
  elsewhere = elsewhere
  none = none
  fixed = fixed
  blank = blank
  Threads = {t1, t2}
  Foreign = elsewhere
  NoThread = none
  Texts = {fixed}
  NoText = blank
  NRows = 2
  Registers <- AllKinds
  OldReplies <- MCOldReplies
  FirstId = 2
  Suffix = ".csv"
  LocalWrite = TRUE
  Granted = {"reply", "resolve", "delete"}
  ListsTombstones = TRUE
  Modes <- AllModes
  Humans = {"reply", "resolve", "delete", "cell", "sort"}
  MaxFaults = 2
  MaxEdits = 1
INVARIANTS TypeOK NoDoublePost MarkerSound ReportIsTrue
PROPERTIES KeepsPromise ActsByItsRow
