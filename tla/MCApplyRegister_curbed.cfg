SPECIFICATION Spec
CONSTANTS
  t1 = t1
  t2 = t2
  elsewhere = elsewhere
  none = none
  fixed = fixed
  blank = blank
  Threads = {t1, t2, t3}
  Foreign = elsewhere
  NoThread = none
  Texts = {fixed}
  NoText = blank
  NRows = 3
  Registers <- Curbed
  OldReplies <- MCOldReplies
  FirstId = 2
  Suffix = ".csv"
  LocalWrite = FALSE
  Granted = {"reply", "delete"}
  ListsTombstones = FALSE
  Modes <- AllModes
  Humans = {"resolve"}
  MaxFaults = 2
  MaxEdits = 1
INVARIANTS NoFalseAlarm
