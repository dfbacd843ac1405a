SPECIFICATION FairSpec
CONSTANTS
  t1 = t1
  t2 = t2
  elsewhere = elsewhere
  none = none
  fixed = fixed
  blank = blank
  Threads = {t1, t2}
  Foreign = elsewhere
  NoThread = none
  Texts = {fixed}
  NoText = blank
  NRows = 2
  Registers <- Doable
  OldReplies <- MCOldReplies
  FirstId = 2
  Suffix = ".xlsx"
  LocalWrite = TRUE
  Granted = {"reply", "resolve", "delete"}
  ListsTombstones = TRUE
  Modes <- RealAndForced
  Humans = {"reply", "resolve", "delete", "cell"}
  MaxFaults = 2
  MaxEdits = 1
PROPERTIES KeepsPromise Converges
