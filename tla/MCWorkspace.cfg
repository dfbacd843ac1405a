SPECIFICATION WSpec
CONSTANTS
  MaxPages = 3
  Hints <- MCHints

  Titles = {"Data", "notes", "Notes"}
  NoTitle = "none"
  Casefold <- MCCasefold
  Keys = {"k1", "k2"}
  MaxIds = 3
  MaxRow = 2
  MaxOthers = 1

  Pieces = {"x", "y"}
  MaxTabId = 3
  MaxText = 2
  MaxMeddling = 1

  Elements <- MCElements
  Quotes <- MCQuotes
  Newline = "n"
  Blank = {"n"}
  MaxElements = 3
  MaxChars = 5

  Calls = {"c1", "c2"}
  TabNames = {"Sum", "Det"}
  NoName = "-"
  Threads <- MCThreads
  Unsaid = "?"
  Fileless = "file"
  Given = {"-", "review"}
  Wanted <- MCWanted
  LocalWrite = {"c1", "c2"}
  OpenpyxlInstalled = {"c2"}
  MaxSecond = 2

  ToolCalls = {"t1", "t2"}
  Person = "somebody"
  ThreadIds = {"th1", "th2"}
  UnbornThreads = {"th2"}
  Stripped = "stripped"
  MaxReplies = 2
  MaxHands = 1

  Files = {1, 2, 3, 4}
  Unmade = {4}
  Folders = {3}
  Uploads = {2}
  Listed = {1, 3, 4}
  People = {"ann", "pat", "pat2"}
  Me = "ann"
  Mail <- MCMail
  NameOf <- MCNameOf
  NoMail = "no mail"
  Subjects = {"pat@x", "Pat"}
  NoSubject = "nobody"
  IdLists <- MCIdLists
  Limits = {0, 2}
  PageSize = 2
  MaxTouch = 1
  MaxMoves = 2

  Callers = {"lib1", "lib2"}
  ByHand = "hand"
  ReadOnlyCallers = {"lib2"}
  Addresses = {"a", "B"}
  Lower <- MCLower
  MaxGiven = 4
  MaxByHand = 1

  LabelIds = {"l1", "l2"}
  ChoiceIds = {"ch1", "ch2"}
  LabelNames = {"Secret"}
  Unnamed = "unnamed"
  MaxChanges = 2

  TYPES <- MCTypes
  NoKind = "none of them"
  Postures <- MCPostures
  MaxFaults = 1

INVARIANTS
  WorkspaceTypeOK
  TellsWhatWasDone ListingWhole
  LookupIsSound ReadsEveryTab PassageIsItsOwn RegisterIsSound
  SearchIsSound InventoryIsSound NoNewOwner

PROPERTIES
  ComesToAnEnd
  TabsByName LandsWhereSaid OverwritesOnlyInARace AnswersAreTrue
  AccessAsSaid LabelsAreTrue TakesBackWhatItMade ActsAsAsked

CHECK_DEADLOCK FALSE
