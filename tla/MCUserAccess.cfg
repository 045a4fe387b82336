SPECIFICATION Spec
CONSTANTS
  Entry <- MCEntry
  Blank = Blank
  Adder = {"passwd", "add"}
  NewEntry <- MCNewEntry
  ByHand <- MCByHand
  Url = {"/", "/a", "/b"}
  UrlRoot = {"/"}
  Starts <- MCStarts
  Writes = {"PUT"}
  Reads = {"GET"}
  OtherMethods = {"BREW"}
  MaxLines = 3
  UpdateInterval = 2
  MaxClock = 4
  MaxByHand = 1
INVARIANTS
  TypeOK
  ServedIsListed
  ListedIsKnown
  NobodyLost
CHECK_DEADLOCK FALSE
