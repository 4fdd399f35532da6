SPECIFICATION FairSpec
CONSTANTS
  hello = hello
  listing = listing
  c1 = c1
  c2 = c2
  Call <- MCCall
  Hello = hello
  Listing = listing
  Nobody = nobody
  OwnIds = {3}
  MaxLines = 5
CHECK_DEADLOCK FALSE
INVARIANTS
  OwnResponse
  PendingExact
PROPERTIES
  AnsweredReturn
  StopEnds
