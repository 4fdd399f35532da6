SPECIFICATION FairSpec
CONSTANTS
  empty = empty
  small = small
  full = full
  huge = huge
  Garbage = garbage
  Message <- MCMessage
  Body <- MCBody
  Header = 2
  MaxSize = 2
  Cap = 2
  MaxSent = 3
CHECK_DEADLOCK FALSE
PROPERTIES
  ImplementsPipe
  AllArrive
