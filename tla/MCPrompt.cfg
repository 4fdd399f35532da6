SPECIFICATION Spec
CONSTANTS
  MaxCalls = 2
  MaxChunks = 1
  OutCap = 1
  MaxTyped = 2
  InputCap = 1
  LinkCap = 1
  EventCap = 1
  MailCap = 1
  ScreenCap = 1
CHECK_DEADLOCK FALSE
INVARIANTS
  PromptsCanBeAnswered
