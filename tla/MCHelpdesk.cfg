SPECIFICATION Spec
CONSTANTS
  Tickets = {t}
  Operators = {a}
  MaxMail = 2
  MaxFaults = 2
  None = None
INVARIANTS
  HelpdeskTypeOK
  
PROPERTY CursorMovesOn
CHECK_DEADLOCK FALSE
