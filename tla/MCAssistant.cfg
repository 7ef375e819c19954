SPECIFICATION AssistantSpec
CONSTANTS
  Chats = {c1, c2}
  MaxConvs = 2
  MaxTickets = 2
  Closers = {k1, k2}
  GuestMaxPerHour = 1
  MaxChatFaults = 1
  Null = Null
SYMMETRY RequestsAlike
INVARIANT HandedOverOnce
CHECK_DEADLOCK FALSE
