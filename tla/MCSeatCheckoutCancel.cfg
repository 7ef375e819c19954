SPECIFICATION Spec
CONSTANTS
  s1 = s1
  s2 = s2
  Seats = {s1, s2}
  Carts <- MCCarts
  Orders = {o1, o2}
  Handlers = {h1, h2}
  Sessions = {e1, e2}
  Cron = Cron
  Organizer = Organizer
  Nobody = Nobody
  MaxFaults = 1
SYMMETRY Symmetry
INVARIANT CancelledHasNoValidTicket
CHECK_DEADLOCK FALSE
