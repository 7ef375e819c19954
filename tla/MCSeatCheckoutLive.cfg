SPECIFICATION FairSpec
CONSTANTS
  s1 = s1
  s2 = s2
  Seats = {s1}
  Carts <- LiveCarts
  Orders = {o1, o2}
  Handlers = {h1}
  Sessions = {e1}
  Cron = Cron
  Organizer = Organizer
  Nobody = Nobody
  MaxFaults = 1

PROPERTIES ExpiredSettles PaymentIsProcessed
CHECK_DEADLOCK FALSE
