SPECIFICATION MCSpec
CONSTANTS
  Tabs = {t1}
  Prices = {1000, 1500}
  Percents = {0, 5}
  CouponType = "PERCENTAGE"
  CouponValue = 80
  MaxPerOrder = 2
  MaxUses = 1
  MaxChanges = 1
  MaxTickets = 2
  MaxAsked = 2
  None = None
INVARIANTS
  ShoppingTypeOK
  ChargedAsRecorded
 
CHECK_DEADLOCK FALSE
