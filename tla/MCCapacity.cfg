SPECIFICATION FairSpec
CONSTANTS
  o1 = o1
  o2 = o2
  o3 = o3
  Orders <- MCOrders
  Mixes <- MCMixes
  Quantities = {1}
  Totals = {1}
  InitialTotal = 2
  Nobody = Nobody
INVARIANT CapacityTypeOK
PROPERTY WebStaysWithinCapacity
PROPERTY EveryBuyerAnswered
CHECK_DEADLOCK FALSE
