SPECIFICATION DeliveryFairSpec
CONSTANTS
  Channels = {"online", "comp", "counter"}
  Secrets = {"STRIPE_LIVE"}
  Addresses = {a1, a2}
  MaxAttempts = 3
  MaxPolls = 1
  MaxSwitches = 1
  MaxResends = 1
  MaxCrashes = 1
  Null = Null
INVARIANT DeliveryTypeOK
PROPERTIES
  
  SentByTheDesk
  RetryingEnds
CHECK_DEADLOCK FALSE
