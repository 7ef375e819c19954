SPECIFICATION Spec
CONSTANTS
  m1 = m1
  m2 = m2
  a = a
  c = c
  Orders = {o1, o2}
  Maps = {m1, m2}
  Sections = {a, c}
  Seated = {a}
  MapOf <- MapOfDef
  MaxSwitches = 3
  None = None
INVARIANTS
  
  
  PlanOfItsMap
PROPERTY PageTellsPlan
SYMMETRY OrdersAlike
CHECK_DEADLOCK FALSE
