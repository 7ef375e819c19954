SPECIFICATION Spec
CONSTANTS
  Events = {e}
  Months = {m}
  Invoices = {i1, i2}
  Clerks = {c}
  Runs = {r}
  AutoSend = TRUE
  Alone = TRUE
  MaxCustom = 1
  MaxFaults = 1
  None = None
INVARIANTS
  BillingTypeOK
  
  
  BilledOnce
SYMMETRY InvoicesAlike
CHECK_DEADLOCK FALSE
