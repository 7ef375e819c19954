SPECIFICATION Spec
CONSTANTS
  Orders = {o1}
  Requests = {r1, r2}
  Staff = {c1, c2}
  Scanners = {x1, x2}
  Organizer = Organizer
  Superadmin = Superadmin
  Nobody = Nobody
SYMMETRY Symmetry
INVARIANTS RefundsTypeOK EnteredOnce RefundedIsClosed CouponLedger
PROPERTY RevokedForGood
CHECK_DEADLOCK FALSE
