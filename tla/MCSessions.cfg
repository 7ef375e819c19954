SPECIFICATION Spec
CONSTANTS
  Staff = {s1}
  Actors = {"SUPERADMIN", "ORGANIZER_OWNER"}
  NewRoles = {"ORGANIZER_MEMBER", "SCANNER", "CUSTOMER"}
  Forms = {f1}
  MaxLinks = 1
  Tabs = {t1, t2}
  MaxTokens = 3
  Nobody = Nobody
SYMMETRY Symmetry
INVARIANTS
  SessionsTypeOK
  OneLiveToken
  ResetEndsSessions
 
CHECK_DEADLOCK FALSE
