CONSTANTS
  t1 = t1
  t2 = t2
  free = free
  basic = basic
  pro = pro
  Tabs = {t1, t2}
  Staff = {m1, m2}
  Starts = {1, 2}
  Months = {0, 1}
  Keys = {1, 2, 3}
  Scopes <- MCScopes
  Drafts <- MCDrafts
SPECIFICATION JSpec
INVARIANTS
  SignedAsAccepted
  SecuredIsPaid
  ActivePlanWasPaid
PROPERTIES
  
  Finishes
  NavigationSettles
CHECK_DEADLOCK FALSE
