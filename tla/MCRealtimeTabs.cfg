CONSTANTS
  u1 = u1
  u2 = u2
  tab1 = tab1
  tab2 = tab2
  tab3 = tab3
  User = {u1, u2}
  Conn = {tab1, tab2, tab3}
  UserOf <- TwoTabs
  MaxEvents = 2
CHECK_DEADLOCK FALSE
SPECIFICATION Spec
INVARIANTS
  OpenIsSubscribed
