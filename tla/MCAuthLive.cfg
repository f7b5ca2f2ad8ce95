CONSTANTS
  u1 = u1
  u2 = u2
  p1 = p1
  p2 = p2
  o1 = o1
  o2 = o2
  r1 = r1
  r2 = r2
  r3 = r3
  NoUser = NoUser
  NoPassword = NoPassword
  NoCred = NoCred
  User = {u1}
  Password = {p1}
  Req = {r1, r2, r3}
  Past = {o1}
SPECIFICATION MCFairSpec
PROPERTIES
  EveryRequestAnswered
