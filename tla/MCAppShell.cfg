CONSTANTS
  u1 = u1
  u2 = u2
  None = None
  User = {u1, u2}
  Message <- SomeMessages
  MaxActs = 3
  MaxEvents = 2
SPECIFICATION MCFairSpec
CHECK_DEADLOCK FALSE
INVARIANTS
  TypeOK
  FormFitsSession
  ListIsOwn
PROPERTIES
  LoadKeepsChoices
  EveryCommandAnswered
