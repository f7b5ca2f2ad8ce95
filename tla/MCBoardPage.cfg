CONSTANTS
  t1 = t1
  t2 = t2
  None = None
  Gone = Gone
  Todo = {t1, t2}
  Target = {"todo", "done"}
  MaxPosition = 1
  MaxEvents = 1
  MaxActs = 2
SPECIFICATION MCFairSpec
INVARIANTS
  TypeOK
  SettledIsShown
PROPERTIES
  DropMovesOneCard
  RevertNeedsCause
  EveryMutationSettles
