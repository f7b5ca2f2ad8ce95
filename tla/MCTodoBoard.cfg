CONSTANTS
  u1 = u1
  u2 = u2
  o1 = o1
  o2 = o2
  r1 = r1
  r2 = r2
  None = None
  User = {u1, u2}
  Req = {r1, r2}
  Backend = {"rust", "bun"}
  Past = {o1, o2}
  Status = {"todo", "in_progress", "done", "failed"}
  MaxPosition = 2
  Creates <- SomeCreates
  Updates <- SomeUpdates
  Reorders <- SomeReorders
SPECIFICATION MCFairSpec
INVARIANTS
  TypeOK
  CompletedFollowsStatus
  DraftIsCurrent
  SharedPositionNeedsOverlap
PROPERTIES
  ReorderAllOrNothing
  OnlyRelatedWrite
  LedgerSpec
  EveryRequestAnswered
