SPECIFICATION Spec
CONSTANTS
  Users = {u1}
  Limit = 1
  Millisecond = 2
  MaxTime = 2
  MaxPosts = 3
  MaxComments = 0
INVARIANTS LatestOmitsNothing
CHECK_DEADLOCK FALSE
