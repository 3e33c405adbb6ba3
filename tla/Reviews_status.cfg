SPECIFICATION Spec
CONSTANTS
  Users = {host, u1, u2}
  Host = host
  Scores = {2}
  MaxReviews = 2
INVARIANTS ReviewStatusTrue
CHECK_DEADLOCK FALSE
