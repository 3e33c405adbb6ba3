SPECIFICATION Spec
CONSTANTS
  h1 = h1
  h2 = h2
  u1 = u1
  u2 = u2
  Users <- MCTwoUsers
  Handlers <- MCHandlers
  MaxRows = 3
  Asked = {"RECRUITING", "CLOSED"}
SYMMETRY HandlerUserSymmetry
INVARIANTS JoinAnnouncedOnce
