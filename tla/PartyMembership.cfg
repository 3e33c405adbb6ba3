SPECIFICATION Spec
CONSTANTS
  h1 = h1
  h2 = h2
  u1 = u1
  u2 = u2
  Users <- MCTwoUsers
  Handlers <- MCHandlers
  MaxRows = 2
  Asked = {"CLOSED"}
SYMMETRY HandlerUserSymmetry
INVARIANTS TypeOK CountIsAPastCount CountExactUnlessDisturbed OneRowUnlessMixed
  ChatTellsMembership
PROPERTIES ComesBackOnlyByJoining
