SPECIFICATION Spec
CONSTANTS
  Handlers <- MCHandlers
  MaxRows = 4
  h1 = h1
  h2 = h2
INVARIANTS OneUnfinished
