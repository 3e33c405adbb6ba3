SPECIFICATION Spec
CONSTANTS
  h1 = h1
  h2 = h2
  NoHandler = NoHandler
  Host <- MCHost
  Guests <- MCOneGuest
  Handlers <- MCHandlers
  Unit = 2
  Lines <- MCLines
  MaxAmount <- MCMaxAmount
  MaxItemId = 2
SYMMETRY HandlerSymmetry
INVARIANTS ReadsStayCurrent DraftHasNoSelections
PROPERTIES OneAtATime
