SPECIFICATION Spec
CONSTANTS
  h1 = h1
  h2 = h2
  NoHandler = NoHandler
  Host <- MCHost
  Guests <- MCTwoGuests
  Handlers <- MCHandlers
  Unit = 2
  Lines <- MCLines
  MaxAmount <- MCMaxAmount
  MaxItemId = 1
SYMMETRY HandlerSymmetry
INVARIANTS TypeOK CompletedIffPaid PaymentsMatchSelections
  AmountsPreserved AnnouncementsTrue AnnouncedOnce
PROPERTIES FrozenOnceConfirmed
