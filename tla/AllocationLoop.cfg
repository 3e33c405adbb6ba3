SPECIFICATION Spec
CONSTANTS
  Users <- MCUsers
  Host <- MCHost
  Items <- MCItems
  Totals <- MCTotals
INVARIANTS TypeOK OrderFree FairToTheWon CompletedIfHostBearsAll
CHECK_DEADLOCK FALSE
