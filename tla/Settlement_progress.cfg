SPECIFICATION FairSpec
CONSTANTS
  h1 = h1
  h2 = h2
  NoHandler = NoHandler
  Host <- MCHost
  Guests <- MCOneGuest
  Handlers <- MCHandlers
  Unit = 2
  Lines <- MCLines
  MaxAmount <- MCMaxAmount
  MaxItemId = 1
PROPERTIES LockReleased RequestsAnswered CompletionAnnounced
