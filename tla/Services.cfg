SPECIFICATION Spec
CONSTANTS
  u1 = u1
  u2 = u2
  e1 = e1
  e2 = e2
  None = None
  Handlers = {h1, h2}
  MaxSettlements = 4
  Emails = {e1, e2}
  Socials = {s1}
  MaxAttempts = 2
  Cooldown = 1
  CodeLife = 1
  TokenLife = 1
  MaxRequests = 4
  MaxTime = 3
  Members = {u1, u2}
  Endpoints = {"e1", "e2"}
  Keys = {"k1", "k2"}
  DeviceLimit = 1
  MaxDevices = 2
  Reviewed = {host, u1, u2}
  Host = host
  Scores <- LowScores
  MaxReviews = 2
  Readers = {fan}
  Limit = 1
  Millisecond = 2
  FeedTime = 2
  MaxPosts = 3
  MaxComments = 1
  Quantities = {1, 2, 12}
  Prices = {100, 1100, 2900}
  Differences <- LowDifferences
  MaxItems = 2
  PaperRows = 2
  Columns = 3
  Pitch = 24
  Heights = {20, 24}
  Tilt = 5
  Offsets <- LowOffsets
  MaxFiles = 3
SYMMETRY ServicesSymmetry
INVARIANTS TypeOK OneUnfinishedUnlessRaced AccountsVerified GuessesLimited OneRowPerSocial OnlyMembersWrite WithinDeviceLimit ReviewsCounted FeedComplete ReceiptRead RowsRecovered NothingLeftBehind
PROPERTIES TakenOverDeviceKept
CHECK_DEADLOCK FALSE
