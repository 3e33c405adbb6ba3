SPECIFICATION Spec
CONSTANTS
  h1 = h1
  h2 = h2
  Handlers <- MCHandlers
  Lifetime = 2
  Cooldown = 1
  MaxLinks = 3
  MaxTime = 3
SYMMETRY HandlerSymmetry
INVARIANTS TypeOK ResetHolds MailedLinkWorks MailsApart
CHECK_DEADLOCK FALSE
