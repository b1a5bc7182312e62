SPECIFICATION FairSpec
CONSTANTS
  Browsers = {b1}
  Requests = {r1, r2}
  Goods = {g1}
  Posts <- MCPosts
  Offers <- MCOffers
  MaxAmount = 2
  DemoEnabled = TRUE
  Configurable = {1, 2}
  Cooldown = 1
  MaxClock = 1
  MaxRestarts = 1
  None = None
CHECK_DEADLOCK FALSE
INVARIANTS
  TypeOK
  SpendingIsBounded
  PaysOnlyExpected
  ChargedForAPage
  SuccessIsPaid
  PaidIsShown
  CooldownIsKept
  PurchaseInv
PROPERTIES
  PostIsAnswered
