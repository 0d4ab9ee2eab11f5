SPECIFICATION Spec
CONSTANTS
  s1 = s1
  s2 = s2
  Wallet = Wallet
  Key = Key
  NoTx = NoTx
  Requests = {img1, img2}
  ImageRequests = {img1, img2}
  Direct = {img1, img2}
  Detached = {}
  Subs = {s1, s2}
  InitialSubs = {}
  PeriodEnd <- MCPeriodEnd
  Quota <- MCQuota
  Costs = {3}
  ClassifierCosts = {0}
  KeyQuota = 0
  InitialBalance = 3
  TopupAmount = 1
  MaxTries = 2
  MaxTopups = 0
  MaxTime = 1
INVARIANT HoldNeverOverdraws
