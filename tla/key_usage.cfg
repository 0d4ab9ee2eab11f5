SPECIFICATION Spec
CONSTANTS
  s1 = s1
  s2 = s2
  Wallet = Wallet
  Key = Key
  NoTx = NoTx
  Requests = {chat}
  ImageRequests = {}
  Direct = {chat}
  Detached = {}
  Subs = {s1, s2}
  InitialSubs = {s1}
  PeriodEnd <- MCPeriodEnd
  Quota <- MCQuota
  Costs = {1, 3}
  ClassifierCosts = {0}
  KeyQuota = 0
  InitialBalance = 2
  TopupAmount = 1
  MaxTries = 2
  MaxTopups = 0
  MaxTime = 1
INVARIANT KeyCountsEveryCent
