SPECIFICATION Spec
CONSTANTS
  s1 = s1
  s2 = s2
  Wallet = Wallet
  Key = Key
  NoTx = NoTx
  Requests = {img, chat}
  ImageRequests = {img}
  Direct = {chat}
  Detached = {chat}
  Subs = {s1, s2}
  InitialSubs = {s1}
  PeriodEnd <- MCPeriodEnd
  Quota <- MCQuota
  Costs = {1, 3}
  ClassifierCosts = {0, 1}
  KeyQuota = 0
  InitialBalance = 2
  TopupAmount = 1
  MaxTries = 2
  MaxTopups = 1
  MaxTime = 1
INVARIANTS
  TypeOK
  SubsInBounds
  QuotaBeforeWallet
PROPERTIES
  ImplementsLedger
  BillingEnds
