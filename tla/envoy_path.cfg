SPECIFICATION Spec
CONSTANTS
  small = small
  large = large
  NoModel = NoModel
  NoLabel = NoLabel
  Requests = {r1}
  Models = {small, large}
  Price <- MCPrice
  ClassifierPrice = 1
  Policies <- MCPolicies
  Edits <- MCEdits
  Period = 2
  RPM = 1
  PlanPrice = 1
  MaxWallet = 1
  Floor = 1
  MaxSub = 1
  MaxTasks = 1
  MaxChanges = 1
  MaxFaults = 1
INVARIANTS
  TypeOK
  CountersFresh
  
PROPERTIES
  FundedIsServed
  EmptyIsRefused
