SPECIFICATION Spec
CONSTANTS
  monthly = monthly
  once = once
  s1 = s1
  s2 = s2
  topup = topup
  buy = buy
  NoOne = NoOne
  NoPlan = NoPlan
  Plans = {monthly, once}
  OneTime = {once}
  Price <- MCPrice
  PlanQuota <- MCPlanQuota
  MaxPurchases = 1
  Subs = {s1, s2}
  PlanOf <- MCPlanOf
  InitialSubs = {s1}
  Bought = {s2}
  Callers = {c1}
  Workers = {w1}
  InitialBalance = 1
  MaxDebt = 1
  Month = 1
  Duration = 1
  MaxTime = 1
  MaxFailures = 1
  OrderIds = {topup, buy}
  OrderPlan <- MCOrderPlan
  TopupAmount = 1
  Callbacks = {k1}
PROPERTY RenewedOnlyWhenLapsed
