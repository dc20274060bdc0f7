SPECIFICATION FairSpec
CONSTANTS
  honest = honest
  late = late
  wrong = wrong
  p1 = p1
  Payment = {p1}
  Callback = {honest, late}
  PaymentOf <- MCPaymentOf
  InTime <- MCInTime
  Matching <- MCMatching
  Instance = {i1}
  Nobody = Nobody
  Nothing = Nothing
  BatchLimit = 1
  GatewayMayFail = TRUE
  FaultKinds = {"delivery", "database", "slow"}
  MaxFaults = 1
PROPERTY KeepsMessages
PROPERTY CompletedIsConfirmed
PROPERTY FreshCallbackDecides
CHECK_DEADLOCK FALSE
