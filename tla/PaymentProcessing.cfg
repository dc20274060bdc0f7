SPECIFICATION FairSpec
CONSTANTS
  honest = honest
  late = late
  wrong = wrong
  p1 = p1
  Payment = {p1}
  Callback = {honest}
  PaymentOf <- MCPaymentOf
  InTime <- MCInTime
  Matching <- MCMatching
  Instance = {i1}
  Nobody = Nobody
  Nothing = Nothing
  BatchLimit = 2
  GatewayMayFail = FALSE
  FaultKinds = {"delivery"}
  MaxFaults = 1
PROPERTY ProcessingIsAnnounced
CHECK_DEADLOCK FALSE
