SPECIFICATION Spec
CONSTANTS
  honest = honest
  late = late
  wrong = wrong
  p1 = p1
  Payment = {p1}
  Callback = {honest}
  PaymentOf <- MCPaymentOf
  InTime <- MCInTime
  Matching <- MCMatching
  Instance = {i1, i2}
  Nobody = Nobody
  Nothing = Nothing
  BatchLimit = 1
  GatewayMayFail = FALSE
  FaultKinds = {"delivery", "database", "slow", "crash", "connection"}
  MaxFaults = 1
SYMMETRY MCSymmetry
INVARIANT TypeOK
INVARIANT AnnouncedIsTrue
INVARIANT NothingIsLost
INVARIANT ConfirmationIsUnderWay
INVARIANT CopiesAreFaults
CHECK_DEADLOCK FALSE
