SPECIFICATION FairSpec
CONSTANTS
  Payment = {p1}
  Instance = {i1, i2}
  Nothing = Nothing
  DeliveryLimit = 1
  MaxCopies = 2
  FaultKinds = {"database", "connection", "crash"}
  MaxFaults = 1
INVARIANT TypeOK
INVARIANT ActivationIsWhole
INVARIANT DeadLettersAreRepeated
INVARIANT CopiesAreFew
PROPERTIES KeepsMessages ConfirmedIsAnnounced
CHECK_DEADLOCK FALSE
