SPECIFICATION FairSpec
CONSTANTS
  first = first
  corrected = corrected
  copied = copied
  other = other
  refA = refA
  refB = refB
  evt1 = evt1
  evt2 = evt2
  evt3 = evt3
  Callback = {first, corrected, copied}
  NoCallback = NoCallback
  Reference = {refA, refB}
  EventId = {evt1, evt2, evt3}
  RefOf <- MCRefOf
  EventOf <- MCEventOf
  Instance = {i1, i2}
  Nobody = Nobody
  Gone = Gone
  BatchLimit = 2
  PublishAttempts = 2
  LossKinds = {"process", "database", "connection"}
  MaxFaults = 2
  MaxLosses = 1
INVARIANT TypeOK
INVARIANT OneRelayPerReceipt
INVARIANT AnswersAreKept
INVARIANT CopiesAreNacks
PROPERTIES KeepsMessages OnlyStrandedIsLost
