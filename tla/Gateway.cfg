SPECIFICATION Spec
CONSTANTS
  first = first
  other = other
  keyless = keyless
  k1 = k1
  alice = alice
  barter = barter
  b1 = b1
  b2 = b2
  Gate = {g1}
  Server = {s1}
  Browser = {b1, b2}
  Request = {first, other, keyless}
  BrowserOf <- MCBrowserOf
  KeyOf <- MCKeyOf
  PayloadOf <- MCPayloadOf
  Key = {k1}
  NoKey = NoKey
  Payload = {alice, barter}
  NoPayload = NoPayload
  HandlesOf <- MCHandlesOf
  NoGate = NoGate
  MaxMoves = 4
  MaxFaults = 1
INVARIANTS TypeOK AnswersMatch PendingIsAwaited StreamsHaveNoGaps
PROPERTIES KeepsPromise
CHECK_DEADLOCK FALSE
