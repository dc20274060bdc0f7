SPECIFICATION Spec
CONSTANTS
  alice = alice
  barter = barter
  cheque = cheque
  c1 = c1
  c2 = c2
  r1 = r1
  r2 = r2
  Key = {k1}
  NoKey = NoKey
  Nobody = Nobody
  NoPayload = NoPayload
  Payload = {alice, barter}
  Supported = {alice}
  HandlesOf <- MCHandlesOf
  Caller = {c1}
  Recoverer = {r1}
  Worker <- MCWorker
  BatchLimit = 2
  MaxFaults = 0
  MaxUsers = 4
INVARIANT FailureIsAnswered
