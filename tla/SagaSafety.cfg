SPECIFICATION Spec
CONSTANTS
  alice = alice
  barter = barter
  cheque = cheque
  c1 = c1
  c2 = c2
  r1 = r1
  r2 = r2
  Key = {k1, k2}
  NoKey = NoKey
  Nobody = Nobody
  NoPayload = NoPayload
  Payload = {alice, cheque}
  Supported = {alice}
  HandlesOf <- MCHandlesOf
  Caller = {c1}
  Recoverer = {r1, r2}
  Worker <- MCWorker
  BatchLimit = 2
  MaxFaults = 2
  MaxUsers = 4
SYMMETRY MCSymmetry
INVARIANTS TypeOK HolderKnowsRow AnswerIsDurable SnapshotSuffices
INVARIANTS CompletedIsWhole NoIntentWithoutUser OnlyFailedIsCompensated
PROPERTIES StatusMovesForward KeepsPromise
