---------------------------- MODULE OnboardingSaga ----------------------------
(***************************************************************************)
(* The account creation saga: the workers of the onboarding service        *)
(* (onboarding.service.ts) over the rows of SagaLedger, the RPC commands   *)
(* they send, and the identity and payment services that execute them.     *)
(*                                                                         *)
(* A worker is one delivery of an onboarding.account.create command (a     *)
(* Caller) or one pass of the recovery timer of one service instance (a    *)
(* Recoverer).  Both carry a random id; an identifier is used again here   *)
(* only when no row and no command names it, so that it is as good as a    *)
(* fresh one.  Between two transactions, and between sending a command     *)
(* and its reply, everything else may happen.                              *)
(*                                                                         *)
(* commands holds the RPC commands the broker has accepted and not seen    *)
(* acknowledged.  A command outlives the worker that gave up on it and     *)
(* may be executed late or twice.                                          *)
(*                                                                         *)
(* faults counts timeouts, transient failures, lost replies, leases that   *)
(* run out under a live worker, and deaths; MaxFaults bounds it.           *)
(***************************************************************************)
EXTENDS SagaLedger, FiniteSets

CONSTANTS Key, NoKey, HandlesOf,
          Caller, Recoverer,    \* the two kinds of workers
          Supported,            \* payloads whose currency is supported
          BatchLimit,           \* rows one recovery pass may claim
          MaxFaults,            \* bound on faults
          MaxUsers              \* bound on user ids ever issued

ASSUME WorkersAreTwoKinds == Worker = Caller \cup Recoverer
                             /\ Caller \cap Recoverer = {}
ASSUME SupportedArePayloads == Supported \subseteq Payload
ASSUME NoKeyIsNoKey == NoKey \notin Key
ASSUME BoundsAreNatural == BatchLimit \in Nat /\ MaxFaults \in Nat
                           /\ MaxUsers \in Nat

INSTANCE IdentityStore

VARIABLES ledger,       \* [Key -> Row], onboarding's database
          identity,     \* Store, identity's database
          intents,      \* [Key -> Request], payment's intents: who pays
          commands,     \* RPC commands in the broker's queues
          pc,           \* where each worker is
          key,          \* the saga each worker runs
          snap,         \* the row each worker last read or wrote, per key
          todo,         \* claimed sagas a recovery pass has still to run
          reply,        \* the RPC reply each worker has received
          answer,       \* how each worker's run of the state machine ended
          expired,      \* workers whose leases have run out
          faults

vars == <<ledger, identity, intents, commands, pc, key, snap, todo, reply,
          answer, expired, faults>>

worker == <<pc, key, snap, todo, reply, answer>>
services == <<identity, intents>>

Place == {"idle", "waiting", "dispatch", "user", "payment", "compensation",
          "release", "answered", "batch"}

Answer == {"none", "created", "replayed", "permanent", "transient",
           "internal", "in progress", "reused"}

Command == [op : {"create", "pay", "compensate"}, key : Key,
            payload : Payload, user : Nat, from : Worker \cup {Nobody}]

NoRows == [k \in Key |-> AbsentRow]

Init ==
  /\ ledger = NoRows
  /\ identity = EmptyStore
  /\ intents = [k \in Key |-> NoRequest]
  /\ commands = {}
  /\ pc = [w \in Worker |-> "idle"]
  /\ key = [w \in Worker |-> NoKey]
  /\ snap = [w \in Worker |-> NoRows]
  /\ todo = [w \in Worker |-> {}]
  /\ reply = [w \in Worker |-> NoReply]
  /\ answer = [w \in Worker |-> "none"]
  /\ expired = {}
  /\ faults = 0

Fault == faults < MaxFaults /\ faults' = faults + 1

\* A random worker id: idle, and no row remembers it.
Fresh(w) == pc[w] = "idle" /\ \A k \in Key : ledger[k].lockedBy # w

Saga(w) == snap[w][key[w]]

\* Mutant: transition() without "AND locked_by = $2".
HoldsUntested(w) == TRUE

Holds(w) == ledger[key[w]].lockedBy = w

-------------------------------------------------------------------------------
(* executeStateMachine: how a run starts and how it ends. *)

End(w, a) ==
  /\ pc' = [pc EXCEPT ![w] = "release"]
  /\ answer' = [answer EXCEPT ![w] = a]

\* The head of executeStateMachine on the row the worker was given.
Start(w, k, row) ==
  /\ key' = [key EXCEPT ![w] = k]
  /\ IF IsCompleted(row) THEN End(w, "replayed")
     ELSE IF IsTerminalFailure(row) THEN End(w, row.error)
     ELSE pc' = [pc EXCEPT ![w] = "dispatch"] /\ UNCHANGED answer

\* transition(): writes the row if w still locks it, and throws an error that
\* is no HTTP problem otherwise.  The loop goes on with what was written.
Transition(w, row) ==
  IF Holds(w)
  THEN /\ ledger' = [ledger EXCEPT ![key[w]] = row]
       /\ snap' = [snap EXCEPT ![w][key[w]] = row]
       /\ pc' = [pc EXCEPT ![w] = "dispatch"]
       /\ UNCHANGED answer
  ELSE End(w, "internal") /\ UNCHANGED <<ledger, snap>>

\* Mutant: the run is answered before its last write is known to be done.
FinalTransitionUnchecked(w, row, a) ==
  /\ End(w, a)
  /\ IF Holds(w)
     THEN /\ ledger' = [ledger EXCEPT ![key[w]] = row]
          /\ snap' = [snap EXCEPT ![w][key[w]] = row]
     ELSE UNCHANGED <<ledger, snap>>

\* As Transition, for the two transitions after which the run is over.
FinalTransition(w, row, a) ==
  IF Holds(w)
  THEN /\ ledger' = [ledger EXCEPT ![key[w]] = row]
       /\ snap' = [snap EXCEPT ![w][key[w]] = row]
       /\ End(w, a)
  ELSE End(w, "internal") /\ UNCHANGED <<ledger, snap>>

-------------------------------------------------------------------------------
(* create(): a delivery of onboarding.account.create for key k, payload p. *)

Arrived(k, p) == IF ledger[k] = AbsentRow THEN FreshRow(p) ELSE ledger[k]

\* SagaHashConflictError; the insert did nothing.
RejectReusedKey(w, k, p) ==
  /\ Fresh(w)
  /\ Arrived(k, p).payload # p
  /\ pc' = [pc EXCEPT ![w] = "answered"]
  /\ key' = [key EXCEPT ![w] = k]
  /\ answer' = [answer EXCEPT ![w] = "reused"]
  /\ UNCHANGED <<ledger, services, commands, snap, todo, reply, expired, faults>>

Acquire(w, k, p) ==
  LET row == Arrived(k, p) IN
  /\ Fresh(w)
  /\ row.payload = p
  /\ Acquirable(row, w, expired)
  /\ ledger' = [ledger EXCEPT ![k] = Locked(row, w)]
  /\ snap' = [snap EXCEPT ![w][k] = Locked(row, w)]
  /\ Start(w, k, row)
  /\ expired' = expired \ {w}
  /\ UNCHANGED <<services, commands, todo, reply, faults>>

\* tryAcquire gives null: another delivery or a recovery pass has the row.
JoinWaiters(w, k, p) ==
  /\ Fresh(w)
  /\ Arrived(k, p).payload = p
  /\ ~Acquirable(Arrived(k, p), w, expired)
  /\ pc' = [pc EXCEPT ![w] = "waiting"]
  /\ key' = [key EXCEPT ![w] = k]
  /\ UNCHANGED <<ledger, services, commands, snap, todo, reply, answer,
                 expired, faults>>

\* waitForSettledSaga sees a settled row.  The payload of a row never changes,
\* so that its own test of the request hash cannot fail here.
WaiterSeesSettled(w) ==
  LET row == ledger[key[w]] IN
  /\ pc[w] = "waiting"
  /\ IsCompleted(row) \/ IsTerminalFailure(row)
  /\ pc' = [pc EXCEPT ![w] = "answered"]
  /\ answer' = [answer EXCEPT ![w] = IF IsCompleted(row) THEN "replayed"
                                                         ELSE row.error]
  /\ UNCHANGED <<ledger, services, commands, key, snap, todo, reply, expired,
                 faults>>

WaiterGivesUp(w) ==
  /\ pc[w] = "waiting"
  /\ pc' = [pc EXCEPT ![w] = "answered"]
  /\ answer' = [answer EXCEPT ![w] = "in progress"]
  /\ UNCHANGED <<ledger, services, commands, key, snap, todo, reply, expired,
                 faults>>

-------------------------------------------------------------------------------
(* recoverPendingSagas() *)

\* claimRecoverable: one transaction locks the whole batch under one lease.
ClaimBatch(w) ==
  LET ready == {k \in Key : Recoverable(ledger[k], expired)} IN
  /\ Fresh(w)
  /\ \E batch \in SUBSET ready \ {{}} :
       /\ Cardinality(batch) <= BatchLimit
       /\ batch = ready \/ Cardinality(batch) = BatchLimit
       /\ ledger' = [k \in Key |-> IF k \in batch THEN Locked(ledger[k], w)
                                                  ELSE ledger[k]]
       /\ snap' = [snap EXCEPT ![w] = [k \in Key |-> IF k \in batch
                                          THEN Locked(ledger[k], w)
                                          ELSE AbsentRow]]
       /\ todo' = [todo EXCEPT ![w] = batch]
  /\ pc' = [pc EXCEPT ![w] = "batch"]
  /\ expired' = expired \ {w}
  /\ UNCHANGED <<services, commands, key, reply, answer, faults>>

\* The next saga of the batch, as it was when it was claimed.
NextOfBatch(w) ==
  /\ pc[w] = "batch"
  /\ \E k \in todo[w] :
       /\ Start(w, k, snap[w][k])
       /\ todo' = [todo EXCEPT ![w] = @ \ {k}]
  /\ UNCHANGED <<ledger, services, commands, snap, reply, expired, faults>>

EndPass(w) ==
  /\ pc[w] = "batch"
  /\ todo[w] = {}
  /\ pc' = [pc EXCEPT ![w] = "idle"]
  /\ UNCHANGED <<ledger, services, commands, key, snap, todo, reply, answer,
                 expired, faults>>

-------------------------------------------------------------------------------
(* The loop of executeStateMachine, one step per await. *)

At(w, place) == pc[w] = place
Dispatches(w, next) == pc[w] = "dispatch" /\ Saga(w).next = next
Replied(w) == reply[w].kind # "none"

Send(w, op, place) ==
  /\ commands' = commands \cup
       {[op |-> op, key |-> key[w], payload |-> Saga(w).payload,
         user |-> Saga(w).user, from |-> w]}
  /\ reply' = [reply EXCEPT ![w] = NoReply]
  /\ pc' = [pc EXCEPT ![w] = place]
  /\ UNCHANGED <<ledger, services, key, snap, todo, answer, expired, faults>>

SendCreateUser(w) == Dispatches(w, "PROCESS_USER") /\ Send(w, "create", "user")
SendPayment(w) == Dispatches(w, "PROCESS_PAYMENT") /\ Send(w, "pay", "payment")
SendCompensation(w) ==
  Dispatches(w, "COMPENSATE_USER") /\ Send(w, "compensate", "compensation")

\* markUserCreated, or the error of the RPC passed on with no mark on the row.
FinishUser(w) ==
  /\ At(w, "user") /\ Replied(w)
  /\ IF reply[w].kind = "ok"
     THEN Transition(w, UserCreated(ledger[key[w]], reply[w].user))
     ELSE End(w, reply[w].kind) /\ UNCHANGED <<ledger, snap>>
  /\ reply' = [reply EXCEPT ![w] = NoReply]
  /\ UNCHANGED <<services, commands, key, todo, expired, faults>>

\* Mutant: any reply is taken for an accepted payment.
FinishPaymentUnread(w) ==
  /\ At(w, "payment") /\ Replied(w)
  /\ Transition(w, PaymentCreated(ledger[key[w]]))
  /\ reply' = [reply EXCEPT ![w] = NoReply]
  /\ UNCHANGED <<services, commands, key, todo, expired, faults>>

\* Mutant: the test of the reply is the wrong way round.
FinishPaymentInverted(w) ==
  /\ At(w, "payment") /\ Replied(w)
  /\ Transition(w, IF reply[w].kind # "ok"
                   THEN PaymentCreated(ledger[key[w]])
                   ELSE Failed(ledger[key[w]], reply[w].kind))
  /\ reply' = [reply EXCEPT ![w] = NoReply]
  /\ UNCHANGED <<services, commands, key, todo, expired, faults>>

\* markPaymentCreated, or handlePaymentFailure.  When markPaymentCreated finds
\* the row not locked its error is caught as a failure of the payment, and
\* markFailed then throws for the same reason.
FinishPayment(w) ==
  /\ At(w, "payment") /\ Replied(w)
  /\ Transition(w, IF reply[w].kind = "ok"
                   THEN PaymentCreated(ledger[key[w]])
                   ELSE Failed(ledger[key[w]], reply[w].kind))
  /\ reply' = [reply EXCEPT ![w] = NoReply]
  /\ UNCHANGED <<services, commands, key, todo, expired, faults>>

\* markCompensated, or the error of the RPC passed on.
FinishCompensation(w) ==
  /\ At(w, "compensation") /\ Replied(w)
  /\ IF reply[w].kind = "ok"
     THEN LET problem == IF Saga(w).error = "none" THEN "transient"
                                                   ELSE Saga(w).error
          IN FinalTransition(w, Compensated(ledger[key[w]], problem), problem)
     ELSE End(w, reply[w].kind) /\ UNCHANGED <<ledger, snap>>
  /\ reply' = [reply EXCEPT ![w] = NoReply]
  /\ UNCHANGED <<services, commands, key, todo, expired, faults>>

\* composeResponse from the snapshot, then markCompleted.
Complete(w) ==
  /\ Dispatches(w, "COMPLETE")
  /\ FinalTransition(w, Completed(ledger[key[w]], Saga(w).user), "created")
  /\ UNCHANGED <<services, commands, key, todo, reply, expired, faults>>

\* The finally blocks of create() and recoverPendingSagas().
Release(w) ==
  /\ At(w, "release")
  /\ ledger' = [ledger EXCEPT ![key[w]] = Released(@, w)]
  /\ snap' = [snap EXCEPT ![w][key[w]] = AbsentRow]
  /\ IF w \in Caller
     THEN pc' = [pc EXCEPT ![w] = "answered"] /\ UNCHANGED <<key, answer>>
     ELSE /\ pc' = [pc EXCEPT ![w] = "batch"]
          /\ key' = [key EXCEPT ![w] = NoKey]
          /\ answer' = [answer EXCEPT ![w] = "none"]
  /\ UNCHANGED <<services, commands, todo, reply, expired, faults>>

\* The response is published and the delivery is over.
Depart(w) ==
  /\ At(w, "answered")
  /\ pc' = [pc EXCEPT ![w] = "idle"]
  /\ key' = [key EXCEPT ![w] = NoKey]
  /\ answer' = [answer EXCEPT ![w] = "none"]
  /\ UNCHANGED <<ledger, services, commands, snap, todo, reply, expired, faults>>

-------------------------------------------------------------------------------
(* The identity and payment services execute a command. *)

\* The reply reaches the worker if it still waits for this command; the
\* command is acknowledged, or delivered again because the service went down
\* between its reply and its acknowledgement; or the reply is lost.
Respond(m, r) ==
  \/ /\ commands' = commands \ {m}
     /\ reply' = IF m.from = Nobody THEN reply ELSE [reply EXCEPT ![m.from] = r]
     /\ UNCHANGED faults
  \/ /\ Fault
     /\ m.from # Nobody
     /\ commands' = (commands \ {m}) \cup {[m EXCEPT !.from = Nobody]}
     /\ reply' = [reply EXCEPT ![m.from] = r]
  \/ /\ Fault
     /\ m.from # Nobody
     /\ commands' = commands \ {m}
     /\ UNCHANGED reply

ExecuteCreate(m) ==
  /\ m.op = "create"
  /\ identity' = CreateUser(identity, m.key, m.payload)
  /\ identity'.issued <= MaxUsers
  /\ Respond(m, CreateReply(identity, m.key, m.payload))
  /\ UNCHANGED <<ledger, intents, pc, key, snap, todo, answer, expired>>

ExecuteCompensate(m) ==
  /\ m.op = "compensate"
  /\ identity' = CompensateUser(identity, m.key, m.user)
  /\ Respond(m, CompensateReply(identity, m.key, m.user))
  /\ UNCHANGED <<ledger, intents, pc, key, snap, todo, answer, expired>>

\* CreatePayment; the request hash covers the payload and the user.
ExecutePayment(m) ==
  LET request == [payload |-> m.payload, user |-> m.user]
      known == intents[m.key] # NoRequest
      accepted == IF known THEN intents[m.key] = request
                           ELSE m.payload \in Supported
  IN /\ m.op = "pay"
     /\ intents' = IF accepted THEN [intents EXCEPT ![m.key] = request]
                               ELSE intents
     /\ Respond(m, IF accepted THEN Ok(m.user) ELSE Refusal)
     /\ UNCHANGED <<ledger, identity, pc, key, snap, todo, answer, expired>>

\* A database or the payment provider fails: a 5xx reply and no effect.
ServiceFails(m) ==
  /\ Fault
  /\ commands' = commands \ {m}
  /\ reply' = IF m.from = Nobody THEN reply
              ELSE [reply EXCEPT ![m.from] = Unavailable]
  /\ UNCHANGED <<ledger, services, pc, key, snap, todo, answer, expired>>

-------------------------------------------------------------------------------
(* Time and failures. *)

\* The command of w stays in its queue; a reply to it will be dropped.
Orphaned(w) ==
  {IF m.from = w THEN [m EXCEPT !.from = Nobody] ELSE m : m \in commands}

Awaits(w) == pc[w] \in {"user", "payment", "compensation"} /\ ~Replied(w)

\* The RPC timer of sendRpc: DOWNSTREAM_UNAVAILABLE, a 502.
TimeOut(w) ==
  /\ Awaits(w)
  /\ \/ Fault
     \/ (\A m \in commands : m.from # w) /\ UNCHANGED faults
  /\ commands' = Orphaned(w)
  /\ reply' = [reply EXCEPT ![w] = Unavailable]
  /\ UNCHANGED <<ledger, services, pc, key, snap, todo, answer, expired>>

\* locked_until passes under a worker that is still running.
LeaseExpires(w) ==
  /\ pc[w] # "idle"
  /\ w \notin expired
  /\ \E k \in Key : ledger[k].lockedBy = w
  /\ Fault
  /\ expired' = expired \cup {w}
  /\ UNCHANGED <<ledger, services, commands, worker>>

\* locked_until passes after the worker is gone.  No query tells a row locked
\* under an expired lease by an id nobody has from a row that is not locked.
AbandonedLeaseExpires(w) ==
  /\ pc[w] = "idle"
  /\ \E k \in Key : ledger[k].lockedBy = w
  /\ ledger' = [k \in Key |-> Released(ledger[k], w)]
  /\ UNCHANGED <<services, commands, worker, expired, faults>>

\* next_retry_at passes.
RetryFallsDue(k) ==
  /\ ~ledger[k].due
  /\ ledger' = [ledger EXCEPT ![k].due = TRUE]
  /\ UNCHANGED <<identity, intents, commands, worker, expired, faults>>

\* The process of w ends, or its database stays out of reach: the run is over
\* and what it locks stays locked.
Die(w) ==
  /\ pc[w] # "idle"
  /\ Fault
  /\ pc' = [pc EXCEPT ![w] = "idle"]
  /\ key' = [key EXCEPT ![w] = NoKey]
  /\ snap' = [snap EXCEPT ![w] = NoRows]
  /\ todo' = [todo EXCEPT ![w] = {}]
  /\ reply' = [reply EXCEPT ![w] = NoReply]
  /\ answer' = [answer EXCEPT ![w] = "none"]
  /\ commands' = Orphaned(w)
  /\ UNCHANGED <<ledger, services, expired>>

-------------------------------------------------------------------------------
Deliver(w) == \E k \in Key, p \in Payload :
  RejectReusedKey(w, k, p) \/ Acquire(w, k, p) \/ JoinWaiters(w, k, p)

\* What a worker does without waiting for anyone.
Run(w) ==
  \/ SendCreateUser(w) \/ SendPayment(w) \/ SendCompensation(w)
  \/ FinishUser(w) \/ FinishPayment(w) \/ FinishCompensation(w)
  \/ Complete(w) \/ Release(w) \/ Depart(w) \/ NextOfBatch(w) \/ EndPass(w)

Execute(m) == ExecuteCreate(m) \/ ExecutePayment(m) \/ ExecuteCompensate(m)

Next ==
  \/ \E w \in Caller : Deliver(w) \/ WaiterSeesSettled(w) \/ WaiterGivesUp(w)
  \/ \E w \in Recoverer : ClaimBatch(w)
  \/ \E w \in Worker : Run(w) \/ TimeOut(w) \/ Die(w)
                     \/ LeaseExpires(w) \/ AbandonedLeaseExpires(w)
  \/ \E m \in commands : Execute(m) \/ ServiceFails(m)
  \/ \E k \in Key : RetryFallsDue(k)

Spec == Init /\ [][Next]_vars

\* Processes run, queues are consumed, clocks advance and the recovery timer
\* fires for as long as an instance is up.  Nothing is assumed of callers.
Fairness ==
  /\ \A w \in Worker : /\ WF_vars(Run(w))
                       /\ WF_vars(TimeOut(w))
                       /\ WF_vars(AbandonedLeaseExpires(w))
  /\ \A w \in Recoverer : WF_vars(ClaimBatch(w))
  /\ \A op \in {"create", "pay", "compensate"}, k \in Key :
       WF_vars(\E m \in commands : m.op = op /\ m.key = k /\ Execute(m))
  /\ \A k \in Key : WF_vars(RetryFallsDue(k))

FairSpec == Spec /\ Fairness

-------------------------------------------------------------------------------
(* Properties. *)

TypeOK ==
  /\ ledger \in [Key -> Row]
  /\ identity \in Store
  /\ intents \in [Key -> Request]
  /\ commands \subseteq Command
  /\ pc \in [Worker -> Place]
  /\ key \in [Worker -> Key \cup {NoKey}]
  /\ snap \in [Worker -> [Key -> Row]]
  /\ todo \in [Worker -> SUBSET Key]
  /\ reply \in [Worker -> Reply]
  /\ answer \in [Worker -> Answer]
  /\ expired \subseteq Worker
  /\ faults \in 0..MaxFaults

\* The sagas a worker has claimed and not finished with.
Holding(w) ==
  IF pc[w] \in {"idle", "waiting", "answered"} THEN {}
  ELSE todo[w] \cup (IF pc[w] = "batch" THEN {} ELSE {key[w]})

IgnoringDue(row) == [row EXCEPT !.due = TRUE]

\* The worker named in locked_by acts on the row as it is, however old its
\* copy and whether or not its lease has run out: no transition is computed
\* from a row that another worker has changed since (transition() tests
\* locked_by and never locked_until nor the status).
HolderKnowsRow ==
  \A w \in Worker, k \in Key :
    ledger[k].lockedBy = w /\ pc[w] # "idle" =>
      /\ k \in Holding(w)
      /\ pc[w] # "release" \/ k # key[w] =>
           IgnoringDue(snap[w][k]) = IgnoringDue(ledger[k])

\* The data a step needs is in the snapshot when the step is dispatched: the
\* three errors "cannot create payment without a user snapshot", "cannot
\* compensate without a user snapshot" and "snapshot is incomplete", and the
\* SAGA_STATE_INVALID answer of the NOOP branch, are never reached.
SnapshotSuffices ==
  \A w \in Worker : pc[w] = "dispatch" =>
    /\ Saga(w).next # "NOOP"
    /\ Saga(w).next # "PROCESS_USER" => Saga(w).user # NoUser
    /\ Saga(w).next = "COMPLETE" => Saga(w).paid

\* A completed saga stands for one user that exists, created for this key, and
\* for one payment of that user; no compensation of it was ever executed and
\* none is on its way.
CompletedIsWhole ==
  \A k \in Key : ledger[k].status = "COMPLETED" =>
    LET u == ledger[k].user IN
    /\ ledger[k].response = u
    /\ u \in UserIds(identity)
    /\ identity.requests[k] = [payload |-> ledger[k].payload, user |-> u]
    /\ intents[k] = [payload |-> ledger[k].payload, user |-> u]
    /\ identity.receipts[k] = 0
    /\ \A m \in commands : m.key = k => m.op # "compensate"

\* Payment never collects for a user the saga removed: an intent names a user
\* that exists, and the one the ledger has for the key.
NoIntentWithoutUser ==
  \A k \in Key : intents[k] # NoRequest =>
    /\ intents[k].user \in UserIds(identity)
    /\ intents[k].user = ledger[k].user

\* A caller is told of success only about a saga whose completion is recorded,
\* also when its worker lost the row to another one on the way.
AnswerIsDurable ==
  \A w \in Caller : answer[w] \in {"created", "replayed"} =>
    ledger[key[w]].status = "COMPLETED"

\* A user is removed, or about to be, only for a saga that failed for good.
OnlyFailedIsCompensated ==
  \A k \in Key :
    \/ identity.receipts[k] # 0
    \/ \E m \in commands : m.op = "compensate" /\ m.key = k
    \/ \E w \in Worker : pc[w] = "compensation" /\ key[w] = k
    => IsTerminalFailure(ledger[k])

\* What AccountCreation knows of a saga and of a caller.
AccountOf(row) ==
  [phase |-> CASE row = AbsentRow -> "none"
               [] IsCompleted(row) -> "created"
               [] IsTerminalFailure(row) -> "refused"
               [] OTHER -> "open",
   payload |-> row.payload,
   user |-> IF IsCompleted(row) THEN row.response ELSE NoUser]

ToldOf(w) == IF answer[w] \in {"created", "replayed"} THEN key[w] ELSE NoKey

Promise == INSTANCE AccountCreation
  WITH Asker <- Caller,
       accounts <- [k \in Key |-> AccountOf(ledger[k])],
       told <- [w \in Caller |-> ToldOf(w)]

\* Sagas implement account creation: one user for a key, of the payload that
\* came first, none of its handles shared with another completed saga, outcomes
\* that stay, and no caller told of an account before it is completed, whatever
\* is retried, taken over, compensated or executed late.
KeepsPromise == Promise!Spec

\* The order of the statuses, whatever the workers and however stale their
\* snapshots; a settled row keeps its outcome for ever.
Forward == {<<"ABSENT", "STARTED">>, <<"STARTED", "USER_CREATED">>,
            <<"USER_CREATED", "PAYMENT_CREATED">>, <<"USER_CREATED", "FAILED">>,
            <<"FAILED", "PAYMENT_CREATED">>, <<"PAYMENT_CREATED", "COMPLETED">>}

StatusMovesForward ==
  [][\A k \in Key :
       /\ ledger'[k].status # ledger[k].status =>
            <<ledger[k].status, ledger'[k].status>> \in Forward
       /\ IsTerminalFailure(ledger[k]) =>
            [ledger'[k] EXCEPT !.lockedBy = Nobody] =
            [ledger[k] EXCEPT !.lockedBy = Nobody]
       /\ ledger[k].user # NoUser => ledger'[k].user = ledger[k].user]_vars

\* Every saga settles once the faults are over: recovery takes up what crashed
\* or timed-out workers left, after their leases and backoffs.  The one saga
\* that is retried for ever is that of a person another key has registered:
\* a refused user creation leaves the row as it was.
Settled(k) == IsCompleted(ledger[k]) \/ IsTerminalFailure(ledger[k])

Blocked(k) == /\ ledger[k] # AbsentRow
              /\ identity.requests[k] = NoRequest
              /\ Taken(identity, ledger[k].payload)

SagasSettle ==
  \A k \in Key : ledger[k].status = "STARTED" ~> Settled(k) \/ Blocked(k)

\* The caller of an account creation whose payment fails for good is answered
\* with the problem of the payment and not with an internal error (the unit
\* test "compensates the created user when payment creation fails permanently"
\* expects the ConflictException of the payment).
FailureIsAnswered == \A w \in Caller : answer[w] # "internal"

\* ADR 0001: "Permanent payment failure compensates the user", and "Partial
\* success is ... recoverable from persisted saga state".
FailedUserIsRemoved ==
  \A k \in Key : IsTerminalFailure(ledger[k]) ~>
                   ledger[k].user \notin UserIds(identity)
===============================================================================
