------------------------- MODULE OnboardingSagaProofs -------------------------
(***************************************************************************)
(* Theorems about OnboardingSaga, for every number of keys, payloads,      *)
(* workers and faults.                                                     *)
(***************************************************************************)
EXTENDS OnboardingSaga, TLAPS

USE DEF NoUser, Status, NextAction, Problem, Place, Answer

-------------------------------------------------------------------------------
(***************************************************************************)
(* The inductive invariant.  StatusMovesForward needs to know what row a   *)
(* worker that still locks it writes over: RowInv says which action goes   *)
(* with which status, LockInv that the holder's snapshot is the row,       *)
(* PlaceInv that the worker's place fits its snapshot, and that a worker   *)
(* about to compensate has lost its lock (markFailed clears it), RpcInv    *)
(* that the reply a worker sees is a reply to the command it waits for.    *)
(***************************************************************************)

RowOK(row) ==
  /\ row.status = "ABSENT" => row = AbsentRow
  /\ row.status # "ABSENT" => row.payload \in Payload
  /\ row.status \notin {"ABSENT", "STARTED"} => row.user # NoUser
  /\ row.status = "STARTED" => row.next = "PROCESS_USER" /\ row.user = NoUser
  /\ row.status = "USER_CREATED" => row.next = "PROCESS_PAYMENT"
  /\ row.status = "PAYMENT_CREATED" => row.next = "COMPLETE" /\ row.paid
  /\ row.status = "COMPLETED" => row.next = "NOOP" /\ row.response = row.user
  /\ row.status = "FAILED" /\ row.retryable => row.next = "PROCESS_PAYMENT"
  /\ row.status = "FAILED" /\ ~row.retryable =>
       row.next = "COMPENSATE_USER" /\ row.error = "permanent" /\ row.due
  /\ row.status # "COMPENSATED"

RowInv == \A k \in Key : RowOK(ledger[k])
                         /\ \A w \in Worker : RowOK(snap[w][k])

Running == {"dispatch", "user", "payment", "compensation"}

LockOK(w) ==
  \A k \in Key : ledger[k].lockedBy = w /\ pc[w] # "idle" =>
    /\ k \in Holding(w)
    /\ pc[w] # "release" \/ k # key[w] =>
         IgnoringDue(snap[w][k]) = IgnoringDue(ledger[k])

LockInv == \A w \in Worker : LockOK(w)

Startable(row) == /\ row.status # "ABSENT"
                  /\ ~IsCompleted(row)
                  /\ ~IsTerminalFailure(row)

PlaceOK(w) ==
  /\ pc[w] \notin {"idle", "batch"} => key[w] \in Key /\ key[w] \notin todo[w]
  /\ pc[w] \in {"idle", "waiting", "answered"} => todo[w] = {}
  /\ w \in Caller => todo[w] = {} /\ pc[w] # "batch"
  /\ \A k \in todo[w] : Startable(snap[w][k])
  /\ pc[w] \in Running =>
       /\ Saga(w).status \notin {"ABSENT", "COMPLETED"}
       /\ Saga(w).next = "COMPENSATE_USER" => ~Holds(w)
  /\ pc[w] = "user" => Saga(w).next = "PROCESS_USER"
  /\ pc[w] = "payment" => Saga(w).next = "PROCESS_PAYMENT"
  /\ pc[w] = "compensation" => Saga(w).next = "COMPENSATE_USER"

PlaceInv == \A w \in Worker : PlaceOK(w)

PlaceOf(op) == CASE op = "create" -> "user"
                 [] op = "pay" -> "payment"
                 [] op = "compensate" -> "compensation"

RpcInv ==
  /\ \A k \in Key : identity.requests[k] # NoRequest =>
                      identity.requests[k].user # NoUser
  /\ \A m \in commands : m.from # Nobody =>
       /\ pc[m.from] = PlaceOf(m.op)
       /\ reply[m.from].kind = "none"
       /\ \A n \in commands : n.from = m.from => n = m
  /\ \A w \in Worker : pc[w] = "user" /\ reply[w].kind = "ok" =>
                         reply[w].user # NoUser

IInv == TypeOK /\ RowInv /\ LockInv /\ PlaceInv /\ RpcInv

-------------------------------------------------------------------------------
(* What the operators of SagaLedger and IdentityStore return. *)

\* The row tryAcquire inserts is a row.
LEMMA FreshRowType ==
  ASSUME NEW p \in Payload PROVE FreshRow(p) \in Row
  BY DEF FreshRow, Row

\* So is the row that stands for no row.
LEMMA AbsentRowType == AbsentRow \in Row
  BY DEF AbsentRow, FreshRow, Row

\* Locking and releasing a row gives a row.
LEMMA LockedType ==
  ASSUME NEW row \in Row, NEW w \in Worker
  PROVE Locked(row, w) \in Row /\ Released(row, w) \in Row
  BY DEF Locked, Released, Row

\* The five transitions of the repository give rows.
LEMMA TransitionTypes ==
  ASSUME NEW row \in Row, NEW u \in Nat, NEW problem \in Problem
  PROVE /\ UserCreated(row, u) \in Row
        /\ PaymentCreated(row) \in Row
        /\ Completed(row, u) \in Row
        /\ Failed(row, problem) \in Row
        /\ Compensated(row, problem) \in Row
  <1>1. UserCreated(row, u) \in Row
    BY DEF UserCreated, Row
  <1>2. PaymentCreated(row) \in Row
    BY DEF PaymentCreated, Row
  <1>3. Completed(row, u) \in Row
    BY DEF Completed, Row
  <1>4. Failed(row, problem) \in Row
    BY DEF Failed, Row
  <1>5. Compensated(row, problem) \in Row
    BY DEF Compensated, Row
  <1>6. QED
    BY <1>1, <1>2, <1>3, <1>4, <1>5

\* The empty identity database has its type.
LEMMA EmptyStoreType == EmptyStore \in Store
  BY DEF EmptyStore, Store, Request, NoRequest

\* createUser gives a database and a reply.
LEMMA CreateUserType ==
  ASSUME NEW db \in Store, NEW k \in Key, NEW p \in Payload
  PROVE /\ CreateUser(db, k, p) \in Store
        /\ CreateReply(db, k, p) \in Reply
  <1>1. HandlesOf[p] \subseteq Handle
    BY DEF Handle
  <1>2. CreateUser(db, k, p) \in Store
    <2> DEFINE u == db.issued + 1
               usr == [id |-> u, handles |-> HandlesOf[p]]
               request == [payload |-> p, user |-> u]
    <2>1. CASE db.requests[k] # NoRequest \/ Taken(db, p)
      BY <2>1 DEF CreateUser
    <2>2. CASE ~(db.requests[k] # NoRequest \/ Taken(db, p))
      <3>1. CreateUser(db, k, p) =
              [users    |-> db.users \cup {usr},
               requests |-> [db.requests EXCEPT ![k] = request],
               receipts |-> db.receipts,
               issued   |-> u]
        BY <2>2 DEF CreateUser, Store
      <3>2. u \in Nat \ {0}
        BY DEF Store
      <3>3. usr \in User
        BY <1>1, <3>2 DEF User
      <3>4. request \in Request
        BY <3>2 DEF Request
      <3>5. /\ db.users \cup {usr} \in SUBSET User
            /\ [db.requests EXCEPT ![k] = request] \in [Key -> Request]
            /\ db.receipts \in [Key -> Nat]
            /\ u \in Nat
        BY <3>2, <3>3, <3>4 DEF Store
      <3>6. QED
        BY <3>1, <3>5 DEF Store
    <2>3. QED
      BY <2>1, <2>2
  <1>3. CreateReply(db, k, p) \in Reply
    BY DEF CreateReply, Store, Reply, Request, Ok, Refusal
  <1>4. QED
    BY <1>2, <1>3

\* compensateUser gives a database and a reply.
LEMMA CompensateUserType ==
  ASSUME NEW db \in Store, NEW k \in Key, NEW u \in Nat
  PROVE /\ CompensateUser(db, k, u) \in Store
        /\ CompensateReply(db, k, u) \in Reply
  BY DEF CompensateUser, CompensateReply, Store, User, Request, NoRequest,
         Reply, Ok, Refusal

-------------------------------------------------------------------------------
(* Type correctness. *)

\* The end of a run of executeStateMachine.
LEMMA EndType ==
  ASSUME pc \in [Worker -> Place], answer \in [Worker -> Answer],
         NEW w \in Worker, NEW a \in Answer, End(w, a)
  PROVE  pc' \in [Worker -> Place] /\ answer' \in [Worker -> Answer]
  BY DEF End

\* The head of executeStateMachine.
LEMMA StartType ==
  ASSUME TypeOK, NEW w \in Worker, NEW k \in Key, NEW row \in Row,
         Start(w, k, row)
  PROVE  /\ pc' \in [Worker -> Place]
         /\ key' \in [Worker -> Key \cup {NoKey}]
         /\ answer' \in [Worker -> Answer]
  <1> USE DEF TypeOK, Start
  <1>1. key' \in [Worker -> Key \cup {NoKey}]
    OBVIOUS
  <1>2. CASE IsCompleted(row)
    BY <1>1, <1>2, EndType
  <1>3. CASE ~IsCompleted(row) /\ IsTerminalFailure(row)
    <2>1. row.error \in Answer
      BY DEF Row
    <2>2. QED
      BY <1>1, <1>3, <2>1, EndType
  <1>4. CASE ~IsCompleted(row) /\ ~IsTerminalFailure(row)
    BY <1>1, <1>4
  <1>5. QED
    BY <1>2, <1>3, <1>4

\* One row is written, in the ledger and in the copy of a worker.
LEMMA WriteType ==
  ASSUME TypeOK, NEW w \in Worker, NEW k \in Key, NEW row \in Row
  PROVE  /\ [ledger EXCEPT ![k] = row] \in [Key -> Row]
         /\ [snap EXCEPT ![w][k] = row] \in [Worker -> [Key -> Row]]
  BY DEF TypeOK

\* A guarded write after which the loop goes on.
LEMMA TransitionType ==
  ASSUME TypeOK, NEW w \in Worker, key[w] \in Key, NEW row \in Row,
         Transition(w, row)
  PROVE  /\ ledger' \in [Key -> Row]
         /\ snap' \in [Worker -> [Key -> Row]]
         /\ pc' \in [Worker -> Place]
         /\ answer' \in [Worker -> Answer]
  <1>1. CASE Holds(w)
    <2>1. /\ ledger' = [ledger EXCEPT ![key[w]] = row]
          /\ snap' = [snap EXCEPT ![w][key[w]] = row]
          /\ pc' = [pc EXCEPT ![w] = "dispatch"]
          /\ answer' = answer
      BY <1>1 DEF Transition
    <2>2. ledger' \in [Key -> Row] /\ snap' \in [Worker -> [Key -> Row]]
      BY <2>1, WriteType
    <2>3. pc' \in [Worker -> Place] /\ answer' \in [Worker -> Answer]
      BY <2>1 DEF TypeOK
    <2>4. QED
      BY <2>2, <2>3
  <1>2. CASE ~Holds(w)
    <2>1. End(w, "internal") /\ ledger' = ledger /\ snap' = snap
      BY <1>2 DEF Transition
    <2>2. QED
      BY <2>1, EndType DEF TypeOK
  <1>3. QED
    BY <1>1, <1>2

\* A guarded write that ends the run.
LEMMA FinalTransitionType ==
  ASSUME TypeOK, NEW w \in Worker, key[w] \in Key, NEW row \in Row,
         NEW a \in Answer, FinalTransition(w, row, a)
  PROVE  /\ ledger' \in [Key -> Row]
         /\ snap' \in [Worker -> [Key -> Row]]
         /\ pc' \in [Worker -> Place]
         /\ answer' \in [Worker -> Answer]
  <1>1. CASE Holds(w)
    <2>1. /\ ledger' = [ledger EXCEPT ![key[w]] = row]
          /\ snap' = [snap EXCEPT ![w][key[w]] = row]
          /\ End(w, a)
      BY <1>1 DEF FinalTransition
    <2>2. ledger' \in [Key -> Row] /\ snap' \in [Worker -> [Key -> Row]]
      BY <2>1, WriteType
    <2>3. pc' \in [Worker -> Place] /\ answer' \in [Worker -> Answer]
      BY <2>1, EndType DEF TypeOK
    <2>4. QED
      BY <2>2, <2>3
  <1>2. CASE ~Holds(w)
    <2>1. End(w, "internal") /\ ledger' = ledger /\ snap' = snap
      BY <1>2 DEF FinalTransition
    <2>2. QED
      BY <2>1, EndType DEF TypeOK
  <1>3. QED
    BY <1>1, <1>2

\* A command is sent.
LEMMA SendType ==
  ASSUME TypeOK, NEW w \in Worker, key[w] \in Key,
         snap[w][key[w]].payload \in Payload,
         NEW op \in {"create", "pay", "compensate"}, NEW place \in Place,
         Send(w, op, place)
  PROVE  TypeOK'
  <1>1. [op |-> op, key |-> key[w], payload |-> Saga(w).payload,
         user |-> Saga(w).user, from |-> w] \in Command
    <2>1. snap[w][key[w]] \in Row
      BY DEF TypeOK
    <2>2. snap[w][key[w]].user \in Nat
      BY <2>1 DEF Row
    <2>3. QED
      BY <2>2 DEF Command, Saga
  <1>2. commands' \subseteq Command
    BY <1>1 DEF TypeOK, Send
  <1>3. NoReply \in Reply
    BY DEF NoReply, Reply
  <1>4. reply' \in [Worker -> Reply] /\ pc' \in [Worker -> Place]
    BY <1>3 DEF TypeOK, Send
  <1>5. QED
    BY <1>2, <1>4 DEF TypeOK, Send, services

\* The count of faults stays within its bound.
LEMMA FaultType ==
  ASSUME faults \in 0..MaxFaults, Fault \/ UNCHANGED faults
  PROVE  faults' \in 0..MaxFaults
  <1>1. MaxFaults \in Nat
    BY BoundsAreNatural
  <1>2. QED
    BY <1>1 DEF Fault

\* A service answers a command, with or without a redelivery.
LEMMA RespondType ==
  ASSUME TypeOK, NEW m \in commands, NEW r \in Reply, Respond(m, r)
  PROVE  /\ commands' \subseteq Command
         /\ reply' \in [Worker -> Reply]
         /\ faults' \in 0..MaxFaults
  <1>1. m \in Command
    BY DEF TypeOK
  <1>2. [m EXCEPT !.from = Nobody] \in Command
    BY <1>1 DEF Command
  <1>3. m.from # Nobody => m.from \in Worker
    BY <1>1 DEF Command
  <1>4. commands' \subseteq Command
    BY <1>2 DEF TypeOK, Respond
  <1>5. reply' \in [Worker -> Reply]
    BY <1>3 DEF TypeOK, Respond
  <1>6. faults' \in 0..MaxFaults
    BY FaultType DEF TypeOK, Respond
  <1>7. QED
    BY <1>4, <1>5, <1>6

\* Commands whose sender has gone are still commands.
LEMMA OrphanedType ==
  ASSUME TypeOK, NEW w \in Worker
  PROVE  Orphaned(w) \subseteq Command
  <1>1. \A m \in commands : m \in Command /\ [m EXCEPT !.from = Nobody] \in Command
    BY DEF TypeOK, Command
  <1>2. QED
    BY <1>1 DEF Orphaned

\* The null values have the types of the values they stand for.
LEMMA NullTypes ==
  /\ NoReply \in Reply /\ Unavailable \in Reply /\ Refusal \in Reply
  /\ \A u \in Nat : Ok(u) \in Reply
  /\ NoRequest \in Request
  /\ NoRows \in [Key -> Row]
  BY AbsentRowType DEF NoReply, Unavailable, Refusal, Ok, Reply, NoRequest,
                       Request, NoRows

\* The initial states are well typed.
LEMMA TypeInit == Init => TypeOK
  BY NullTypes, EmptyStoreType, BoundsAreNatural DEF Init, TypeOK

\* What the deliveries and the recovery passes leave well typed.
LEMMA TypeStepWorker ==
  ASSUME TypeOK, RowInv, PlaceInv, NEW w \in Worker,
         Deliver(w) \/ WaiterSeesSettled(w) \/ WaiterGivesUp(w) \/ ClaimBatch(w)
         \/ NextOfBatch(w) \/ EndPass(w) \/ Depart(w)
  PROVE  TypeOK'
  <1>1. ASSUME NEW k \in Key, NEW p \in Payload, RejectReusedKey(w, k, p)
        PROVE  TypeOK'
    BY <1>1 DEF TypeOK, RejectReusedKey, services
  <1>2. ASSUME NEW k \in Key, NEW p \in Payload, Acquire(w, k, p)
        PROVE  TypeOK'
    <2> DEFINE row == Arrived(k, p)
    <2>1. row \in Row /\ Locked(row, w) \in Row
      BY FreshRowType, LockedType DEF TypeOK, Arrived
    <2>2. /\ pc' \in [Worker -> Place]
          /\ key' \in [Worker -> Key \cup {NoKey}]
          /\ answer' \in [Worker -> Answer]
      BY <1>2, <2>1, StartType DEF Acquire
    <2>3. ledger' \in [Key -> Row] /\ snap' \in [Worker -> [Key -> Row]]
      BY <1>2, <2>1, WriteType DEF Acquire
    <2>4. QED
      BY <1>2, <2>2, <2>3 DEF TypeOK, Acquire, services
  <1>3. ASSUME NEW k \in Key, NEW p \in Payload, JoinWaiters(w, k, p)
        PROVE  TypeOK'
    BY <1>3 DEF TypeOK, JoinWaiters, services
  <1>4. CASE WaiterSeesSettled(w)
    <2>1. key[w] \in Key
      BY <1>4 DEF PlaceInv, PlaceOK, WaiterSeesSettled
    <2>2. ledger[key[w]].error \in Answer
      BY <2>1 DEF TypeOK, Row
    <2>3. QED
      BY <1>4, <2>2 DEF TypeOK, WaiterSeesSettled, services
  <1>5. CASE WaiterGivesUp(w)
    BY <1>5 DEF TypeOK, WaiterGivesUp, services
  <1>6. CASE ClaimBatch(w)
    <2>1. PICK batch \in SUBSET Key :
            /\ ledger' = [k \in Key |-> IF k \in batch THEN Locked(ledger[k], w)
                                                       ELSE ledger[k]]
            /\ snap' = [snap EXCEPT ![w] = [k \in Key |-> IF k \in batch
                                               THEN Locked(ledger[k], w)
                                               ELSE AbsentRow]]
            /\ todo' = [todo EXCEPT ![w] = batch]
      BY <1>6 DEF ClaimBatch
    <2>2. \A k \in Key : Locked(ledger[k], w) \in Row
      BY LockedType DEF TypeOK
    <2>3. /\ ledger' \in [Key -> Row]
          /\ snap' \in [Worker -> [Key -> Row]]
          /\ todo' \in [Worker -> SUBSET Key]
      BY <2>1, <2>2, AbsentRowType DEF TypeOK
    <2>4. QED
      BY <1>6, <2>3 DEF TypeOK, ClaimBatch, services
  <1>7. CASE NextOfBatch(w)
    <2>1. PICK k \in todo[w] : /\ Start(w, k, snap[w][k])
                               /\ todo' = [todo EXCEPT ![w] = @ \ {k}]
      BY <1>7 DEF NextOfBatch
    <2>2. k \in Key /\ snap[w][k] \in Row
      BY <2>1 DEF TypeOK
    <2>3. /\ pc' \in [Worker -> Place]
          /\ key' \in [Worker -> Key \cup {NoKey}]
          /\ answer' \in [Worker -> Answer]
      BY <2>1, <2>2, StartType
    <2>4. QED
      BY <1>7, <2>1, <2>3 DEF TypeOK, NextOfBatch, services
  <1>8. CASE EndPass(w)
    BY <1>8 DEF TypeOK, EndPass, services
  <1>9. CASE Depart(w)
    BY <1>9 DEF TypeOK, Depart, services
  <1>10. QED
    BY <1>1, <1>2, <1>3, <1>4, <1>5, <1>6, <1>7, <1>8, <1>9 DEF Deliver

\* A worker that runs has a key and, from its snapshot, a payload.
LEMMA RunningHasKey ==
  ASSUME TypeOK, RowInv, PlaceInv, NEW w \in Worker, pc[w] \in Running
  PROVE  /\ key[w] \in Key
         /\ Saga(w) \in Row /\ RowOK(Saga(w))
         /\ Saga(w).status \notin {"ABSENT", "COMPLETED"}
         /\ Saga(w).payload \in Payload
  <1>1. key[w] \in Key /\ Saga(w).status \notin {"ABSENT", "COMPLETED"}
    BY DEF PlaceInv, PlaceOK, Running
  <1>2. Saga(w) \in Row
    BY <1>1 DEF TypeOK, Saga
  <1>3. RowOK(Saga(w))
    BY <1>1 DEF RowInv, Saga
  <1>4. Saga(w).payload \in Payload
    BY <1>1, <1>2, <1>3 DEF RowOK, Row
  <1>5. QED
    BY <1>1, <1>2, <1>3, <1>4

\* What the loop of executeStateMachine leaves well typed.
LEMMA TypeStepRun ==
  ASSUME TypeOK, RowInv, PlaceInv, NEW w \in Worker,
         SendCreateUser(w) \/ SendPayment(w) \/ SendCompensation(w)
         \/ FinishUser(w) \/ FinishPayment(w) \/ FinishCompensation(w)
         \/ Complete(w) \/ Release(w)
  PROVE  TypeOK'
  <1>1. CASE SendCreateUser(w) \/ SendPayment(w) \/ SendCompensation(w)
    <2>1. pc[w] \in Running
      BY <1>1 DEF SendCreateUser, SendPayment, SendCompensation, Dispatches,
                  Running
    <2>2. key[w] \in Key /\ snap[w][key[w]].payload \in Payload
      BY <2>1, RunningHasKey DEF Saga
    <2>3. CASE SendCreateUser(w)
      BY <2>2, <2>3, SendType DEF SendCreateUser
    <2>4. CASE SendPayment(w)
      BY <2>2, <2>4, SendType DEF SendPayment
    <2>5. CASE SendCompensation(w)
      BY <2>2, <2>5, SendType DEF SendCompensation
    <2>6. QED
      BY <1>1, <2>3, <2>4, <2>5
  <1>2. ASSUME pc[w] \in Running
        PROVE  /\ key[w] \in Key
               /\ ledger[key[w]] \in Row
               /\ Saga(w) \in Row
               /\ reply[w] \in Reply
               /\ [reply EXCEPT ![w] = NoReply] \in [Worker -> Reply]
    BY <1>2, RunningHasKey, NullTypes DEF TypeOK
  <1>3. CASE FinishUser(w)
    <2>1. pc[w] \in Running
      BY <1>3 DEF FinishUser, At, Running
    <2>2. /\ ledger' \in [Key -> Row]
          /\ snap' \in [Worker -> [Key -> Row]]
          /\ pc' \in [Worker -> Place]
          /\ answer' \in [Worker -> Answer]
      <3>1. CASE reply[w].kind = "ok"
        <4>1. reply[w].user \in Nat
          BY <1>2, <2>1 DEF Reply
        <4>2. UserCreated(ledger[key[w]], reply[w].user) \in Row
          BY <4>1, <1>2, <2>1, TransitionTypes
        <4>3. QED
          BY <3>1, <4>2, <1>2, <1>3, <2>1, TransitionType DEF FinishUser
      <3>2. CASE reply[w].kind # "ok"
        <4>1. reply[w].kind \in Answer
          BY <1>2, <2>1, <3>2 DEF Reply
        <4>2. End(w, reply[w].kind) /\ UNCHANGED <<ledger, snap>>
          BY <1>3, <3>2 DEF FinishUser
        <4>3. QED
          BY <4>1, <4>2, EndType DEF TypeOK
      <3>3. QED
        BY <3>1, <3>2
    <2>3. QED
      BY <1>2, <1>3, <2>1, <2>2 DEF TypeOK, FinishUser, services
  <1>4. CASE FinishPayment(w)
    <2>1. pc[w] \in Running
      BY <1>4 DEF FinishPayment, At, Running
    <2>2. CASE reply[w].kind = "ok"
      <3>1. PaymentCreated(ledger[key[w]]) \in Row
        BY <1>2, <2>1, TransitionTypes
      <3>2. QED
        BY <1>2, <1>4, <2>1, <2>2, <3>1, TransitionType
           DEF TypeOK, FinishPayment, services
    <2>3. CASE reply[w].kind # "ok"
      <3>1. reply[w].kind \in Problem
        BY <1>2, <2>1, <2>3 DEF Reply
      <3>2. Failed(ledger[key[w]], reply[w].kind) \in Row
        BY <1>2, <2>1, <3>1, TransitionTypes
      <3>3. QED
        BY <1>2, <1>4, <2>1, <2>3, <3>2, TransitionType
           DEF TypeOK, FinishPayment, services
    <2>4. QED
      BY <2>2, <2>3
  <1>5. CASE FinishCompensation(w)
    <2>1. pc[w] \in Running
      BY <1>5 DEF FinishCompensation, At, Running
    <2>2. /\ ledger' \in [Key -> Row]
          /\ snap' \in [Worker -> [Key -> Row]]
          /\ pc' \in [Worker -> Place]
          /\ answer' \in [Worker -> Answer]
      <3>1. CASE reply[w].kind = "ok"
        <4> DEFINE problem == IF Saga(w).error = "none" THEN "transient"
                                                        ELSE Saga(w).error
        <4>1. problem \in Problem /\ problem \in Answer
          BY <1>2, <2>1 DEF Row
        <4>2. Compensated(ledger[key[w]], problem) \in Row
          BY <4>1, <1>2, <2>1, TransitionTypes
        <4>3. FinalTransition(w, Compensated(ledger[key[w]], problem), problem)
          BY <3>1, <1>5 DEF FinishCompensation
        <4> HIDE DEF problem
        <4>4. QED
          BY <4>1, <4>2, <4>3, <1>2, <2>1, FinalTransitionType
      <3>2. CASE reply[w].kind # "ok"
        <4>1. reply[w].kind \in Answer
          BY <1>2, <2>1, <3>2 DEF Reply
        <4>2. End(w, reply[w].kind) /\ UNCHANGED <<ledger, snap>>
          BY <1>5, <3>2 DEF FinishCompensation
        <4>3. QED
          BY <4>1, <4>2, EndType DEF TypeOK
      <3>3. QED
        BY <3>1, <3>2
    <2>3. QED
      BY <1>2, <1>5, <2>1, <2>2 DEF TypeOK, FinishCompensation, services
  <1>6. CASE Complete(w)
    <2>1. pc[w] \in Running
      BY <1>6 DEF Complete, Dispatches, Running
    <2>2. Saga(w).user \in Nat
      BY <1>2, <2>1 DEF Row
    <2>3. Completed(ledger[key[w]], Saga(w).user) \in Row
      BY <1>2, <2>1, <2>2, TransitionTypes
    <2>4. /\ ledger' \in [Key -> Row]
          /\ snap' \in [Worker -> [Key -> Row]]
          /\ pc' \in [Worker -> Place]
          /\ answer' \in [Worker -> Answer]
      BY <1>2, <1>6, <2>1, <2>3, FinalTransitionType DEF Complete
    <2>5. QED
      BY <1>6, <2>4 DEF TypeOK, Complete, services
  <1>7. CASE Release(w)
    <2>1. key[w] \in Key
      BY <1>7 DEF Release, At, PlaceInv, PlaceOK
    <2>2. ledger' = [ledger EXCEPT ![key[w]] = Released(ledger[key[w]], w)]
      BY <1>7 DEF Release
    <2>3. Released(ledger[key[w]], w) \in Row
      BY <2>1, LockedType DEF TypeOK
    <2>4. ledger' \in [Key -> Row] /\ snap' \in [Worker -> [Key -> Row]]
      BY <1>7, <2>1, <2>2, <2>3, WriteType, AbsentRowType DEF Release
    <2>5. /\ pc' \in [Worker -> Place]
          /\ key' \in [Worker -> Key \cup {NoKey}]
          /\ answer' \in [Worker -> Answer]
      BY <1>7 DEF TypeOK, Release
    <2>6. QED
      BY <1>7, <2>4, <2>5 DEF TypeOK, Release, services
  <1>8. QED
    BY <1>1, <1>3, <1>4, <1>5, <1>6, <1>7

\* What the identity and payment services leave well typed.
LEMMA TypeStepService ==
  ASSUME TypeOK, NEW m \in commands, Execute(m) \/ ServiceFails(m)
  PROVE  TypeOK'
  <1>1. /\ m.key \in Key /\ m.payload \in Payload /\ m.user \in Nat
        /\ m.from # Nobody => m.from \in Worker
    BY DEF TypeOK, Command
  <1>2. CASE ExecuteCreate(m)
    <2>1. identity' \in Store /\ CreateReply(identity, m.key, m.payload) \in Reply
      BY <1>1, <1>2, CreateUserType DEF TypeOK, ExecuteCreate
    <2>2. QED
      BY <1>2, <2>1, RespondType DEF TypeOK, ExecuteCreate
  <1>3. CASE ExecuteCompensate(m)
    <2>1. /\ identity' \in Store
          /\ CompensateReply(identity, m.key, m.user) \in Reply
      BY <1>1, <1>3, CompensateUserType DEF TypeOK, ExecuteCompensate
    <2>2. QED
      BY <1>3, <2>1, RespondType DEF TypeOK, ExecuteCompensate
  <1>4. CASE ExecutePayment(m)
    <2>1. [payload |-> m.payload, user |-> m.user] \in Request
      BY <1>1 DEF Request
    <2>2. intents' \in [Key -> Request]
      BY <1>1, <1>4, <2>1 DEF TypeOK, ExecutePayment
    <2>3. Ok(m.user) \in Reply /\ Refusal \in Reply
      BY <1>1, NullTypes
    <2>4. PICK r \in Reply : Respond(m, r)
      BY <1>4, <2>3 DEF ExecutePayment
    <2>5. QED
      BY <1>4, <2>2, <2>4, RespondType DEF TypeOK, ExecutePayment
  <1>5. CASE ServiceFails(m)
    <2>1. reply' \in [Worker -> Reply]
      BY <1>1, <1>5, NullTypes DEF TypeOK, ServiceFails
    <2>2. faults' \in 0..MaxFaults
      BY <1>5, FaultType DEF TypeOK, ServiceFails
    <2>3. QED
      BY <1>5, <2>1, <2>2 DEF TypeOK, ServiceFails, services
  <1>6. QED
    BY <1>2, <1>3, <1>4, <1>5 DEF Execute

\* What timeouts, leases and deaths leave well typed.
LEMMA TypeStepFault ==
  ASSUME TypeOK, NEW w \in Worker,
         TimeOut(w) \/ LeaseExpires(w) \/ AbandonedLeaseExpires(w) \/ Die(w)
  PROVE  TypeOK'
  <1>1. CASE TimeOut(w)
    <2>1. commands' \subseteq Command /\ reply' \in [Worker -> Reply]
      BY <1>1, OrphanedType, NullTypes DEF TypeOK, TimeOut
    <2>2. faults' \in 0..MaxFaults
      BY <1>1, FaultType DEF TypeOK, TimeOut
    <2>3. QED
      BY <1>1, <2>1, <2>2 DEF TypeOK, TimeOut, services
  <1>2. CASE LeaseExpires(w)
    <2>1. faults' \in 0..MaxFaults
      BY <1>2, FaultType DEF TypeOK, LeaseExpires
    <2>2. QED
      BY <1>2, <2>1 DEF TypeOK, LeaseExpires, services, worker
  <1>3. CASE AbandonedLeaseExpires(w)
    <2>1. ledger' \in [Key -> Row]
      BY <1>3, LockedType DEF TypeOK, AbandonedLeaseExpires
    <2>2. QED
      BY <1>3, <2>1 DEF TypeOK, AbandonedLeaseExpires, services, worker
  <1>4. CASE Die(w)
    <2>1. faults' \in 0..MaxFaults
      BY <1>4, FaultType DEF TypeOK, Die
    <2>2. /\ commands' \subseteq Command
          /\ snap' \in [Worker -> [Key -> Row]]
          /\ reply' \in [Worker -> Reply]
      BY <1>4, OrphanedType, NullTypes DEF TypeOK, Die
    <2>3. QED
      BY <1>4, <2>1, <2>2 DEF TypeOK, Die, services
  <1>5. QED
    BY <1>1, <1>2, <1>3, <1>4

\* Every step leaves the state well typed.
LEMMA TypeStep ==
  ASSUME TypeOK, RowInv, PlaceInv, [Next]_vars
  PROVE  TypeOK'
  <1>1. ASSUME NEW w \in Worker, Run(w)
        PROVE  TypeOK'
    BY <1>1, TypeStepRun, TypeStepWorker DEF Run
  <1>2. ASSUME NEW k \in Key, RetryFallsDue(k)
        PROVE  TypeOK'
    <2> ledger[k] \in Row
      BY DEF TypeOK
    <2>1. [ledger[k] EXCEPT !.due = TRUE] \in Row
      BY DEF Row
    <2>2. ledger' \in [Key -> Row]
      BY <1>2, <2>1 DEF TypeOK, RetryFallsDue
    <2>3. QED
      BY <1>2, <2>2 DEF TypeOK, RetryFallsDue, worker
  <1>3. CASE UNCHANGED vars
    BY <1>3 DEF TypeOK, vars
  <1>4. QED
    BY <1>1, <1>2, <1>3, WorkersAreTwoKinds, TypeStepWorker, TypeStepService,
       TypeStepFault DEF Next

-------------------------------------------------------------------------------
(* The rows. *)

\* The fields of the row that stands for no row.
LEMMA AbsentRowFields ==
  /\ AbsentRow.status = "ABSENT" /\ AbsentRow.next = "PROCESS_USER"
  /\ AbsentRow.lockedBy = Nobody /\ AbsentRow.due = TRUE
  /\ AbsentRow.user = NoUser /\ AbsentRow.payload = NoPayload
  BY DEF AbsentRow, FreshRow

\* The action of a sound row determines its status, and the transition of
\* that action gives a sound row.
LEMMA RowOKTransitions ==
  ASSUME NEW row \in Row, RowOK(row), NEW u \in Nat \ {NoUser}
  PROVE  /\ row.next = "PROCESS_USER" /\ row.status # "ABSENT" =>
              RowOK(UserCreated(row, u)) /\ row.status = "STARTED"
         /\ row.next = "PROCESS_PAYMENT" =>
              /\ row.status \in {"USER_CREATED", "FAILED"}
              /\ row.status = "FAILED" => row.retryable
              /\ RowOK(PaymentCreated(row))
              /\ RowOK(Failed(row, "permanent"))
              /\ RowOK(Failed(row, "transient"))
         /\ row.next = "COMPLETE" =>
              RowOK(Completed(row, row.user)) /\ row.status = "PAYMENT_CREATED"
  <1>1. CASE row.next = "PROCESS_USER" /\ row.status # "ABSENT"
    <2>1. row.status = "STARTED"
      BY <1>1 DEF RowOK, Row
    <2>2. RowOK(UserCreated(row, u))
      BY <2>1 DEF RowOK, Row, UserCreated
    <2>3. QED
      BY <1>1, <2>1, <2>2
  <1>2. CASE row.next = "PROCESS_PAYMENT"
    <2>1. row.status \in {"USER_CREATED", "FAILED"}
      BY <1>2, AbsentRowFields DEF RowOK, Row
    <2>2. row.status = "FAILED" => row.retryable
      BY <1>2 DEF RowOK
    <2>3. RowOK(PaymentCreated(row))
      BY <2>1 DEF RowOK, Row, PaymentCreated
    <2>4. RowOK(Failed(row, "permanent")) /\ RowOK(Failed(row, "transient"))
      BY <2>1 DEF RowOK, Row, Failed
    <2>5. QED
      BY <1>2, <2>1, <2>2, <2>3, <2>4
  <1>3. CASE row.next = "COMPLETE"
    <2>1. row.status = "PAYMENT_CREATED"
      BY <1>3, AbsentRowFields DEF RowOK, Row
    <2>2. RowOK(Completed(row, row.user))
      BY <2>1 DEF RowOK, Row, Completed
    <2>3. QED
      BY <1>3, <2>1, <2>2
  <1>4. QED
    BY <1>1, <1>2, <1>3

\* Locks and backoffs do not change whether a row is sound.
LEMMA RowOKLocks ==
  ASSUME NEW row \in Row, RowOK(row), NEW w \in Worker
  PROVE  /\ row.status # "ABSENT" => RowOK(Locked(row, w))
         /\ RowOK(Released(row, w))
         /\ RowOK([row EXCEPT !.due = TRUE])
  <1>1. row.status # "ABSENT" => /\ RowOK(Locked(row, w))
                                 /\ RowOK(Released(row, w))
                                 /\ RowOK([row EXCEPT !.due = TRUE])
    BY DEF RowOK, Row, Locked, Released
  <1>2. CASE row.status = "ABSENT"
    <2>1. row = AbsentRow
      BY <1>2 DEF RowOK
    <2>2. Released(row, w) = row
      BY <2>1, AbsentRowFields, NullsAreNotValues DEF Released
    <2>3. [row EXCEPT !.due = TRUE] = row
      BY <2>1, AbsentRowFields DEF Row
    <2>4. QED
      BY <1>2, <2>2, <2>3
  <1>3. QED
    BY <1>1, <1>2

-------------------------------------------------------------------------------
(* What one step does to one row. *)

RowStep(old, new) ==
  /\ RowOK(new)
  /\ new.status # old.status => <<old.status, new.status>> \in Forward
  /\ IsTerminalFailure(old) => [new EXCEPT !.lockedBy = Nobody] =
                               [old EXCEPT !.lockedBy = Nobody]
  /\ old.user # NoUser => new.user = old.user

\* Locks and backoffs are allowed steps of a row.
LEMMA RowStepLocks ==
  ASSUME NEW row \in Row, RowOK(row), NEW w \in Worker, NEW p \in Payload
  PROVE  /\ RowStep(row, row)
         /\ row.status # "ABSENT" => RowStep(row, Locked(row, w))
         /\ RowStep(row, Released(row, w))
         /\ RowStep(row, [row EXCEPT !.due = TRUE])
         /\ row = AbsentRow => RowStep(row, Locked(FreshRow(p), w))
  <1>1. RowStep(row, row)
    BY DEF RowStep
  <1>2. row.status # "ABSENT" => RowStep(row, Locked(row, w))
    BY RowOKLocks DEF RowStep, Locked, Row
  <1>3. RowStep(row, Released(row, w))
    BY RowOKLocks DEF RowStep, Released, Row
  <1>4. RowStep(row, [row EXCEPT !.due = TRUE])
    <2>1. IsTerminalFailure(row) => row.due = TRUE
      BY DEF IsTerminalFailure, RowOK, Row
    <2>2. RowOK([row EXCEPT !.due = TRUE])
      BY RowOKLocks
    <2>3. QED
      BY <2>1, <2>2 DEF RowStep, Row
  <1>5. row = AbsentRow => RowStep(row, Locked(FreshRow(p), w))
    <2>1. RowOK(Locked(FreshRow(p), w))
      BY DEF RowOK, Locked, FreshRow
    <2>2. Locked(FreshRow(p), w).status = "STARTED"
      BY DEF Locked, FreshRow
    <2>3. QED
      BY <2>1, <2>2, AbsentRowFields DEF RowStep, Forward, IsTerminalFailure
  <1>6. QED
    BY <1>1, <1>2, <1>3, <1>4, <1>5

\* So are the transitions, from rows with their action.
LEMMA RowStepTransitions ==
  ASSUME NEW row \in Row, RowOK(row), row.status # "ABSENT",
         NEW u \in Nat \ {NoUser}
  PROVE  /\ row.next = "PROCESS_USER" => RowStep(row, UserCreated(row, u))
         /\ row.next = "PROCESS_PAYMENT" =>
              /\ RowStep(row, PaymentCreated(row))
              /\ RowStep(row, Failed(row, "permanent"))
              /\ RowStep(row, Failed(row, "transient"))
         /\ row.next = "COMPLETE" => RowStep(row, Completed(row, row.user))
  <1>1. CASE row.next = "PROCESS_USER"
    <2>1. row.status = "STARTED" /\ RowOK(UserCreated(row, u))
      BY <1>1, RowOKTransitions
    <2>2. row.user = NoUser
      BY <2>1 DEF RowOK
    <2>3. UserCreated(row, u).status = "USER_CREATED"
      BY DEF UserCreated, Row
    <2>4. QED
      BY <1>1, <2>1, <2>2, <2>3 DEF RowStep, Forward, IsTerminalFailure
  <1>2. CASE row.next = "PROCESS_PAYMENT"
    <2>1. /\ row.status \in {"USER_CREATED", "FAILED"}
          /\ row.status = "FAILED" => row.retryable
      BY <1>2, RowOKTransitions
    <2>2. ~IsTerminalFailure(row)
      BY <2>1 DEF IsTerminalFailure
    <2>3. /\ RowOK(PaymentCreated(row))
          /\ RowOK(Failed(row, "permanent")) /\ RowOK(Failed(row, "transient"))
      BY <1>2, RowOKTransitions
    <2>4. /\ PaymentCreated(row).status = "PAYMENT_CREATED"
          /\ PaymentCreated(row).user = row.user
      BY DEF PaymentCreated, Row
    <2>5. /\ Failed(row, "permanent").status = "FAILED"
          /\ Failed(row, "permanent").user = row.user
          /\ Failed(row, "transient").status = "FAILED"
          /\ Failed(row, "transient").user = row.user
      BY DEF Failed, Row
    <2>6. QED
      BY <1>2, <2>1, <2>2, <2>3, <2>4, <2>5 DEF RowStep, Forward
  <1>3. CASE row.next = "COMPLETE"
    <2>1. row.status = "PAYMENT_CREATED" /\ RowOK(Completed(row, row.user))
      BY <1>3, RowOKTransitions
    <2>2. /\ Completed(row, row.user).status = "COMPLETED"
          /\ Completed(row, row.user).user = row.user
      BY DEF Completed, Row
    <2>3. QED
      BY <1>3, <2>1, <2>2 DEF RowStep, Forward, IsTerminalFailure
  <1>4. QED
    BY <1>1, <1>2, <1>3

\* A running worker that still locks its saga has an accurate copy of it.
LEMMA HolderSees ==
  ASSUME IInv, NEW w \in Worker, pc[w] \in Running, Holds(w)
  PROVE  /\ ledger[key[w]] \in Row /\ RowOK(ledger[key[w]])
         /\ ledger[key[w]].status # "ABSENT"
         /\ ledger[key[w]].next = Saga(w).next
         /\ ledger[key[w]].user = Saga(w).user
         /\ ledger[key[w]].status = Saga(w).status
         /\ ledger[key[w]].payload = Saga(w).payload
  <1>1. key[w] \in Key
    BY RunningHasKey DEF IInv
  <1>2. ledger[key[w]] \in Row /\ Saga(w) \in Row /\ RowOK(ledger[key[w]])
    BY <1>1 DEF IInv, TypeOK, RowInv, Saga
  <1>3. IgnoringDue(Saga(w)) = IgnoringDue(ledger[key[w]])
    BY <1>1 DEF IInv, LockInv, LockOK, Holds, Running, Saga
  <1>4. /\ ledger[key[w]].next = Saga(w).next
        /\ ledger[key[w]].user = Saga(w).user
        /\ ledger[key[w]].status = Saga(w).status
        /\ ledger[key[w]].payload = Saga(w).payload
    BY <1>2, <1>3 DEF IgnoringDue, Row
  <1>5. ledger[key[w]].status # "ABSENT"
    BY <1>2, AbsentRowFields, NullsAreNotValues DEF RowOK, Holds
  <1>6. QED
    BY <1>1, <1>2, <1>4, <1>5

StepOK == \A k \in Key :
  /\ RowStep(ledger[k], ledger'[k])
  /\ \A w \in Worker : snap'[w][k] \in {snap[w][k], AbsentRow, ledger'[k]}

\* A step that writes no row.
LEMMA StepSame ==
  ASSUME TypeOK, RowInv, ledger' = ledger, snap' = snap
  PROVE  StepOK
  <1>1. \A k \in Key : ledger[k] \in Row /\ RowOK(ledger[k])
    BY DEF TypeOK, RowInv
  <1>2. \A k \in Key : RowStep(ledger[k], ledger[k])
    BY <1>1 DEF RowStep
  <1>3. QED
    BY <1>2 DEF StepOK

\* A step in which one worker writes one row.
LEMMA StepWrite ==
  ASSUME TypeOK, RowInv, NEW w \in Worker, NEW j \in Key, NEW row,
         RowStep(ledger[j], row),
         ledger' = [ledger EXCEPT ![j] = row],
         snap' = [snap EXCEPT ![w][j] = row]
         \/ snap' = [snap EXCEPT ![w][j] = AbsentRow]
  PROVE  StepOK
  <1>1. \A k \in Key : ledger[k] \in Row /\ RowOK(ledger[k])
    BY DEF TypeOK, RowInv
  <1>2. \A k \in Key : RowStep(ledger[k], ledger[k])
    BY <1>1 DEF RowStep
  <1>3. \A k \in Key : RowStep(ledger[k], ledger'[k])
    BY <1>2 DEF TypeOK
  <1>4. ledger'[j] = row
    BY DEF TypeOK
  <1>5. \A v \in Worker, k \in Key :
           snap'[v][k] \in {snap[v][k], AbsentRow, ledger'[k]}
    <2>1. ASSUME NEW r, snap' = [snap EXCEPT ![w][j] = r],
                 NEW v \in Worker, NEW k \in Key
          PROVE  snap'[v][k] = snap[v][k] \/ (k = j /\ snap'[v][k] = r)
      BY <2>1 DEF TypeOK
    <2>2. QED
      BY <1>4, <2>1
  <1>6. QED
    BY <1>3, <1>5 DEF StepOK

\* A transition is an allowed step if it is one for a holder of the lock.
LEMMA StepTransition ==
  ASSUME IInv, NEW w \in Worker, key[w] \in Key, NEW row,
         Holds(w) => RowStep(ledger[key[w]], row),
         Transition(w, row) \/ \E a \in Answer : FinalTransition(w, row, a)
  PROVE  StepOK
  <1>1. TypeOK /\ RowInv
    BY DEF IInv
  <1>2. CASE Holds(w)
    BY <1>1, <1>2, StepWrite DEF Transition, FinalTransition
  <1>3. CASE ~Holds(w)
    BY <1>1, <1>3, StepSame DEF Transition, FinalTransition
  <1>4. QED
    BY <1>2, <1>3

\* Every step of the system is an allowed step of every row.
LEMMA EveryStep ==
  ASSUME IInv, [Next]_vars
  PROVE  StepOK
  <1>1. TypeOK /\ RowInv /\ PlaceInv /\ RpcInv
    BY DEF IInv
  <1>2. \A k \in Key : ledger[k] \in Row /\ RowOK(ledger[k])
    BY <1>1 DEF TypeOK, RowInv
  <1>3. ASSUME NEW w \in Worker, NEW k \in Key, NEW p \in Payload, Acquire(w, k, p)
        PROVE  StepOK
    <2>1. RowStep(ledger[k], Locked(Arrived(k, p), w))
      <3>1. CASE ledger[k] = AbsentRow
        BY <3>1, <1>2, RowStepLocks DEF Arrived
      <3>2. CASE ledger[k] # AbsentRow
        <4>1. ledger[k].status # "ABSENT"
          BY <3>2, <1>2 DEF RowOK
        <4>2. QED
          BY <3>2, <4>1, <1>2, RowStepLocks DEF Arrived
      <3>3. QED
        BY <3>1, <3>2
    <2>2. QED
      BY <1>1, <1>3, <2>1, StepWrite DEF Acquire
  <1>4. ASSUME NEW w \in Worker, ClaimBatch(w)
        PROVE  StepOK
    <2>1. PICK batch \in SUBSET {k \in Key : Recoverable(ledger[k], expired)} :
            /\ ledger' = [k \in Key |-> IF k \in batch THEN Locked(ledger[k], w)
                                                       ELSE ledger[k]]
            /\ snap' = [snap EXCEPT ![w] = [k \in Key |-> IF k \in batch
                                               THEN Locked(ledger[k], w)
                                               ELSE AbsentRow]]
      BY <1>4 DEF ClaimBatch
    <2>2. ASSUME NEW k \in Key
          PROVE  /\ RowStep(ledger[k], ledger'[k])
                 /\ \A v \in Worker :
                      snap'[v][k] \in {snap[v][k], AbsentRow, ledger'[k]}
      <3>1. k \in batch => ledger[k].status # "ABSENT"
        BY <2>1 DEF Recoverable
      <3>2. RowStep(ledger[k], ledger[k])
        BY <1>2 DEF RowStep
      <3>3. ledger[k].status # "ABSENT" => RowStep(ledger[k], Locked(ledger[k], w))
        <4>1. ASSUME NEW p \in Payload
              PROVE  ledger[k].status # "ABSENT"
                     => RowStep(ledger[k], Locked(ledger[k], w))
          BY <1>2, RowStepLocks
        <4>2. ledger[k].status # "ABSENT" => ledger[k].payload \in Payload
          BY <1>2 DEF RowOK
        <4>3. QED
          BY <4>1, <4>2
      <3>4. \A v \in Worker :
                      snap'[v][k] \in {snap[v][k], AbsentRow, ledger'[k]}
        BY <1>1, <2>1 DEF TypeOK
      <3>5. QED
        BY <2>1, <3>1, <3>2, <3>3, <3>4
    <2>3. QED
      BY <2>2 DEF StepOK
  <1>5. ASSUME NEW w \in Worker, pc[w] \in Running
        PROVE  key[w] \in Key
    BY <1>1, <1>5, RunningHasKey
  <1>6. ASSUME NEW w \in Worker, FinishUser(w)
        PROVE  StepOK
    <2>1. pc[w] = "user" /\ pc[w] \in Running
      BY <1>6 DEF FinishUser, At, Running
    <2>2. CASE reply[w].kind = "ok"
      <3>1. reply[w].user \in Nat \ {NoUser}
        BY <1>1, <2>1, <2>2 DEF RpcInv, TypeOK, Reply
      <3>2. Holds(w) => RowStep(ledger[key[w]],
                                UserCreated(ledger[key[w]], reply[w].user))
        <4>1. Saga(w).next = "PROCESS_USER"
          BY <1>1, <2>1 DEF PlaceInv, PlaceOK
        <4>2. QED
          BY <2>1, <3>1, <4>1, HolderSees, RowStepTransitions
      <3>3. QED
        BY <1>5, <1>6, <2>1, <2>2, <3>2, StepTransition DEF FinishUser
    <2>3. CASE reply[w].kind # "ok"
      BY <1>1, <1>6, <2>3, StepSame DEF FinishUser
    <2>4. QED
      BY <2>2, <2>3
  <1>7. ASSUME NEW w \in Worker, FinishPayment(w)
        PROVE  StepOK
    <2>1. pc[w] = "payment" /\ pc[w] \in Running
      BY <1>7 DEF FinishPayment, At, Running
    <2>2. reply[w].kind \in {"ok", "permanent", "transient"}
      BY <1>1, <1>7 DEF TypeOK, Reply, FinishPayment, Replied
    <2>3. Saga(w).next = "PROCESS_PAYMENT"
      BY <1>1, <2>1 DEF PlaceInv, PlaceOK
    <2>4. Holds(w) => /\ RowStep(ledger[key[w]], PaymentCreated(ledger[key[w]]))
                      /\ RowStep(ledger[key[w]],
                                 Failed(ledger[key[w]], "permanent"))
                      /\ RowStep(ledger[key[w]],
                                 Failed(ledger[key[w]], "transient"))
      <3>1. 1 \in Nat \ {NoUser}
        OBVIOUS
      <3>2. QED
        BY <2>1, <2>3, <3>1, HolderSees, RowStepTransitions
    <2>5. QED
      BY <1>5, <1>7, <2>1, <2>2, <2>4, StepTransition DEF FinishPayment
  <1>8. ASSUME NEW w \in Worker, FinishCompensation(w)
        PROVE  StepOK
    <2>1. pc[w] = "compensation" /\ pc[w] \in Running
      BY <1>8 DEF FinishCompensation, At, Running
    <2>2. ~Holds(w)
      BY <1>1, <2>1 DEF PlaceInv, PlaceOK
    <2>3. ledger' = ledger /\ snap' = snap
      BY <1>8, <2>2 DEF FinishCompensation, FinalTransition
    <2>4. QED
      BY <1>1, <2>3, StepSame
  <1>9. ASSUME NEW w \in Worker, Complete(w)
        PROVE  StepOK
    <2>1. pc[w] \in Running /\ Saga(w).next = "COMPLETE"
      BY <1>9 DEF Complete, Dispatches, Running
    <2>2. Holds(w) => RowStep(ledger[key[w]],
                              Completed(ledger[key[w]], Saga(w).user))
      <3>1. 1 \in Nat \ {NoUser}
        OBVIOUS
      <3>2. QED
        BY <2>1, <3>1, HolderSees, RowStepTransitions
    <2>3. QED
      BY <1>5, <1>9, <2>1, <2>2, StepTransition DEF Complete
  <1>10. ASSUME NEW w \in Worker, Release(w)
         PROVE  StepOK
    <2>1. key[w] \in Key
      BY <1>1, <1>10 DEF Release, At, PlaceInv, PlaceOK
    <2>2. RowStep(ledger[key[w]], Released(ledger[key[w]], w))
      BY <1>2, <2>1, RowOKLocks DEF RowStep, Released, Row
    <2>3. QED
      BY <1>1, <1>10, <2>1, <2>2, StepWrite DEF Release
  <1>11. ASSUME NEW w \in Worker, AbandonedLeaseExpires(w)
         PROVE  StepOK
    <2>1. \A k \in Key : RowStep(ledger[k], Released(ledger[k], w))
      BY <1>2, RowOKLocks DEF RowStep, Released, Row
    <2>2. ledger' = [k \in Key |-> Released(ledger[k], w)] /\ snap' = snap
      BY <1>11 DEF AbandonedLeaseExpires, worker
    <2>3. QED
      BY <2>1, <2>2 DEF StepOK
  <1>12. ASSUME NEW k \in Key, RetryFallsDue(k)
         PROVE  StepOK
    <2>1. RowStep(ledger[k], [ledger[k] EXCEPT !.due = TRUE])
      <3>1. ledger[k] # AbsentRow
        BY <1>12, AbsentRowFields DEF RetryFallsDue
      <3>2. ledger[k].payload \in Payload
        BY <1>2, <3>1 DEF RowOK
      <3>3. RowOK([ledger[k] EXCEPT !.due = TRUE])
        BY <1>2, <3>1 DEF RowOK, Row
      <3>4. ~IsTerminalFailure(ledger[k])
        BY <1>2, <1>12 DEF IsTerminalFailure, RowOK, RetryFallsDue
      <3>5. QED
        BY <1>2, <3>3, <3>4 DEF RowStep, Row
    <2>2. ledger' = [ledger EXCEPT ![k] = [ledger[k] EXCEPT !.due = TRUE]]
          /\ snap' = snap
      BY <1>12 DEF RetryFallsDue, worker
    <2>3. \A j \in Key : RowStep(ledger[j], ledger[j])
      BY <1>2 DEF RowStep
    <2>4. \A j \in Key : RowStep(ledger[j], ledger'[j])
      BY <1>1, <2>1, <2>2, <2>3 DEF TypeOK
    <2>5. QED
      BY <2>2, <2>4 DEF StepOK
  <1>13. ASSUME NEW w \in Worker, Die(w)
         PROVE  StepOK
    <2>1. ledger' = ledger /\ snap' = [snap EXCEPT ![w] = NoRows]
      BY <1>13 DEF Die
    <2>2. \A v \in Worker, k \in Key : snap'[v][k] \in {snap[v][k], AbsentRow}
      BY <1>1, <2>1 DEF TypeOK, NoRows
    <2>3. \A k \in Key : RowStep(ledger[k], ledger'[k])
      BY <1>2, <2>1 DEF RowStep
    <2>4. QED
      BY <2>2, <2>3 DEF StepOK
  <1>14. CASE ledger' = ledger /\ snap' = snap
    BY <1>1, <1>14, StepSame
  <1>15. ASSUME NEW w \in Worker, Run(w)
         PROVE  StepOK
    BY <1>6, <1>7, <1>8, <1>9, <1>10, <1>14, <1>15
       DEF Run, SendCreateUser, SendPayment, SendCompensation, Send, Depart,
           NextOfBatch, EndPass
  <1>16. ASSUME NEW w \in Caller,
                Deliver(w) \/ WaiterSeesSettled(w) \/ WaiterGivesUp(w)
         PROVE  StepOK
    BY <1>3, <1>14, <1>16, WorkersAreTwoKinds
       DEF Deliver, RejectReusedKey, JoinWaiters, WaiterSeesSettled,
           WaiterGivesUp
  <1>17. ASSUME NEW m \in commands, Execute(m) \/ ServiceFails(m)
         PROVE  StepOK
    BY <1>14, <1>17 DEF Execute, ExecuteCreate, ExecutePayment,
       ExecuteCompensate, ServiceFails
  <1>18. ASSUME NEW w \in Worker, TimeOut(w) \/ LeaseExpires(w)
         PROVE  StepOK
    BY <1>14, <1>18 DEF TimeOut, LeaseExpires, worker
  <1>19. QED
    BY <1>4, <1>11, <1>12, <1>13, <1>14, <1>15, <1>16, <1>17, <1>18,
       WorkersAreTwoKinds DEF Next, vars

\* Rows and copies of rows stay sound.
LEMMA RowStepInv ==
  ASSUME IInv, [Next]_vars
  PROVE  RowInv'
  <1>1. StepOK
    BY EveryStep
  <1>2. RowOK(AbsentRow)
    BY AbsentRowFields DEF RowOK
  <1>3. \A k \in Key : RowOK(ledger'[k])
    BY <1>1 DEF StepOK, RowStep
  <1>4. \A k \in Key, w \in Worker : RowOK(snap'[w][k])
    BY <1>1, <1>2, <1>3 DEF StepOK, IInv, RowInv
  <1>5. QED
    BY <1>3, <1>4 DEF RowInv

-------------------------------------------------------------------------------
(* Locks and places. *)

Undisturbed(v) ==
  /\ pc'[v] = pc[v] /\ key'[v] = key[v] /\ snap'[v] = snap[v]
  /\ todo'[v] = todo[v]
  /\ \A k \in Key : ledger'[k].lockedBy = v =>
       /\ ledger[k].lockedBy = v
       /\ IgnoringDue(ledger'[k]) = IgnoringDue(ledger[k])

\* A worker nobody disturbs keeps its lock and its place.
LEMMA UndisturbedOK ==
  ASSUME IInv, NEW v \in Worker, Undisturbed(v)
  PROVE  LockOK(v)' /\ PlaceOK(v)'
  <1>1. LockOK(v) /\ PlaceOK(v)
    BY DEF IInv, LockInv, PlaceInv
  <1>2. LockOK(v)'
    BY <1>1 DEF LockOK, Undisturbed, Holding
  <1>3. pc[v] \in Running => key[v] \in Key
    BY <1>1 DEF PlaceOK, Running
  <1>4. PlaceOK(v)'
    BY <1>1, <1>3 DEF PlaceOK, Undisturbed, Saga, Holds
  <1>5. QED
    BY <1>2, <1>4

\* A write of one row by w, which leaves it locked by w or by nobody.
LEMMA WriteDisturbsNobody ==
  ASSUME TypeOK, NEW w \in Worker, NEW v \in Worker \ {w}, NEW j \in Key,
         NEW row \in Row, row.lockedBy \in {w, Nobody},
         ledger' = [ledger EXCEPT ![j] = row]
  PROVE  \A k \in Key : ledger'[k].lockedBy = v =>
           /\ ledger[k].lockedBy = v
           /\ IgnoringDue(ledger'[k]) = IgnoringDue(ledger[k])
  BY NullsAreNotValues DEF TypeOK

\* Which transitions keep the lock and which clear it.
LEMMA TransitionLocks ==
  ASSUME NEW row \in Row, NEW w \in Worker, row.lockedBy = w,
         NEW u \in Nat, NEW problem \in Problem
  PROVE  /\ UserCreated(row, u).lockedBy = w
         /\ PaymentCreated(row).lockedBy = w
         /\ Completed(row, u).lockedBy = Nobody
         /\ Failed(row, problem).lockedBy = Nobody
         /\ Compensated(row, problem).lockedBy = Nobody
  BY DEF UserCreated, PaymentCreated, Completed, Failed, Compensated, Row

\* Steps of w only touch the variables of w and rows that w locks or takes.
LEMMA StartIsLocal ==
  ASSUME TypeOK, NEW w \in Worker, NEW v \in Worker \ {w}, NEW k, NEW row,
         Start(w, k, row)
  PROVE  pc'[v] = pc[v] /\ key'[v] = key[v]
  BY DEF Start, End, TypeOK

\* A guarded write of w disturbs nobody else.
LEMMA TransitionIsLocal ==
  ASSUME TypeOK, NEW w \in Worker, NEW v \in Worker \ {w}, key[w] \in Key,
         NEW row \in Row, Holds(w) => row.lockedBy \in {w, Nobody},
         Transition(w, row) \/ \E a \in Answer : FinalTransition(w, row, a),
         key' = key, todo' = todo
  PROVE  Undisturbed(v)
  <1>1. pc'[v] = pc[v] /\ snap'[v] = snap[v]
    BY DEF Transition, FinalTransition, End, TypeOK
  <1>2. CASE Holds(w)
    <2>1. ledger' = [ledger EXCEPT ![key[w]] = row]
      BY <1>2 DEF Transition, FinalTransition
    <2>2. QED
      BY <1>1, <1>2, <2>1, WriteDisturbsNobody DEF Undisturbed
  <1>3. CASE ~Holds(w)
    BY <1>1, <1>3 DEF Transition, FinalTransition, Undisturbed
  <1>4. QED
    BY <1>2, <1>3

\* No step of w disturbs another worker.
LEMMA OthersUndisturbed ==
  ASSUME IInv, NEW w \in Worker, NEW v \in Worker \ {w},
         Deliver(w) \/ WaiterSeesSettled(w) \/ WaiterGivesUp(w) \/ ClaimBatch(w)
         \/ Run(w) \/ TimeOut(w) \/ Die(w) \/ LeaseExpires(w)
         \/ AbandonedLeaseExpires(w)
  PROVE  Undisturbed(v)
  <1>1. TypeOK /\ RowInv /\ PlaceInv
    BY DEF IInv
  <1>2. \A k \in Key : ledger[k] \in Row
    BY <1>1 DEF TypeOK
  <1>3. ASSUME ledger' = ledger, pc'[v] = pc[v], key'[v] = key[v],
               snap'[v] = snap[v], todo'[v] = todo[v]
        PROVE  Undisturbed(v)
    BY <1>3 DEF Undisturbed
  <1>4. ASSUME NEW k \in Key, NEW p \in Payload, Acquire(w, k, p)
        PROVE  Undisturbed(v)
    <2> DEFINE row == Locked(Arrived(k, p), w)
    <2>1. Arrived(k, p) \in Row
      BY <1>2, FreshRowType DEF Arrived
    <2>2. row \in Row /\ row.lockedBy = w
      BY <2>1, LockedType DEF Locked, Row
    <2>3. pc'[v] = pc[v] /\ key'[v] = key[v]
      BY <1>1, <1>4, StartIsLocal DEF Acquire
    <2>4. /\ ledger' = [ledger EXCEPT ![k] = row]
          /\ snap' = [snap EXCEPT ![w][k] = row]
          /\ todo' = todo
      BY <1>4 DEF Acquire
    <2>5. snap'[v] = snap[v]
      BY <1>1, <2>4 DEF TypeOK
    <2> HIDE DEF row
    <2>6. QED
      BY <1>1, <2>2, <2>3, <2>4, <2>5, WriteDisturbsNobody DEF Undisturbed
  <1>5. CASE ClaimBatch(w)
    <2>1. PICK batch \in SUBSET Key :
            ledger' = [k \in Key |-> IF k \in batch THEN Locked(ledger[k], w)
                                                    ELSE ledger[k]]
      BY <1>5 DEF ClaimBatch
    <2>2. \A k \in Key : Locked(ledger[k], w).lockedBy = w
      BY <1>2 DEF Locked, Row
    <2>3. \A k \in Key : ledger'[k].lockedBy = v => ledger'[k] = ledger[k]
      BY <2>1, <2>2
    <2>4. /\ pc'[v] = pc[v] /\ key'[v] = key[v]
          /\ snap'[v] = snap[v] /\ todo'[v] = todo[v]
      BY <1>1, <1>5 DEF ClaimBatch, TypeOK
    <2>5. QED
      BY <2>3, <2>4 DEF Undisturbed
  <1>6. CASE AbandonedLeaseExpires(w)
    <2>1. \A k \in Key : ledger'[k].lockedBy = v => ledger'[k] = ledger[k]
      <3>1. \A k \in Key : Released(ledger[k], w).lockedBy = v =>
                             Released(ledger[k], w) = ledger[k]
        BY <1>2, NullsAreNotValues DEF Released, Row
      <3>2. QED
        BY <1>6, <3>1 DEF AbandonedLeaseExpires
    <2>2. QED
      BY <1>6, <2>1 DEF AbandonedLeaseExpires, worker, Undisturbed
  <1>7. CASE Release(w)
    <2>1. key[w] \in Key
      BY <1>1, <1>7 DEF Release, At, PlaceInv, PlaceOK
    <2>2. \A k \in Key : ledger'[k].lockedBy = v => ledger'[k] = ledger[k]
      <3>1. \A k \in Key : Released(ledger[k], w).lockedBy = v =>
                             Released(ledger[k], w) = ledger[k]
        BY <1>2, NullsAreNotValues DEF Released, Row
      <3>2. ledger' = [ledger EXCEPT ![key[w]] = Released(ledger[key[w]], w)]
        BY <1>7 DEF Release
      <3>3. QED
        BY <1>1, <2>1, <3>1, <3>2 DEF TypeOK
    <2>3. /\ pc'[v] = pc[v] /\ key'[v] = key[v]
          /\ snap'[v] = snap[v] /\ todo'[v] = todo[v]
      BY <1>1, <1>7 DEF Release, TypeOK
    <2>4. QED
      BY <2>2, <2>3 DEF Undisturbed
  <1>8. ASSUME pc[w] \in Running
        PROVE  /\ key[w] \in Key
               /\ ledger[key[w]] \in Row
               /\ Saga(w) \in Row
               /\ reply[w] \in Reply
    BY <1>1, <1>8, RunningHasKey DEF TypeOK
  <1>9. CASE FinishUser(w)
    <2>1. pc[w] \in Running
      BY <1>9 DEF FinishUser, At, Running
    <2>2. CASE reply[w].kind = "ok"
      <3> DEFINE row == UserCreated(ledger[key[w]], reply[w].user)
      <3>1. reply[w].user \in Nat
        BY <1>8, <2>1 DEF Reply
      <3>2. row \in Row
        BY <3>1, <1>8, <2>1, TransitionTypes
      <3>3. Holds(w) => row.lockedBy = w
        BY <3>1, <1>8, <2>1, TransitionLocks DEF Holds
      <3>4. Transition(w, row) /\ key' = key /\ todo' = todo
        BY <1>9, <2>2 DEF FinishUser
      <3> HIDE DEF row
      <3>5. QED
        BY <1>1, <1>8, <2>1, <3>2, <3>3, <3>4, TransitionIsLocal
    <2>3. CASE reply[w].kind # "ok"
      <3>1. /\ End(w, reply[w].kind) /\ ledger' = ledger /\ snap' = snap
            /\ key' = key /\ todo' = todo
        BY <1>9, <2>3 DEF FinishUser
      <3>2. pc'[v] = pc[v]
        BY <1>1, <3>1 DEF End, TypeOK
      <3>3. QED
        BY <1>3, <3>1, <3>2
    <2>4. QED
      BY <2>2, <2>3
  <1>10. CASE FinishPayment(w)
    <2> DEFINE row == IF reply[w].kind = "ok"
                      THEN PaymentCreated(ledger[key[w]])
                      ELSE Failed(ledger[key[w]], reply[w].kind)
    <2>1. pc[w] \in Running /\ reply[w].kind # "none"
      BY <1>10 DEF FinishPayment, At, Running, Replied
    <2>2. reply[w].kind # "ok" => reply[w].kind \in Problem
      BY <1>8, <2>1 DEF Reply
    <2>3. row \in Row
      BY <2>2, <1>8, <2>1, TransitionTypes
    <2>4. Holds(w) => row.lockedBy \in {w, Nobody}
      <3>1. 1 \in Nat
        OBVIOUS
      <3>2. CASE reply[w].kind = "ok"
        BY <3>1, <3>2, <1>8, <2>1, TransitionLocks DEF Holds
      <3>3. CASE reply[w].kind # "ok"
        BY <3>1, <3>3, <2>2, <1>8, <2>1, TransitionLocks DEF Holds
      <3>4. QED
        BY <3>2, <3>3
    <2>5. Transition(w, row) /\ key' = key /\ todo' = todo
      BY <1>10 DEF FinishPayment
    <2> HIDE DEF row
    <2>6. QED
      BY <1>1, <1>8, <2>1, <2>3, <2>4, <2>5, TransitionIsLocal
  <1>11. CASE FinishCompensation(w)
    <2>1. pc[w] = "compensation" /\ pc[w] \in Running
      BY <1>11 DEF FinishCompensation, At, Running
    <2>2. ~Holds(w)
      BY <1>1, <2>1 DEF PlaceInv, PlaceOK
    <2>3. ledger' = ledger /\ snap' = snap /\ key' = key /\ todo' = todo
      BY <1>11, <2>2 DEF FinishCompensation, FinalTransition
    <2>4. \E a : End(w, a)
      BY <1>11, <2>2 DEF FinishCompensation, FinalTransition
    <2>5. pc'[v] = pc[v]
      BY <1>1, <2>4 DEF End, TypeOK
    <2>6. QED
      BY <1>3, <2>3, <2>5
  <1>12. CASE Complete(w)
    <2> DEFINE row == Completed(ledger[key[w]], Saga(w).user)
    <2>1. pc[w] \in Running
      BY <1>12 DEF Complete, Dispatches, Running
    <2>2. Saga(w).user \in Nat
      BY <1>8, <2>1 DEF Row
    <2>3. row \in Row
      BY <1>8, <2>1, <2>2, TransitionTypes
    <2>4. Holds(w) => row.lockedBy = Nobody
      BY <1>8, <2>1, <2>2, TransitionLocks DEF Holds
    <2>5. /\ \E a \in Answer : FinalTransition(w, row, a)
          /\ key' = key /\ todo' = todo
      BY <1>12 DEF Complete
    <2> HIDE DEF row
    <2>6. QED
      BY <1>1, <1>8, <2>1, <2>3, <2>4, <2>5, TransitionIsLocal
  <1>13. CASE NextOfBatch(w)
    <2>1. PICK k \in todo[w] : /\ Start(w, k, snap[w][k])
                               /\ todo' = [todo EXCEPT ![w] = @ \ {k}]
      BY <1>13 DEF NextOfBatch
    <2>2. pc'[v] = pc[v] /\ key'[v] = key[v]
      BY <1>1, <2>1, StartIsLocal
    <2>3. todo'[v] = todo[v]
      BY <1>1, <2>1 DEF TypeOK
    <2>4. QED
      BY <1>3, <1>13, <2>2, <2>3 DEF NextOfBatch
  <1>14. CASE SendCreateUser(w) \/ SendPayment(w) \/ SendCompensation(w)
    BY <1>1, <1>3, <1>14 DEF TypeOK, SendCreateUser, SendPayment,
       SendCompensation, Send
  <1>15. CASE Depart(w) \/ EndPass(w) \/ WaiterSeesSettled(w)
              \/ WaiterGivesUp(w)
    BY <1>1, <1>3, <1>15 DEF TypeOK, Depart, EndPass, WaiterSeesSettled,
       WaiterGivesUp
  <1>16. CASE Die(w)
    BY <1>1, <1>3, <1>16 DEF TypeOK, Die
  <1>17. CASE TimeOut(w) \/ LeaseExpires(w)
    BY <1>3, <1>17 DEF TimeOut, LeaseExpires, worker
  <1>18. ASSUME NEW k \in Key, NEW p \in Payload,
                RejectReusedKey(w, k, p) \/ JoinWaiters(w, k, p)
         PROVE  Undisturbed(v)
    BY <1>1, <1>3, <1>18 DEF TypeOK, RejectReusedKey, JoinWaiters
  <1>19. QED
    BY <1>4, <1>5, <1>6, <1>7, <1>9, <1>10, <1>11, <1>12, <1>13, <1>14, <1>15,
       <1>16, <1>17, <1>18 DEF Deliver, Run

\* A row that Start hands to the loop asks for no compensation.
LEMMA StartableRow ==
  ASSUME NEW row \in Row, RowOK(row), Startable(row), NEW w \in Worker
  PROVE  /\ row.status \notin {"ABSENT", "COMPLETED"}
         /\ row.next # "COMPENSATE_USER"
         /\ Locked(row, w).status = row.status
         /\ Locked(row, w).next = row.next
  <1>1. row.status \notin {"ABSENT", "COMPLETED"}
    BY DEF RowOK, Startable, IsCompleted
  <1>2. row.next # "COMPENSATE_USER"
    BY <1>1 DEF RowOK, Startable, IsTerminalFailure, Row
  <1>3. QED
    BY <1>1, <1>2 DEF Locked, Row

\* Where the head of executeStateMachine may lead.
LEMMA StartPlaces ==
  ASSUME TypeOK, NEW w \in Worker, NEW k, NEW row, Start(w, k, row)
  PROVE  /\ key'[w] = k
         /\ pc'[w] \in {"release", "dispatch"}
         /\ pc'[w] = "dispatch" => ~IsCompleted(row) /\ ~IsTerminalFailure(row)
  BY DEF Start, End, TypeOK

\* A run that ends, with or without a last write, keeps what it knows.
LEMMA ReleasingOK ==
  ASSUME IInv, NEW w \in Worker, pc[w] \in Running, pc'[w] = "release",
         key' = key, todo' = todo,
         \/ ledger' = ledger /\ snap' = snap
         \/ \E row \in Row : /\ ledger' = [ledger EXCEPT ![key[w]] = row]
                             /\ snap' = [snap EXCEPT ![w][key[w]] = row]
  PROVE  LockOK(w)' /\ PlaceOK(w)'
  <1>1. LockOK(w) /\ PlaceOK(w) /\ TypeOK
    BY DEF IInv, LockInv, PlaceInv
  <1>2. key[w] \in Key /\ key[w] \notin todo[w]
    BY <1>1 DEF PlaceOK, Running
  <1>3. \A k \in Key \ {key[w]} : ledger'[k] = ledger[k] /\ snap'[w][k] = snap[w][k]
    <2>1. ASSUME NEW row \in Row,
                 ledger' = [ledger EXCEPT ![key[w]] = row],
                 snap' = [snap EXCEPT ![w][key[w]] = row],
                 NEW k \in Key \ {key[w]}
          PROVE  ledger'[k] = ledger[k] /\ snap'[w][k] = snap[w][k]
      BY <1>1, <2>1 DEF TypeOK
    <2>2. QED
      BY <2>1
  <1>4. Holding(w)' = Holding(w)
    BY DEF Holding, Running
  <1>5. key[w] \in Holding(w)
    BY DEF Holding, Running
  <1>6. LockOK(w)'
    BY <1>1, <1>2, <1>3, <1>4, <1>5 DEF LockOK, Running
  <1>7. PlaceOK(w)'
    BY <1>1, <1>2, <1>3 DEF PlaceOK, Running, TypeOK
  <1>8. QED
    BY <1>6, <1>7

\* So does a run that goes on with the row it has written.
LEMMA DispatchingOK ==
  ASSUME IInv, NEW w \in Worker, pc[w] \in Running, pc'[w] = "dispatch",
         key' = key, todo' = todo,
         NEW row \in Row, ledger' = [ledger EXCEPT ![key[w]] = row],
         snap' = [snap EXCEPT ![w][key[w]] = row],
         row.status \notin {"ABSENT", "COMPLETED"},
         row.next = "COMPENSATE_USER" => row.lockedBy # w
  PROVE  LockOK(w)' /\ PlaceOK(w)'
  <1>1. LockOK(w) /\ PlaceOK(w) /\ TypeOK
    BY DEF IInv, LockInv, PlaceInv
  <1>2. key[w] \in Key /\ key[w] \notin todo[w]
    BY <1>1 DEF PlaceOK, Running
  <1>3. \A k \in Key \ {key[w]} : ledger'[k] = ledger[k] /\ snap'[w][k] = snap[w][k]
    BY <1>1 DEF TypeOK
  <1>4. ledger'[key[w]] = row /\ snap'[w][key[w]] = row
    BY <1>1, <1>2 DEF TypeOK
  <1>5. Holding(w)' = Holding(w)
    BY DEF Holding, Running
  <1>6. key[w] \in Holding(w)
    BY DEF Holding, Running
  <1>7. LockOK(w)'
    BY <1>1, <1>2, <1>3, <1>4, <1>5, <1>6 DEF LockOK, Running
  <1>8. Saga(w)' = row
    BY <1>4 DEF Saga
  <1>9. Holds(w)' = (row.lockedBy = w)
    BY <1>4 DEF Holds
  <1>10. PlaceOK(w)'
    BY <1>1, <1>2, <1>3, <1>8, <1>9 DEF PlaceOK, Running, TypeOK
  <1>11. QED
    BY <1>7, <1>10

\* The deliveries, the waiters and the recovery passes.
LEMMA OwnStepWorker ==
  ASSUME IInv, NEW w \in Worker,
         \/ Deliver(w) \/ WaiterSeesSettled(w) \/ WaiterGivesUp(w)
         \/ w \in Recoverer /\ ClaimBatch(w)
         \/ NextOfBatch(w) \/ EndPass(w) \/ Depart(w)
         \/ AbandonedLeaseExpires(w) \/ Die(w)
  PROVE  LockOK(w)' /\ PlaceOK(w)'
  <1>1. LockOK(w) /\ PlaceOK(w) /\ TypeOK /\ RowInv
    BY DEF IInv, LockInv, PlaceInv
  <1>2. \A k \in Key : ledger[k] \in Row /\ RowOK(ledger[k])
    BY <1>1 DEF TypeOK, RowInv
  <1>3. ASSUME Fresh(w)
        PROVE  /\ todo[w] = {}
               /\ pc[w] = "idle"
               /\ \A k \in Key : ledger[k].lockedBy # w
    BY <1>1, <1>3 DEF Fresh, PlaceOK
  <1>4. ASSUME NEW k \in Key, NEW p \in Payload, Acquire(w, k, p)
        PROVE  LockOK(w)' /\ PlaceOK(w)'
    <2> DEFINE row == Arrived(k, p)
               new == Locked(row, w)
    <2>1. row \in Row /\ RowOK(row) /\ row.status # "ABSENT"
      <3>1. CASE ledger[k] = AbsentRow
        BY <3>1, FreshRowType DEF Arrived, RowOK, FreshRow
      <3>2. CASE ledger[k] # AbsentRow
        BY <3>2, <1>2 DEF Arrived, RowOK
      <3>3. QED
        BY <3>1, <3>2
    <2>2. Start(w, k, row) /\ Fresh(w)
      BY <1>4 DEF Acquire
    <2>3. /\ key'[w] = k
          /\ pc'[w] \in {"release", "dispatch"}
          /\ pc'[w] = "dispatch" => Startable(row)
      BY <1>1, <2>1, <2>2, StartPlaces DEF Startable
    <2>4. /\ ledger' = [ledger EXCEPT ![k] = new]
          /\ snap' = [snap EXCEPT ![w][k] = new]
          /\ todo' = todo
      BY <1>4 DEF Acquire
    <2> HIDE DEF new
    <2>5. /\ ledger'[k] = new /\ snap'[w][k] = new
          /\ \A j \in Key \ {k} : ledger'[j] = ledger[j]
      BY <1>1, <2>4 DEF TypeOK
    <2>6. todo'[w] = {} /\ Holding(w)' = {k}
      BY <1>3, <2>2, <2>3, <2>4 DEF Holding
    <2>7. LockOK(w)'
      BY <1>3, <2>2, <2>5, <2>6 DEF LockOK
    <2>8. Saga(w)' = new
      BY <2>3, <2>5 DEF Saga
    <2>9. pc'[w] = "dispatch" => /\ new.status \notin {"ABSENT", "COMPLETED"}
                                 /\ new.next # "COMPENSATE_USER"
      BY <2>1, <2>3, StartableRow DEF new
    <2>10. PlaceOK(w)'
      BY <2>3, <2>6, <2>8, <2>9 DEF PlaceOK, Running
    <2>11. QED
      BY <2>7, <2>10
  <1>5. ASSUME NEW k \in Key, NEW p \in Payload,
               RejectReusedKey(w, k, p) \/ JoinWaiters(w, k, p)
        PROVE  LockOK(w)' /\ PlaceOK(w)'
    <2>1. /\ pc'[w] \in {"waiting", "answered"} /\ key'[w] = k
          /\ ledger' = ledger /\ snap' = snap /\ todo' = todo /\ Fresh(w)
      BY <1>1, <1>5 DEF RejectReusedKey, JoinWaiters, TypeOK
    <2>2. QED
      BY <1>3, <2>1 DEF LockOK, PlaceOK, Running
  <1>6. CASE WaiterSeesSettled(w) \/ WaiterGivesUp(w)
    <2>1. /\ pc[w] = "waiting" /\ pc'[w] = "answered" /\ key' = key
          /\ ledger' = ledger /\ snap' = snap /\ todo' = todo
      BY <1>1, <1>6 DEF WaiterSeesSettled, WaiterGivesUp, TypeOK
    <2>2. QED
      BY <1>1, <2>1 DEF LockOK, Holding, PlaceOK, Running
  <1>7. CASE w \in Recoverer /\ ClaimBatch(w)
    <2>1. PICK batch \in SUBSET {k \in Key : Recoverable(ledger[k], expired)} :
            /\ ledger' = [k \in Key |-> IF k \in batch THEN Locked(ledger[k], w)
                                                       ELSE ledger[k]]
            /\ snap' = [snap EXCEPT ![w] = [k \in Key |-> IF k \in batch
                                               THEN Locked(ledger[k], w)
                                               ELSE AbsentRow]]
            /\ todo' = [todo EXCEPT ![w] = batch]
      BY <1>7 DEF ClaimBatch
    <2>2. Fresh(w) /\ pc'[w] = "batch" /\ todo'[w] = batch
      BY <1>1, <1>7, <2>1 DEF ClaimBatch, TypeOK
    <2>3. \A k \in batch : snap'[w][k] = Locked(ledger[k], w)
                           /\ ledger'[k] = Locked(ledger[k], w)
      BY <1>1, <2>1 DEF TypeOK
    <2>4. \A k \in Key \ batch : ledger'[k] = ledger[k]
      BY <2>1
    <2>5. LockOK(w)'
      BY <1>3, <2>2, <2>3, <2>4 DEF LockOK, Holding
    <2>6. \A k \in batch : Startable(Locked(ledger[k], w))
      <3>1. ASSUME NEW row \in Row, Recoverable(row, expired)
            PROVE  Startable(Locked(row, w))
        BY <3>1 DEF Recoverable, Startable, Locked, Row, IsCompleted,
                    IsTerminalFailure
      <3>2. QED
        BY <1>2, <2>1, <3>1
    <2>7. w \notin Caller
      BY <1>7, WorkersAreTwoKinds
    <2>8. PlaceOK(w)'
      BY <2>2, <2>3, <2>6, <2>7 DEF PlaceOK, Running
    <2>9. QED
      BY <2>5, <2>8
  <1>8. CASE NextOfBatch(w)
    <2>1. PICK k \in todo[w] : /\ Start(w, k, snap[w][k])
                               /\ todo' = [todo EXCEPT ![w] = @ \ {k}]
      BY <1>8 DEF NextOfBatch
    <2>2. pc[w] = "batch" /\ ledger' = ledger /\ snap' = snap
      BY <1>8 DEF NextOfBatch
    <2>3. k \in Key /\ todo'[w] = todo[w] \ {k}
      BY <1>1, <2>1 DEF TypeOK
    <2>4. /\ key'[w] = k
          /\ pc'[w] \in {"release", "dispatch"}
      BY <1>1, <2>1, StartPlaces
    <2>5. Holding(w)' = Holding(w)
      BY <2>1, <2>2, <2>3, <2>4 DEF Holding
    <2>6. LockOK(w)'
      BY <1>1, <2>2, <2>5 DEF LockOK
    <2>7. /\ snap[w][k] \in Row /\ RowOK(snap[w][k]) /\ Startable(snap[w][k])
      <3>1. snap[w][k] \in Row
        BY <1>1, <2>3 DEF TypeOK
      <3>2. RowOK(snap[w][k])
        BY <1>1, <2>3 DEF RowInv
      <3>3. Startable(snap[w][k])
        BY <1>1, <2>1 DEF PlaceOK
      <3>4. QED
        BY <3>1, <3>2, <3>3
    <2>8. Saga(w)' = snap[w][k]
      BY <2>2, <2>4 DEF Saga
    <2>9. PlaceOK(w)'
      BY <1>1, <2>2, <2>3, <2>4, <2>7, <2>8, StartableRow DEF PlaceOK, Running
    <2>10. QED
      BY <2>6, <2>9
  <1>9. CASE EndPass(w) \/ Depart(w)
    <2>1. /\ pc'[w] = "idle" /\ todo' = todo /\ snap' = snap
          /\ todo[w] = {}
      BY <1>1, <1>9 DEF EndPass, Depart, At, TypeOK, PlaceOK
    <2>2. QED
      BY <2>1 DEF LockOK, PlaceOK, Running
  <1>10. CASE AbandonedLeaseExpires(w)
    <2>1. pc'[w] = "idle" /\ todo'[w] = {}
      BY <1>1, <1>10 DEF AbandonedLeaseExpires, worker, PlaceOK
    <2>2. QED
      BY <2>1 DEF LockOK, PlaceOK, Running
  <1>11. CASE Die(w)
    <2>1. pc'[w] = "idle" /\ todo'[w] = {}
      BY <1>1, <1>11 DEF Die, TypeOK
    <2>2. QED
      BY <2>1 DEF LockOK, PlaceOK, Running
  <1>12. QED
    BY <1>4, <1>5, <1>6, <1>7, <1>8, <1>9, <1>10, <1>11 DEF Deliver

\* The state machine.
LEMMA OwnStepRun ==
  ASSUME IInv, NEW w \in Worker,
         SendCreateUser(w) \/ SendPayment(w) \/ SendCompensation(w)
         \/ FinishUser(w) \/ FinishPayment(w) \/ FinishCompensation(w)
         \/ Complete(w) \/ Release(w)
  PROVE  LockOK(w)' /\ PlaceOK(w)'
  <1>1. LockOK(w) /\ PlaceOK(w) /\ TypeOK /\ RowInv /\ PlaceInv
    BY DEF IInv, LockInv, PlaceInv
  <1>2. ASSUME pc[w] \in Running
        PROVE  /\ key[w] \in Key
               /\ ledger[key[w]] \in Row
               /\ Saga(w) \in Row
               /\ reply[w] \in Reply
    BY <1>1, <1>2, RunningHasKey DEF TypeOK
  <1>3. ASSUME NEW place \in {"user", "payment", "compensation"},
               pc[w] = "dispatch",
               pc' = [pc EXCEPT ![w] = place],
               UNCHANGED <<ledger, key, snap, todo>>,
               place = "user" => Saga(w).next = "PROCESS_USER",
               place = "payment" => Saga(w).next = "PROCESS_PAYMENT",
               place = "compensation" => Saga(w).next = "COMPENSATE_USER"
        PROVE  LockOK(w)' /\ PlaceOK(w)'
    <2>1. pc'[w] = place
      BY <1>1, <1>3 DEF TypeOK
    <2>2. LockOK(w)'
      BY <1>1, <1>3, <2>1 DEF LockOK, Holding
    <2>3. Saga(w)' = Saga(w) /\ Holds(w)' = Holds(w)
      BY <1>3 DEF Saga, Holds
    <2>4. PlaceOK(w)'
      BY <1>1, <1>3, <2>1, <2>3 DEF PlaceOK, Running
    <2>5. QED
      BY <2>2, <2>4
  <1>4. CASE SendCreateUser(w) \/ SendPayment(w) \/ SendCompensation(w)
    BY <1>3, <1>4 DEF SendCreateUser, SendPayment, SendCompensation, Send,
       Dispatches
  <1>5. CASE FinishUser(w)
    <2>1. pc[w] = "user" /\ pc[w] \in Running
      BY <1>5 DEF FinishUser, At, Running
    <2>2. CASE reply[w].kind = "ok" /\ Holds(w)
      <3> DEFINE row == UserCreated(ledger[key[w]], reply[w].user)
      <3>1. reply[w].user \in Nat
        BY <1>2, <2>1 DEF Reply
      <3>2. row \in Row
        BY <3>1, <1>2, <2>1, TransitionTypes
      <3>3. row.status = "USER_CREATED" /\ row.next = "PROCESS_PAYMENT"
        BY <1>2, <2>1 DEF UserCreated, Row
      <3>4. /\ ledger' = [ledger EXCEPT ![key[w]] = row]
            /\ snap' = [snap EXCEPT ![w][key[w]] = row]
            /\ pc'[w] = "dispatch" /\ key' = key /\ todo' = todo
        BY <1>1, <1>5, <2>2 DEF FinishUser, Transition, TypeOK
      <3> HIDE DEF row
      <3>5. QED
        BY <2>1, <3>2, <3>3, <3>4, DispatchingOK
    <2>3. CASE ~(reply[w].kind = "ok" /\ Holds(w))
      <3>1. /\ \E a : End(w, a)
            /\ ledger' = ledger /\ snap' = snap /\ key' = key /\ todo' = todo
        BY <1>5, <2>3 DEF FinishUser, Transition
      <3>2. pc'[w] = "release"
        BY <1>1, <3>1 DEF End, TypeOK
      <3>3. QED
        BY <2>1, <3>1, <3>2, ReleasingOK
    <2>4. QED
      BY <2>2, <2>3
  <1>6. CASE FinishPayment(w)
    <2> DEFINE row == IF reply[w].kind = "ok"
                      THEN PaymentCreated(ledger[key[w]])
                      ELSE Failed(ledger[key[w]], reply[w].kind)
    <2>1. pc[w] \in Running /\ reply[w].kind # "none"
      BY <1>6 DEF FinishPayment, At, Running, Replied
    <2>2. reply[w].kind # "ok" => reply[w].kind \in Problem
      BY <1>2, <2>1 DEF Reply
    <2>3. row \in Row
      BY <2>2, <1>2, <2>1, TransitionTypes
    <2>4. /\ row.status \notin {"ABSENT", "COMPLETED"}
          /\ row.next = "COMPENSATE_USER" => row.lockedBy # w
      <3>1. CASE reply[w].kind = "ok"
        BY <1>2, <2>1, <3>1 DEF PaymentCreated, Row
      <3>2. CASE reply[w].kind # "ok"
        BY <1>2, <2>1, <3>2, NullsAreNotValues DEF Failed, Row
      <3>3. QED
        BY <3>1, <3>2
    <2>5. Transition(w, row) /\ key' = key /\ todo' = todo
      BY <1>6 DEF FinishPayment
    <2> HIDE DEF row
    <2>6. CASE Holds(w)
      <3>1. /\ ledger' = [ledger EXCEPT ![key[w]] = row]
            /\ snap' = [snap EXCEPT ![w][key[w]] = row]
            /\ pc'[w] = "dispatch"
        BY <1>1, <2>5, <2>6 DEF Transition, TypeOK
      <3>2. QED
        BY <2>1, <2>3, <2>4, <2>5, <3>1, DispatchingOK
    <2>7. CASE ~Holds(w)
      <3>1. pc'[w] = "release" /\ ledger' = ledger /\ snap' = snap
        BY <1>1, <2>5, <2>7 DEF Transition, End, TypeOK
      <3>2. QED
        BY <2>1, <2>5, <3>1, ReleasingOK
    <2>8. QED
      BY <2>6, <2>7
  <1>7. CASE FinishCompensation(w)
    <2>1. pc[w] = "compensation" /\ pc[w] \in Running
      BY <1>7 DEF FinishCompensation, At, Running
    <2>2. ~Holds(w)
      BY <1>1, <2>1 DEF PlaceOK
    <2>3. /\ \E a : End(w, a)
          /\ ledger' = ledger /\ snap' = snap /\ key' = key /\ todo' = todo
      BY <1>7, <2>2 DEF FinishCompensation, FinalTransition
    <2>4. pc'[w] = "release"
      BY <1>1, <2>3 DEF End, TypeOK
    <2>5. QED
      BY <2>1, <2>3, <2>4, ReleasingOK
  <1>8. CASE Complete(w)
    <2>1. pc[w] \in Running
      BY <1>8 DEF Complete, Dispatches, Running
    <2>2. Completed(ledger[key[w]], Saga(w).user) \in Row
      <3>1. Saga(w).user \in Nat
        BY <1>2, <2>1 DEF Row
      <3>2. QED
        BY <1>2, <2>1, <3>1, TransitionTypes
    <2>3. /\ \/ ledger' = ledger /\ snap' = snap
             \/ \E row \in Row : /\ ledger' = [ledger EXCEPT ![key[w]] = row]
                                 /\ snap' = [snap EXCEPT ![w][key[w]] = row]
          /\ \E a : End(w, a)
          /\ key' = key /\ todo' = todo
      BY <1>8, <2>2 DEF Complete, FinalTransition
    <2>4. pc'[w] = "release"
      BY <1>1, <2>3 DEF End, TypeOK
    <2>5. QED
      BY <2>1, <2>3, <2>4, ReleasingOK
  <1>9. CASE Release(w)
    <2>1. pc[w] = "release" /\ key[w] \in Key /\ key[w] \notin todo[w]
      BY <1>1, <1>9 DEF Release, At, PlaceOK
    <2>2. /\ ledger' = [ledger EXCEPT ![key[w]] = Released(ledger[key[w]], w)]
          /\ snap' = [snap EXCEPT ![w][key[w]] = AbsentRow]
          /\ todo' = todo
      BY <1>9 DEF Release
    <2>3. Released(ledger[key[w]], w).lockedBy # w
      <3>1. ledger[key[w]] \in Row
        BY <1>1, <2>1 DEF TypeOK
      <3>2. QED
        BY <3>1, NullsAreNotValues DEF Released, Row
    <2>4. /\ ledger'[key[w]].lockedBy # w
          /\ \A k \in Key \ {key[w]} : ledger'[k] = ledger[k]
                                       /\ snap'[w][k] = snap[w][k]
      BY <1>1, <2>1, <2>2, <2>3 DEF TypeOK
    <2>5. Holding(w) = todo[w] \cup {key[w]}
      BY <2>1 DEF Holding
    <2>6. CASE w \in Caller
      <3>1. pc'[w] = "answered" /\ key' = key /\ todo[w] = {}
        BY <1>1, <1>9, <2>6 DEF Release, TypeOK, PlaceOK
      <3>2. QED
        BY <1>1, <2>1, <2>2, <2>4, <2>5, <3>1 DEF LockOK, PlaceOK, Running
    <2>7. CASE w \notin Caller
      <3>1. pc'[w] = "batch"
        BY <1>1, <1>9, <2>7 DEF Release, TypeOK
      <3>2. Holding(w)' = todo[w]
        BY <2>2, <3>1 DEF Holding
      <3>3. LockOK(w)'
        BY <1>1, <2>1, <2>4, <2>5, <3>1, <3>2 DEF LockOK
      <3>4. \A k \in todo[w] : k \in Key \ {key[w]}
        BY <1>1, <2>1 DEF TypeOK
      <3>5. PlaceOK(w)'
        BY <1>1, <2>2, <2>4, <2>7, <3>1, <3>4 DEF PlaceOK, Running
      <3>6. QED
        BY <3>3, <3>5
    <2>8. QED
      BY <2>6, <2>7
  <1>10. QED
    BY <1>4, <1>5, <1>6, <1>7, <1>8, <1>9

\* Every step keeps the locks and the places.
LEMMA LockPlaceStep ==
  ASSUME IInv, [Next]_vars
  PROVE  LockInv' /\ PlaceInv'
  <1>1. TypeOK /\ RowInv
    BY DEF IInv
  <1>2. ASSUME NEW w \in Worker,
               Deliver(w) \/ WaiterSeesSettled(w) \/ WaiterGivesUp(w)
               \/ (w \in Recoverer /\ ClaimBatch(w))
               \/ Run(w) \/ Die(w) \/ AbandonedLeaseExpires(w)
        PROVE  LockInv' /\ PlaceInv'
    <2>1. \A v \in Worker \ {w} : LockOK(v)' /\ PlaceOK(v)'
      BY <1>2, OthersUndisturbed, UndisturbedOK
    <2>2. LockOK(w)' /\ PlaceOK(w)'
      BY <1>2, OwnStepWorker, OwnStepRun DEF Run
    <2>3. QED
      BY <2>1, <2>2 DEF LockInv, PlaceInv
  <1>3. ASSUME UNCHANGED <<pc, key, snap, todo>>,
               \A k \in Key : /\ ledger'[k].lockedBy = ledger[k].lockedBy
                              /\ IgnoringDue(ledger'[k]) = IgnoringDue(ledger[k])
        PROVE  LockInv' /\ PlaceInv'
    <2>1. \A v \in Worker : Undisturbed(v)
      BY <1>3 DEF Undisturbed
    <2>2. \A v \in Worker : LockOK(v)' /\ PlaceOK(v)'
      BY <2>1, UndisturbedOK
    <2>3. QED
      BY <2>2 DEF LockInv, PlaceInv
  <1>4. ASSUME UNCHANGED <<ledger, pc, key, snap, todo>>
        PROVE  LockInv' /\ PlaceInv'
    BY <1>3, <1>4
  <1>5. ASSUME NEW w \in Worker, TimeOut(w) \/ LeaseExpires(w)
        PROVE  LockInv' /\ PlaceInv'
    BY <1>4, <1>5 DEF TimeOut, LeaseExpires, worker
  <1>6. ASSUME NEW m \in commands, Execute(m) \/ ServiceFails(m)
        PROVE  LockInv' /\ PlaceInv'
    BY <1>4, <1>6 DEF Execute, ExecuteCreate, ExecutePayment,
       ExecuteCompensate, ServiceFails
  <1>7. ASSUME NEW k \in Key, RetryFallsDue(k)
        PROVE  LockInv' /\ PlaceInv'
    <2>1. UNCHANGED <<pc, key, snap, todo>>
      BY <1>7 DEF RetryFallsDue, worker
    <2>2. ledger[k] \in Row
      BY <1>1 DEF TypeOK
    <2>3. /\ [ledger[k] EXCEPT !.due = TRUE].lockedBy = ledger[k].lockedBy
          /\ IgnoringDue([ledger[k] EXCEPT !.due = TRUE]) = IgnoringDue(ledger[k])
      BY <2>2 DEF IgnoringDue, Row
    <2>4. ledger' = [ledger EXCEPT ![k] = [ledger[k] EXCEPT !.due = TRUE]]
      BY <1>7 DEF RetryFallsDue
    <2>5. \A j \in Key : /\ ledger'[j].lockedBy = ledger[j].lockedBy
                         /\ IgnoringDue(ledger'[j]) = IgnoringDue(ledger[j])
      BY <1>1, <2>3, <2>4 DEF TypeOK
    <2>6. QED
      BY <1>3, <2>1, <2>5
  <1>8. CASE UNCHANGED vars
    BY <1>4, <1>8 DEF vars
  <1>9. CASE \E w \in Caller :
                Deliver(w) \/ WaiterSeesSettled(w) \/ WaiterGivesUp(w)
    <2>1. PICK w \in Caller :
            Deliver(w) \/ WaiterSeesSettled(w) \/ WaiterGivesUp(w)
      BY <1>9
    <2>2. w \in Worker
      BY WorkersAreTwoKinds
    <2>3. QED
      BY <1>2, <2>1, <2>2
  <1>10. CASE \E w \in Recoverer : ClaimBatch(w)
    BY <1>2, <1>10, WorkersAreTwoKinds
  <1>11. CASE \E w \in Worker : Run(w) \/ TimeOut(w) \/ Die(w)
                                \/ LeaseExpires(w) \/ AbandonedLeaseExpires(w)
    BY <1>2, <1>5, <1>11
  <1>12. CASE \E m \in commands : Execute(m) \/ ServiceFails(m)
    BY <1>6, <1>12
  <1>13. CASE \E k \in Key : RetryFallsDue(k)
    BY <1>7, <1>13
  <1>14. QED
    BY <1>8, <1>9, <1>10, <1>11, <1>12, <1>13 DEF Next

-------------------------------------------------------------------------------
(* Commands and replies. *)

Silent(w) == \A m \in commands : m.from # w

\* A worker that does not wait for a reply has no command in the queues.
LEMMA NoCommandAfterReply ==
  ASSUME TypeOK, RpcInv, NEW w \in Worker, ~Awaits(w)
  PROVE  Silent(w)
  <1>1. ASSUME NEW m \in commands, m.from = w
        PROVE  FALSE
    <2>1. m.op \in {"create", "pay", "compensate"} /\ m.from # Nobody
      BY <1>1, NullsAreNotValues DEF TypeOK, Command
    <2>2. pc[w] \in {"user", "payment", "compensation"}
      BY <1>1, <2>1 DEF RpcInv, PlaceOf
    <2>3. ~Replied(w)
      BY <1>1, <2>1 DEF RpcInv, Replied
    <2>4. QED
      BY <2>2, <2>3 DEF Awaits
  <1>2. QED
    BY <1>1 DEF Silent

\* A step of a worker without a command in the queues.
LEMMA SilentStep ==
  ASSUME TypeOK, RpcInv, NEW w \in Worker, Silent(w),
         commands' = commands, identity' = identity,
         \A v \in Worker \ {w} : pc'[v] = pc[v] /\ reply'[v] = reply[v],
         pc'[w] = "user" => reply'[w].kind # "ok"
  PROVE  RpcInv'
  <1>1. \A m \in commands : m.from # Nobody => m.from \in Worker \ {w}
    BY DEF TypeOK, Command, Silent
  <1>2. QED
    BY <1>1 DEF RpcInv

\* A worker gives up on its command.
LEMMA OrphanedStep ==
  ASSUME TypeOK, RpcInv, NEW w \in Worker,
         commands' = Orphaned(w), identity' = identity,
         \A v \in Worker \ {w} : pc'[v] = pc[v] /\ reply'[v] = reply[v],
         pc'[w] = "user" => reply'[w].kind # "ok"
  PROVE  RpcInv'
  <1>1. \A m \in commands : m.from # Nobody => m.from \in Worker
    BY DEF TypeOK, Command
  <1>2. \A m \in commands' : m.from # Nobody => m \in commands /\ m.from # w
    <2>1. ASSUME NEW n \in commands
          PROVE  [n EXCEPT !.from = Nobody].from = Nobody
      BY DEF TypeOK, Command
    <2>2. QED
      BY <2>1 DEF Orphaned
  <1>3. QED
    BY <1>1, <1>2 DEF RpcInv

\* A worker sends its only command.
LEMMA SendStep ==
  ASSUME TypeOK, RpcInv, NEW w \in Worker, pc[w] = "dispatch",
         NEW op \in {"create", "pay", "compensate"}, Send(w, op, PlaceOf(op))
  PROVE  RpcInv'
  <1> DEFINE new == [op |-> op, key |-> key[w], payload |-> Saga(w).payload,
                     user |-> Saga(w).user, from |-> w]
  <1>1. Silent(w)
    BY NoCommandAfterReply DEF Awaits
  <1>2. \A m \in commands : m.from # Nobody => m.from \in Worker \ {w}
    BY <1>1 DEF TypeOK, Command, Silent
  <1>3. commands' = commands \cup {new} /\ identity' = identity
    BY DEF Send, services
  <1>4. /\ pc'[w] = PlaceOf(op) /\ reply'[w].kind = "none"
        /\ \A v \in Worker \ {w} : pc'[v] = pc[v] /\ reply'[v] = reply[v]
    BY DEF Send, TypeOK, NoReply
  <1>5. new.from = w /\ new.op = op
    OBVIOUS
  <1> HIDE DEF new
  <1>6. \A m \in commands' : m.from # Nobody =>
          /\ pc'[m.from] = PlaceOf(m.op)
          /\ reply'[m.from].kind = "none"
          /\ \A n \in commands' : n.from = m.from => n = m
    BY <1>1, <1>2, <1>3, <1>4, <1>5, NullsAreNotValues DEF RpcInv, Silent
  <1>7. \A v \in Worker : pc'[v] = "user" /\ reply'[v].kind = "ok" =>
                            reply'[v].user # NoUser
    BY <1>4 DEF RpcInv
  <1>8. QED
    BY <1>3, <1>6, <1>7 DEF RpcInv

\* A service takes a command off its queue and may answer it.
LEMMA RespondStep ==
  ASSUME TypeOK, RpcInv, NEW m \in commands, NEW r,
         pc' = pc,
         \/ commands' = commands \ {m} /\ reply' = reply /\ m.from = Nobody
         \/ /\ m.from # Nobody
            /\ commands' \in {commands \ {m},
                              (commands \ {m}) \cup {[m EXCEPT !.from = Nobody]}}
            /\ reply' \in {reply, [reply EXCEPT ![m.from] = r]},
         m.op = "create" /\ r.kind = "ok" => r.user # NoUser,
         \A k \in Key : identity'.requests[k] # NoRequest =>
                          identity'.requests[k].user # NoUser
  PROVE  RpcInv'
  <1>1. \A n \in commands : n.from # Nobody => n.from \in Worker
    BY DEF TypeOK, Command
  <1>2. [m EXCEPT !.from = Nobody].from = Nobody
    BY DEF TypeOK, Command
  <1>3. \A n \in commands' : n.from # Nobody =>
          /\ n \in commands
          /\ n.from # m.from
    BY <1>2 DEF RpcInv
  <1>4. \A v \in Worker : v # m.from => reply'[v] = reply[v]
    BY DEF TypeOK
  <1>5. m.from # Nobody => reply'[m.from] = r \/ reply'[m.from] = reply[m.from]
    BY <1>1 DEF TypeOK
  <1>6. \A n \in commands' : n.from # Nobody =>
          /\ pc'[n.from] = PlaceOf(n.op)
          /\ reply'[n.from].kind = "none"
          /\ \A n2 \in commands' : n2.from = n.from => n2 = n
    BY <1>1, <1>3, <1>4 DEF RpcInv
  <1>7. m.op \in {"create", "pay", "compensate"}
    BY DEF TypeOK, Command
  <1>8. \A v \in Worker : pc'[v] = "user" /\ reply'[v].kind = "ok" =>
                            reply'[v].user # NoUser
    <2>1. ASSUME NEW v \in Worker, pc'[v] = "user", reply'[v].kind = "ok"
          PROVE  reply'[v].user # NoUser
      <3>1. CASE reply'[v] = reply[v]
        BY <2>1, <3>1 DEF RpcInv
      <3>2. CASE reply'[v] # reply[v]
        <4>1. v = m.from /\ reply'[v] = r /\ m.from # Nobody
          BY <1>4, <1>5, <3>2, NullsAreNotValues
        <4>2. PlaceOf(m.op) = "user"
          BY <2>1, <4>1 DEF RpcInv
        <4>3. m.op = "create"
          BY <1>7, <4>2 DEF PlaceOf
        <4>4. QED
          BY <2>1, <4>1, <4>3
      <3>3. QED
        BY <3>1, <3>2
    <2>2. QED
      BY <2>1
  <1>9. QED
    BY <1>6, <1>8 DEF RpcInv

\* An onboarding request always names the user that was created for it, and so
\* does a successful reply.
LEMMA CreatedUser ==
  ASSUME NEW db \in Store, NEW j \in Key, NEW p \in Payload,
         \A k \in Key : db.requests[k] # NoRequest =>
                          db.requests[k].user # NoUser
  PROVE  /\ CreateReply(db, j, p).kind = "ok" =>
              CreateReply(db, j, p).user # NoUser
         /\ \A k \in Key : CreateUser(db, j, p).requests[k] # NoRequest =>
              CreateUser(db, j, p).requests[k].user # NoUser
  <1> DEFINE u == db.issued + 1
  <1>1. db.issued \in Nat /\ u # 0
    BY DEF Store
  <1>2. CASE db.requests[j] # NoRequest \/ Taken(db, p)
    BY <1>2 DEF CreateUser, CreateReply, Ok, Refusal
  <1>3. CASE ~(db.requests[j] # NoRequest \/ Taken(db, p))
    <2>1. CreateReply(db, j, p) = Ok(u)
      BY <1>3 DEF CreateReply
    <2>2. CreateUser(db, j, p).requests =
            [db.requests EXCEPT ![j] = [payload |-> p, user |-> u]]
      BY <1>3 DEF CreateUser, Store
    <2>3. \A k \in Key : CreateUser(db, j, p).requests[k] # NoRequest =>
            CreateUser(db, j, p).requests[k].user # NoUser
      BY <1>1, <2>2 DEF Store
    <2>4. QED
      BY <1>1, <2>1, <2>3 DEF Ok
  <1>4. QED
    BY <1>2, <1>3

\* compensateUser adds no onboarding request.
LEMMA RemovedUser ==
  ASSUME NEW db \in Store, NEW j \in Key, NEW u \in Nat, NEW k \in Key,
         CompensateUser(db, j, u).requests[k] # NoRequest
  PROVE  CompensateUser(db, j, u).requests[k] = db.requests[k]
  BY DEF CompensateUser, Store

\* The services answer a worker about the command it waits for.
LEMMA RpcStepService ==
  ASSUME IInv, NEW m \in commands, Execute(m) \/ ServiceFails(m)
  PROVE  RpcInv'
  <1>1. TypeOK /\ RpcInv
    BY DEF IInv
  <1>2. /\ m.key \in Key /\ m.payload \in Payload /\ m.user \in Nat
        /\ identity \in Store
    BY <1>1 DEF TypeOK, Command
  <1>3. \A k \in Key : identity.requests[k] # NoRequest =>
                         identity.requests[k].user # NoUser
    BY <1>1 DEF RpcInv
  <1>4. CASE ExecuteCreate(m)
    <2> DEFINE r == CreateReply(identity, m.key, m.payload)
    <2>1. identity' = CreateUser(identity, m.key, m.payload) /\ pc' = pc
          /\ Respond(m, r)
      BY <1>4 DEF ExecuteCreate
    <2>2. r.kind = "ok" => r.user # NoUser
      BY <1>2, <1>3, CreatedUser
    <2>3. \A k \in Key : identity'.requests[k] # NoRequest =>
                           identity'.requests[k].user # NoUser
      BY <1>2, <1>3, <2>1, CreatedUser
    <2> HIDE DEF r
    <2>4. QED
      BY <1>1, <2>1, <2>2, <2>3, RespondStep DEF Respond
  <1>5. CASE ExecuteCompensate(m)
    <2>1. identity' = CompensateUser(identity, m.key, m.user) /\ pc' = pc
          /\ m.op # "create"
          /\ \E r : Respond(m, r)
      BY <1>5 DEF ExecuteCompensate
    <2>2. \A k \in Key : identity'.requests[k] # NoRequest =>
                           identity'.requests[k].user # NoUser
      BY <1>2, <1>3, <2>1, RemovedUser
    <2>3. QED
      BY <1>1, <2>1, <2>2, RespondStep DEF Respond
  <1>6. CASE ExecutePayment(m)
    <2>1. identity' = identity /\ pc' = pc /\ m.op # "create"
          /\ \E r : Respond(m, r)
      BY <1>6 DEF ExecutePayment
    <2>2. QED
      BY <1>1, <1>3, <2>1, RespondStep DEF Respond
  <1>7. CASE ServiceFails(m)
    <2>1. identity' = identity /\ pc' = pc /\ Unavailable.kind # "ok"
          /\ commands' = commands \ {m}
          /\ reply' = IF m.from = Nobody THEN reply
                      ELSE [reply EXCEPT ![m.from] = Unavailable]
      BY <1>7 DEF ServiceFails, services, Unavailable
    <2>2. QED
      BY <1>1, <1>3, <2>1, RespondStep
  <1>8. QED
    BY <1>4, <1>5, <1>6, <1>7 DEF Execute

\* The workers have at most one command each in the queues.
LEMMA RpcStepWorker ==
  ASSUME IInv, NEW w \in Worker,
         Deliver(w) \/ WaiterSeesSettled(w) \/ WaiterGivesUp(w) \/ ClaimBatch(w)
         \/ Run(w) \/ TimeOut(w) \/ Die(w)
  PROVE  RpcInv'
  <1>1. TypeOK /\ RpcInv /\ PlaceInv
    BY DEF IInv
  <1>2. ASSUME ~Awaits(w), commands' = commands, identity' = identity,
               \A v \in Worker \ {w} : pc'[v] = pc[v] /\ reply'[v] = reply[v],
               pc'[w] # "user"
        PROVE  RpcInv'
    BY <1>1, <1>2, NoCommandAfterReply, SilentStep
  <1>3. ASSUME NEW k, NEW row, Start(w, k, row)
        PROVE  /\ \A v \in Worker \ {w} : pc'[v] = pc[v]
               /\ pc'[w] # "user"
    BY <1>1, <1>3 DEF Start, End, TypeOK
  <1>4. ASSUME NEW k \in Key, NEW p \in Payload,
               Acquire(w, k, p) \/ RejectReusedKey(w, k, p) \/ JoinWaiters(w, k, p)
        PROVE  RpcInv'
    <2>1. ~Awaits(w) /\ commands' = commands /\ identity' = identity
          /\ reply' = reply
      BY <1>4 DEF Acquire, RejectReusedKey, JoinWaiters, Fresh, Awaits, services
    <2>2. (\A v \in Worker \ {w} : pc'[v] = pc[v]) /\ pc'[w] # "user"
      BY <1>1, <1>3, <1>4 DEF Acquire, RejectReusedKey, JoinWaiters, TypeOK
    <2>3. QED
      BY <1>2, <2>1, <2>2
  <1>5. CASE WaiterSeesSettled(w) \/ WaiterGivesUp(w) \/ ClaimBatch(w)
             \/ EndPass(w) \/ Depart(w) \/ Release(w)
    <2>1. ~Awaits(w) /\ commands' = commands /\ identity' = identity
          /\ reply' = reply
      BY <1>5 DEF WaiterSeesSettled, WaiterGivesUp, ClaimBatch, EndPass, Depart,
                  Release, At, Fresh, Awaits, services
    <2>2. \E place \in {"answered", "batch", "idle"} :
             pc' = [pc EXCEPT ![w] = place]
      BY <1>5 DEF WaiterSeesSettled, WaiterGivesUp, ClaimBatch, EndPass, Depart,
                  Release
    <2>3. (\A v \in Worker \ {w} : pc'[v] = pc[v]) /\ pc'[w] # "user"
      BY <1>1, <2>2 DEF TypeOK
    <2>4. QED
      BY <1>2, <2>1, <2>3
  <1>6. CASE NextOfBatch(w)
    <2>1. ~Awaits(w) /\ commands' = commands /\ identity' = identity
          /\ reply' = reply
      BY <1>6 DEF NextOfBatch, Awaits, services
    <2>2. (\A v \in Worker \ {w} : pc'[v] = pc[v]) /\ pc'[w] # "user"
      BY <1>3, <1>6 DEF NextOfBatch
    <2>3. QED
      BY <1>2, <2>1, <2>2
  <1>7. CASE FinishUser(w) \/ FinishPayment(w) \/ FinishCompensation(w)
             \/ Complete(w)
    <2>1. ~Awaits(w) /\ commands' = commands /\ identity' = identity
      BY <1>7 DEF FinishUser, FinishPayment, FinishCompensation, Complete,
                  Dispatches, Awaits, Replied, services
    <2>2. reply' = reply \/ reply' = [reply EXCEPT ![w] = NoReply]
      BY <1>7 DEF FinishUser, FinishPayment, FinishCompensation, Complete
    <2>3. \E place \in {"dispatch", "release"} : pc' = [pc EXCEPT ![w] = place]
      BY <1>7 DEF FinishUser, FinishPayment, FinishCompensation, Complete,
                  Transition, FinalTransition, End
    <2>4. (\A v \in Worker \ {w} : pc'[v] = pc[v] /\ reply'[v] = reply[v])
          /\ pc'[w] # "user"
      BY <1>1, <2>2, <2>3 DEF TypeOK
    <2>5. QED
      BY <1>2, <2>1, <2>4
  <1>8. CASE SendCreateUser(w) \/ SendPayment(w) \/ SendCompensation(w)
    <2>1. \E op \in {"create", "pay", "compensate"} : Send(w, op, PlaceOf(op))
      BY <1>8 DEF SendCreateUser, SendPayment, SendCompensation, PlaceOf
    <2>2. pc[w] = "dispatch"
      BY <1>8 DEF SendCreateUser, SendPayment, SendCompensation, Dispatches
    <2>3. QED
      BY <1>1, <2>1, <2>2, SendStep
  <1>9. CASE TimeOut(w)
    <2>1. /\ commands' = Orphaned(w) /\ identity' = identity /\ pc' = pc
          /\ reply' = [reply EXCEPT ![w] = Unavailable]
      BY <1>9 DEF TimeOut, services
    <2>2. (\A v \in Worker \ {w} : reply'[v] = reply[v])
          /\ reply'[w].kind # "ok"
      BY <1>1, <2>1 DEF TypeOK, Unavailable
    <2>3. QED
      BY <1>1, <2>1, <2>2, OrphanedStep
  <1>10. CASE Die(w)
    <2>1. /\ commands' = Orphaned(w) /\ identity' = identity
          /\ pc' = [pc EXCEPT ![w] = "idle"]
          /\ reply' = [reply EXCEPT ![w] = NoReply]
      BY <1>10 DEF Die, services
    <2>2. (\A v \in Worker \ {w} : pc'[v] = pc[v] /\ reply'[v] = reply[v])
          /\ pc'[w] # "user"
      BY <1>1, <2>1 DEF TypeOK
    <2>3. QED
      BY <1>1, <2>1, <2>2, OrphanedStep
  <1>11. QED
    BY <1>4, <1>5, <1>6, <1>7, <1>8, <1>9, <1>10 DEF Deliver, Run

\* Every step keeps commands and replies matched.
LEMMA RpcStep ==
  ASSUME IInv, [Next]_vars
  PROVE  RpcInv'
  <1>1. RpcInv
    BY DEF IInv
  <1>2. ASSUME UNCHANGED <<identity, commands, pc, reply>>
        PROVE  RpcInv'
    BY <1>1, <1>2 DEF RpcInv
  <1>3. CASE UNCHANGED vars
    BY <1>2, <1>3 DEF vars
  <1>4. CASE \E w \in Caller :
                Deliver(w) \/ WaiterSeesSettled(w) \/ WaiterGivesUp(w)
    BY <1>4, WorkersAreTwoKinds, RpcStepWorker
  <1>5. CASE \E w \in Recoverer : ClaimBatch(w)
    BY <1>5, WorkersAreTwoKinds, RpcStepWorker
  <1>6. CASE \E w \in Worker : Run(w) \/ TimeOut(w) \/ Die(w)
    BY <1>6, RpcStepWorker
  <1>7. CASE \E w \in Worker : LeaseExpires(w) \/ AbandonedLeaseExpires(w)
    BY <1>2, <1>7 DEF LeaseExpires, AbandonedLeaseExpires, services, worker
  <1>8. CASE \E m \in commands : Execute(m) \/ ServiceFails(m)
    BY <1>8, RpcStepService
  <1>9. CASE \E k \in Key : RetryFallsDue(k)
    BY <1>2, <1>9 DEF RetryFallsDue, worker
  <1>10. QED
    BY <1>3, <1>4, <1>5, <1>6, <1>7, <1>8, <1>9 DEF Next

-------------------------------------------------------------------------------
(* The theorems. *)

\* The invariant holds when nothing has happened.
LEMMA InitInv == Init => IInv
  <1> SUFFICES ASSUME Init PROVE IInv
    OBVIOUS
  <1>1. TypeOK
    BY TypeInit
  <1>2. RowOK(AbsentRow)
    BY AbsentRowFields DEF RowOK
  <1>3. /\ \A k \in Key : ledger[k] = AbsentRow
        /\ \A w \in Worker, k \in Key : snap[w][k] = AbsentRow
        /\ \A w \in Worker : pc[w] = "idle" /\ todo[w] = {}
    BY DEF Init, NoRows
  <1>4. RowInv
    BY <1>2, <1>3 DEF RowInv
  <1>5. LockInv
    BY <1>3 DEF LockInv, LockOK
  <1>6. PlaceInv
    BY <1>3 DEF PlaceInv, PlaceOK, Running
  <1>7. RpcInv
    BY <1>3 DEF RpcInv, Init, EmptyStore
  <1>8. QED
    BY <1>1, <1>4, <1>5, <1>6, <1>7 DEF IInv

\* Every step keeps the invariant.
LEMMA StepInv == IInv /\ [Next]_vars => IInv'
  BY TypeStep, RowStepInv, LockPlaceStep, RpcStep DEF IInv

\* The inductive invariant holds in every reachable state.
THEOREM Invariant == Spec => []IInv
  BY InitInv, StepInv, PTL DEF Spec

\* Every variable has its type: in particular no command is sent for a saga
\* without a payload, and a row is only ever locked by a worker.
THEOREM TypeCorrect == Spec => []TypeOK
  <1>1. IInv => TypeOK
    BY DEF IInv
  <1>2. QED
    BY <1>1, Invariant, PTL

\* Whatever the interleaving, the worker named in locked_by acts on the row as
\* it is, for any number of instances, sagas, timeouts and crashes.
THEOREM HolderIsUpToDate == Spec => []HolderKnowsRow
  <1>1. IInv => HolderKnowsRow
    BY DEF IInv, LockInv, LockOK, HolderKnowsRow
  <1>2. QED
    BY <1>1, Invariant, PTL

\* The statuses only move along Forward, a row that failed for good never
\* changes again, and the user of a saga is never replaced.
THEOREM StatusIsMonotone == Spec => StatusMovesForward
  <1>1. IInv /\ [Next]_vars => [StepOK]_vars
    BY EveryStep
  <1>2. StepOK => \A k \in Key :
       /\ ledger'[k].status # ledger[k].status =>
            <<ledger[k].status, ledger'[k].status>> \in Forward
       /\ IsTerminalFailure(ledger[k]) =>
            [ledger'[k] EXCEPT !.lockedBy = Nobody] =
            [ledger[k] EXCEPT !.lockedBy = Nobody]
       /\ ledger[k].user # NoUser => ledger'[k].user = ledger[k].user
    BY DEF StepOK, RowStep
  <1>3. QED
    BY <1>1, <1>2, Invariant, PTL DEF Spec, StatusMovesForward

\* No row is ever COMPENSATED, although markCompensated is there to mark it:
\* markFailed clears the lock that markCompensated tests.
THEOREM NothingIsCompensated ==
  Spec => [](\A k \in Key : ledger[k].status # "COMPENSATED")
  <1>1. IInv => \A k \in Key : ledger[k].status # "COMPENSATED"
    BY DEF IInv, RowInv, RowOK
  <1>2. QED
    BY <1>1, Invariant, PTL

\* The errors for incomplete snapshots and the NOOP branch are never reached.
THEOREM SnapshotIsEnough == Spec => []SnapshotSuffices
  <1>1. IInv => SnapshotSuffices
    <2> SUFFICES ASSUME IInv, NEW w \in Worker, pc[w] = "dispatch"
                 PROVE  /\ Saga(w).next # "NOOP"
                        /\ Saga(w).next # "PROCESS_USER" => Saga(w).user # NoUser
                        /\ Saga(w).next = "COMPLETE" => Saga(w).paid
      BY DEF SnapshotSuffices
    <2>1. /\ Saga(w) \in Row /\ RowOK(Saga(w))
          /\ Saga(w).status \notin {"ABSENT", "COMPLETED"}
      BY RunningHasKey DEF IInv, Running
    <2>2. QED
      BY <2>1 DEF RowOK, Row
  <1>2. QED
    BY <1>1, Invariant, PTL
===============================================================================
