------------------------ MODULE OnboardingPromiseProofs ------------------------
(***************************************************************************)
(* That sagas keep the promise of AccountCreation, for every number of     *)
(* keys, payloads, workers and faults.                                     *)
(*                                                                         *)
(* OnboardingSagaProofs knows how one row moves and who may move it.  What *)
(* is missing is the agreement of the three databases: which request and   *)
(* which user the identity service has for a row, which intent the payment *)
(* service has, and that no command or reply, however late, speaks of      *)
(* another payload or user than the row does.  IdentityInv, PaymentInv,    *)
(* CommandInv, ReplyInv and SnapInv say so; AnswerInv says of whose        *)
(* success a worker speaks.                                                *)
(***************************************************************************)
EXTENDS OnboardingSagaProofs

USE DEF NoUser, Status, NextAction, Problem, Place, Answer

Known(k) == ledger[k].status # "ABSENT"
Failing(k) == IsTerminalFailure(ledger[k])

\* The request of row k, as the identity and payment services should have it.
Of(k) == [payload |-> ledger[k].payload, user |-> ledger[k].user]

\* A copy of a row is of the row as it was: the payload and the user never
\* change, and a failure that stands in a copy stands in the row.
SnapInv ==
  \A w \in Worker, k \in Key : snap[w][k].status # "ABSENT" =>
    /\ Known(k)
    /\ snap[w][k].payload = ledger[k].payload
    /\ snap[w][k].user # NoUser => snap[w][k].user = ledger[k].user
    /\ snap[w][k].next = "COMPENSATE_USER" => Failing(k)

CommandInv ==
  \A m \in commands :
    /\ Known(m.key)
    /\ m.payload = ledger[m.key].payload
    /\ m.op # "create" => m.user # NoUser /\ m.user = ledger[m.key].user
    /\ m.op = "compensate" => Failing(m.key)
    /\ m.from # Nobody => m.key = key[m.from]

\* The identity database by itself: every request has its user, of its payload;
\* users and handles are distinct.
Sound(db) ==
  /\ \A k \in Key : db.requests[k] # NoRequest =>
       [id |-> db.requests[k].user,
        handles |-> HandlesOf[db.requests[k].payload]] \in db.users
  /\ \A j, k \in Key :
       db.requests[j] # NoRequest /\ db.requests[j].user = db.requests[k].user
       => j = k
  /\ \A usr \in db.users : usr.id <= db.issued
  /\ \A usr, other \in db.users :
       usr.handles \cap other.handles # {} => usr = other

\* The identity database and the rows: until a saga has failed for good its
\* user stands, under its key; a user is never that of two keys.
Backed(k, db) ==
  /\ ledger[k].user <= db.issued
  /\ \A j \in Key :
       db.requests[j] # NoRequest /\ db.requests[j].user = ledger[k].user
       => j = k
  /\ ledger[k].user # NoUser /\ ~Failing(k) => db.requests[k] = Of(k)
  /\ db.receipts[k] # 0 => Failing(k)

IdentityInv == Sound(identity) /\ \A k \in Key : Backed(k, identity)

\* The payment database and the rows: whether a payment is accepted depends on
\* the payload alone.
PaymentInv ==
  \A k \in Key :
    /\ Failing(k) => ledger[k].payload \notin Supported
    /\ intents[k] # NoRequest => /\ ledger[k].payload \in Supported
                                 /\ ledger[k].user # NoUser
                                 /\ intents[k] = Of(k)
    /\ ledger[k].status \in {"PAYMENT_CREATED", "COMPLETED"} =>
         intents[k] # NoRequest

\* What a reply says is so, or the saga has failed since.
ReplyOK(w) ==
  /\ pc[w] = "user" /\ reply[w].kind = "ok" =>
       \/ Failing(key[w])
       \/ identity.requests[key[w]] = [payload |-> ledger[key[w]].payload,
                                       user |-> reply[w].user]
  /\ pc[w] = "payment" /\ reply[w].kind = "ok" => intents[key[w]] # NoRequest
  /\ pc[w] = "payment" /\ reply[w].kind = "permanent" =>
       ledger[key[w]].payload \notin Supported

ReplyInv == \A w \in Worker : ReplyOK(w)

AnswerInv ==
  \A w \in Worker : answer[w] \in {"created", "replayed"} =>
    /\ pc[w] \in {"release", "answered"}
    /\ ledger[key[w]].status = "COMPLETED"

DataInv ==
  SnapInv /\ CommandInv /\ IdentityInv /\ PaymentInv /\ ReplyInv /\ AnswerInv

-------------------------------------------------------------------------------
(* How the rows move. *)

\* The row without its lock and its backoff.
Bare(row) == [row EXCEPT !.lockedBy = Nobody, !.due = TRUE]

Moves(k) ==
  \/ /\ ledger[k] = AbsentRow
     /\ \E p \in Payload, w \in Worker : ledger'[k] = Locked(FreshRow(p), w)
  \/ \E w \in Worker :
       /\ pc[w] = "user" /\ key[w] = k /\ reply[w].kind = "ok"
       /\ ledger[k].status = "STARTED"
       /\ ledger'[k] = UserCreated(ledger[k], reply[w].user)
  \/ \E w \in Worker :
       /\ pc[w] = "payment" /\ key[w] = k
       /\ ledger[k].status \in {"USER_CREATED", "FAILED"} /\ ~Failing(k)
       /\ \/ /\ reply[w].kind = "ok"
             /\ ledger'[k] = PaymentCreated(ledger[k])
          \/ /\ reply[w].kind \in {"permanent", "transient"}
             /\ ledger'[k] = Failed(ledger[k], reply[w].kind)
  \/ /\ ledger[k].status = "PAYMENT_CREATED"
     /\ ledger'[k] = Completed(ledger[k], ledger[k].user)

\* A step moves one row, of which the services do not know at once, or none.
LedgerStep ==
  \/ \A k \in Key : Bare(ledger'[k]) = Bare(ledger[k])
  \/ /\ identity' = identity /\ intents' = intents /\ commands' = commands
     /\ \E k \in Key : /\ Moves(k)
                       /\ \A j \in Key \ {k} : ledger'[j] = ledger[j]

\* Locks and backoffs are no part of a bare row.
LEMMA BareLocks ==
  ASSUME NEW row \in Row, NEW w
  PROVE  /\ Bare(Locked(row, w)) = Bare(row)
         /\ Bare(Released(row, w)) = Bare(row)
         /\ Bare([row EXCEPT !.due = TRUE]) = Bare(row)
  BY DEF Bare, Locked, Released, Row

\* What two rows share that differ in locks and backoffs only.
LEMMA BareFields ==
  ASSUME NEW row \in Row, NEW new \in Row, Bare(new) = Bare(row)
  PROVE  /\ new.status = row.status /\ new.payload = row.payload
         /\ new.user = row.user /\ new.response = row.response
         /\ IsTerminalFailure(new) = IsTerminalFailure(row)
         /\ IsCompleted(new) = IsCompleted(row)
  <1>1. /\ new.status = row.status /\ new.payload = row.payload
        /\ new.user = row.user /\ new.response = row.response
        /\ new.retryable = row.retryable /\ new.error = row.error
    BY DEF Bare, Row
  <1>2. QED
    BY <1>1 DEF IsTerminalFailure, IsCompleted

\* A guarded write moves the row of its worker, or none.
LEMMA TransitionMoves ==
  ASSUME TypeOK, NEW w \in Worker, key[w] \in Key, NEW row,
         Holds(w) => (ledger'[key[w]] = row => Moves(key[w])),
         Transition(w, row) \/ \E a \in Answer : FinalTransition(w, row, a),
         identity' = identity, intents' = intents, commands' = commands
  PROVE  LedgerStep
  <1>1. CASE Holds(w)
    <2>1. ledger' = [ledger EXCEPT ![key[w]] = row]
      BY <1>1 DEF Transition, FinalTransition
    <2>2. ledger'[key[w]] = row
      BY <2>1 DEF TypeOK
    <2>3. Moves(key[w])
      BY <1>1, <2>2
    <2>4. \A j \in Key \ {key[w]} : ledger'[j] = ledger[j]
      BY <2>1 DEF TypeOK
    <2>5. QED
      BY <2>3, <2>4 DEF LedgerStep
  <1>2. CASE ~Holds(w)
    BY <1>2 DEF Transition, FinalTransition, LedgerStep
  <1>3. QED
    BY <1>1, <1>2

\* Every step of the system is a LedgerStep.
LEMMA EveryLedgerStep ==
  ASSUME IInv, [Next]_vars
  PROVE  LedgerStep
  <1>1. TypeOK /\ RowInv /\ PlaceInv /\ RpcInv
    BY DEF IInv
  <1>2. \A k \in Key : ledger[k] \in Row /\ RowOK(ledger[k])
    BY <1>1 DEF TypeOK, RowInv
  <1>3. CASE ledger' = ledger
    BY <1>3 DEF LedgerStep
  <1>4. ASSUME NEW w \in Worker, NEW k \in Key, NEW p \in Payload, Acquire(w, k, p)
        PROVE  LedgerStep
    <2>1. ledger' = [ledger EXCEPT ![k] = Locked(Arrived(k, p), w)]
          /\ identity' = identity /\ intents' = intents /\ commands' = commands
      BY <1>4 DEF Acquire, services
    <2>2. /\ ledger'[k] = Locked(Arrived(k, p), w)
          /\ \A j \in Key \ {k} : ledger'[j] = ledger[j]
      BY <1>1, <2>1 DEF TypeOK
    <2>3. CASE ledger[k] = AbsentRow
      <3>1. Moves(k)
        BY <2>2, <2>3 DEF Moves, Arrived
      <3>2. QED
        BY <2>1, <2>2, <3>1 DEF LedgerStep
    <2>4. CASE ledger[k] # AbsentRow
      <3>1. ledger'[k] = Locked(ledger[k], w)
        BY <2>2, <2>4 DEF Arrived
      <3>2. Bare(ledger'[k]) = Bare(ledger[k])
        BY <1>2, <3>1, BareLocks
      <3>3. \A j \in Key : Bare(ledger'[j]) = Bare(ledger[j])
        BY <2>2, <3>2
      <3>4. QED
        BY <3>3 DEF LedgerStep
    <2>5. QED
      BY <2>3, <2>4
  <1>5. ASSUME NEW w \in Worker, ClaimBatch(w)
        PROVE  LedgerStep
    <2>1. PICK batch \in SUBSET Key :
            ledger' = [k \in Key |-> IF k \in batch THEN Locked(ledger[k], w)
                                                    ELSE ledger[k]]
      BY <1>5 DEF ClaimBatch
    <2>2. QED
      BY <1>2, <2>1, BareLocks DEF LedgerStep
  <1>6. ASSUME NEW w \in Worker, pc[w] \in Running
        PROVE  key[w] \in Key
    BY <1>1, <1>6, RunningHasKey
  <1>7. ASSUME NEW w \in Worker, FinishUser(w)
        PROVE  LedgerStep
    <2>1. pc[w] = "user" /\ pc[w] \in Running
      BY <1>7 DEF FinishUser, At, Running
    <2>2. CASE reply[w].kind = "ok"
      <3>1. /\ Transition(w, UserCreated(ledger[key[w]], reply[w].user))
            /\ identity' = identity /\ intents' = intents
            /\ commands' = commands
        BY <1>7, <2>2 DEF FinishUser, services
      <3>2. Holds(w) => ledger[key[w]].status = "STARTED"
        <4>1. Saga(w).next = "PROCESS_USER"
          BY <1>1, <2>1 DEF PlaceInv, PlaceOK
        <4>2. 1 \in Nat \ {NoUser}
          OBVIOUS
        <4>3. QED
          BY <2>1, <4>1, <4>2, HolderSees, RowOKTransitions
      <3>3. Holds(w) =>
              (ledger'[key[w]] = UserCreated(ledger[key[w]], reply[w].user)
               => Moves(key[w]))
        BY <2>1, <2>2, <3>2 DEF Moves
      <3>4. QED
        BY <1>1, <1>6, <2>1, <3>1, <3>3, TransitionMoves
    <2>3. CASE reply[w].kind # "ok"
      BY <1>3, <1>7, <2>3 DEF FinishUser
    <2>4. QED
      BY <2>2, <2>3
  <1>8. ASSUME NEW w \in Worker, FinishPayment(w)
        PROVE  LedgerStep
    <2> DEFINE row == IF reply[w].kind = "ok"
                      THEN PaymentCreated(ledger[key[w]])
                      ELSE Failed(ledger[key[w]], reply[w].kind)
    <2>1. pc[w] = "payment" /\ pc[w] \in Running
      BY <1>8 DEF FinishPayment, At, Running
    <2>2. reply[w].kind \in {"ok", "permanent", "transient"}
      BY <1>1, <1>8 DEF TypeOK, Reply, FinishPayment, Replied
    <2>3. Transition(w, row)
          /\ identity' = identity /\ intents' = intents /\ commands' = commands
      BY <1>8 DEF FinishPayment, services
    <2>4. Holds(w) => ledger[key[w]].status \in {"USER_CREATED", "FAILED"}
                      /\ ~Failing(key[w])
      <3>1. Saga(w).next = "PROCESS_PAYMENT"
        BY <1>1, <2>1 DEF PlaceInv, PlaceOK
      <3>2. 1 \in Nat \ {NoUser}
        OBVIOUS
      <3>3. Holds(w) => /\ ledger[key[w]].status \in {"USER_CREATED", "FAILED"}
                        /\ ledger[key[w]].status = "FAILED" =>
                             ledger[key[w]].retryable
        BY <2>1, <3>1, <3>2, HolderSees, RowOKTransitions
      <3>4. QED
        BY <3>3 DEF Failing, IsTerminalFailure
    <2>5. Holds(w) => (ledger'[key[w]] = row => Moves(key[w]))
      BY <2>1, <2>2, <2>4 DEF Moves
    <2> HIDE DEF row
    <2>6. QED
      BY <1>1, <1>6, <2>1, <2>3, <2>5, TransitionMoves
  <1>9. ASSUME NEW w \in Worker, FinishCompensation(w)
        PROVE  LedgerStep
    <2>1. pc[w] = "compensation"
      BY <1>9 DEF FinishCompensation, At
    <2>2. ~Holds(w)
      BY <1>1, <2>1 DEF PlaceInv, PlaceOK, Running
    <2>3. QED
      BY <1>3, <1>9, <2>2 DEF FinishCompensation, FinalTransition
  <1>10. ASSUME NEW w \in Worker, Complete(w)
         PROVE  LedgerStep
    <2>1. pc[w] \in Running /\ Saga(w).next = "COMPLETE"
      BY <1>10 DEF Complete, Dispatches, Running
    <2>2. Holds(w) => /\ ledger[key[w]].status = "PAYMENT_CREATED"
                      /\ ledger[key[w]].user = Saga(w).user
      <3>1. 1 \in Nat \ {NoUser}
        OBVIOUS
      <3>2. QED
        BY <2>1, <3>1, HolderSees, RowOKTransitions
    <2>3. Holds(w) =>
            (ledger'[key[w]] = Completed(ledger[key[w]], Saga(w).user)
             => Moves(key[w]))
      BY <2>2 DEF Moves
    <2>4. QED
      BY <1>1, <1>6, <1>10, <2>1, <2>3, TransitionMoves DEF Complete, services
  <1>11. ASSUME NEW w \in Worker, Release(w)
         PROVE  LedgerStep
    <2>1. key[w] \in Key
      BY <1>1, <1>11 DEF Release, At, PlaceInv, PlaceOK
    <2>2. ledger' = [ledger EXCEPT ![key[w]] = Released(ledger[key[w]], w)]
      BY <1>11 DEF Release
    <2>3. \A k \in Key : ledger'[k] \in {ledger[k], Released(ledger[k], w)}
      BY <1>1, <2>1, <2>2 DEF TypeOK
    <2>4. QED
      BY <1>2, <2>3, BareLocks DEF LedgerStep
  <1>12. ASSUME NEW w \in Worker, AbandonedLeaseExpires(w)
         PROVE  LedgerStep
    BY <1>2, <1>12, BareLocks DEF AbandonedLeaseExpires, LedgerStep
  <1>13. ASSUME NEW k \in Key, RetryFallsDue(k)
         PROVE  LedgerStep
    <2>1. ledger' = [ledger EXCEPT ![k] = [ledger[k] EXCEPT !.due = TRUE]]
      BY <1>13 DEF RetryFallsDue
    <2>2. \A j \in Key :
             ledger'[j] \in {ledger[j], [ledger[j] EXCEPT !.due = TRUE]}
      BY <1>1, <2>1 DEF TypeOK
    <2>3. QED
      BY <1>2, <2>2, BareLocks DEF LedgerStep
  <1>14. ASSUME NEW w \in Worker, Run(w)
         PROVE  LedgerStep
    BY <1>3, <1>7, <1>8, <1>9, <1>10, <1>11, <1>14
       DEF Run, SendCreateUser, SendPayment, SendCompensation, Send, Depart,
           NextOfBatch, EndPass
  <1>15. ASSUME NEW w \in Caller,
                Deliver(w) \/ WaiterSeesSettled(w) \/ WaiterGivesUp(w)
         PROVE  LedgerStep
    BY <1>3, <1>4, <1>15, WorkersAreTwoKinds
       DEF Deliver, RejectReusedKey, JoinWaiters, WaiterSeesSettled,
           WaiterGivesUp
  <1>16. ASSUME NEW m \in commands, Execute(m) \/ ServiceFails(m)
         PROVE  LedgerStep
    BY <1>3, <1>16 DEF Execute, ExecuteCreate, ExecutePayment,
       ExecuteCompensate, ServiceFails
  <1>17. ASSUME NEW w \in Worker, TimeOut(w) \/ LeaseExpires(w) \/ Die(w)
         PROVE  LedgerStep
    BY <1>3, <1>17 DEF TimeOut, LeaseExpires, Die, worker
  <1>18. QED
    BY <1>3, <1>5, <1>12, <1>13, <1>14, <1>15, <1>16, <1>17,
       WorkersAreTwoKinds DEF Next, vars

\* What no step takes back.
LEMMA Keeps ==
  ASSUME IInv, [Next]_vars, NEW k \in Key
  PROVE  /\ Known(k) => Known(k)' /\ ledger'[k].payload = ledger[k].payload
         /\ ledger[k].user # NoUser => ledger'[k].user = ledger[k].user
         /\ Failing(k) => Failing(k)'
         /\ ledger[k].status = "COMPLETED" => ledger'[k].status = "COMPLETED"
  <1>1. TypeOK /\ RowInv /\ TypeOK' /\ RowInv'
    BY StepInv DEF IInv
  <1>2. /\ ledger[k] \in Row /\ RowOK(ledger[k])
        /\ ledger'[k] \in Row /\ RowOK(ledger'[k])
    BY <1>1 DEF TypeOK, RowInv
  <1>3. RowStep(ledger[k], ledger'[k])
    BY EveryStep DEF StepOK
  <1>4. LedgerStep
    BY EveryLedgerStep
  <1>5. /\ Known(k) => Known(k)'
        /\ ledger[k].user # NoUser => ledger'[k].user = ledger[k].user
        /\ ledger[k].status = "COMPLETED" => ledger'[k].status = "COMPLETED"
    BY <1>3 DEF RowStep, Known, Forward
  <1>6. Failing(k) => Failing(k)'
    <2>1. ASSUME Failing(k) PROVE Failing(k)'
      <3>1. [ledger'[k] EXCEPT !.lockedBy = Nobody] =
            [ledger[k] EXCEPT !.lockedBy = Nobody]
        BY <1>3, <2>1 DEF RowStep, Failing
      <3>2. /\ ledger'[k].status = ledger[k].status
            /\ ledger'[k].retryable = ledger[k].retryable
            /\ ledger'[k].error = ledger[k].error
        BY <1>2, <3>1 DEF Row
      <3>3. QED
        BY <2>1, <3>2 DEF Failing, IsTerminalFailure
    <2>2. QED
      BY <2>1
  <1>7. Known(k) => ledger'[k].payload = ledger[k].payload
    <2>1. CASE Bare(ledger'[k]) = Bare(ledger[k])
      BY <1>2, <2>1, BareFields
    <2>2. CASE Moves(k)
      <3>1. ledger[k] # AbsentRow => ledger'[k].payload = ledger[k].payload
        <4>1. \/ ledger[k] = AbsentRow
              \/ \E u : ledger'[k] = UserCreated(ledger[k], u)
              \/ ledger'[k] = PaymentCreated(ledger[k])
              \/ \E problem : ledger'[k] = Failed(ledger[k], problem)
              \/ \E u : ledger'[k] = Completed(ledger[k], u)
          BY <2>2 DEF Moves
        <4>2. \A u : UserCreated(ledger[k], u).payload = ledger[k].payload
                     /\ Completed(ledger[k], u).payload = ledger[k].payload
          BY <1>2 DEF UserCreated, Completed, Row
        <4>3. \A problem : Failed(ledger[k], problem).payload =
                             ledger[k].payload
          BY <1>2 DEF Failed, Row
        <4>4. PaymentCreated(ledger[k]).payload = ledger[k].payload
          BY <1>2 DEF PaymentCreated, Row
        <4>5. QED
          BY <4>1, <4>2, <4>3, <4>4
      <3>2. QED
        BY <3>1, AbsentRowFields DEF Known
    <2>3. CASE ledger'[k] = ledger[k]
      BY <2>3
    <2>4. QED
      BY <1>4, <2>1, <2>2, <2>3 DEF LedgerStep
  <1>8. QED
    BY <1>5, <1>6, <1>7

-------------------------------------------------------------------------------
(* Copies and commands. *)

\* A sound row whose action is to compensate has failed.
LEMMA CompensatingRow ==
  ASSUME NEW row \in Row, RowOK(row), row.next = "COMPENSATE_USER"
  PROVE  IsTerminalFailure(row)
  <1>1. row.status = "FAILED"
    BY AbsentRowFields DEF RowOK, Row
  <1>2. ~row.retryable /\ row.error = "permanent"
    BY <1>1 DEF RowOK, Row
  <1>3. QED
    BY <1>1, <1>2 DEF IsTerminalFailure

\* Copies stay copies.
LEMMA SnapStep ==
  ASSUME IInv, SnapInv, [Next]_vars
  PROVE  SnapInv'
  <1>1. TypeOK' /\ RowInv'
    BY StepInv DEF IInv
  <1> SUFFICES ASSUME NEW w \in Worker, NEW k \in Key,
                      snap'[w][k].status # "ABSENT"
               PROVE  /\ Known(k)'
                      /\ snap'[w][k].payload = ledger'[k].payload
                      /\ snap'[w][k].user # NoUser =>
                           snap'[w][k].user = ledger'[k].user
                      /\ snap'[w][k].next = "COMPENSATE_USER" => Failing(k)'
    BY DEF SnapInv
  <1>2. snap'[w][k] \in {snap[w][k], AbsentRow, ledger'[k]}
    BY EveryStep DEF StepOK
  <1>3. CASE snap'[w][k] = snap[w][k]
    BY <1>3, Keeps DEF SnapInv
  <1>4. CASE snap'[w][k] = AbsentRow
    BY <1>4, AbsentRowFields
  <1>5. CASE snap'[w][k] = ledger'[k]
    <2>1. ledger'[k] \in Row /\ RowOK(ledger'[k])
      BY <1>1 DEF TypeOK, RowInv
    <2>2. ledger'[k].next = "COMPENSATE_USER" => Failing(k)'
      BY <2>1, CompensatingRow DEF Failing
    <2>3. QED
      BY <1>5, <2>2 DEF Known
  <1>6. QED
    BY <1>2, <1>3, <1>4, <1>5

\* A running worker runs a saga that exists, of the payload it thinks.
LEMMA RunningKnows ==
  ASSUME IInv, SnapInv, NEW w \in Worker, pc[w] \in Running
  PROVE  /\ key[w] \in Key /\ Known(key[w])
         /\ Saga(w).payload = ledger[key[w]].payload
         /\ Saga(w).payload \in Payload
         /\ Saga(w).next = "PROCESS_PAYMENT" =>
              Saga(w).user # NoUser /\ Saga(w).user = ledger[key[w]].user
         /\ Saga(w).next = "COMPENSATE_USER" =>
              /\ Saga(w).user # NoUser /\ Saga(w).user = ledger[key[w]].user
              /\ Failing(key[w])
  <1>1. /\ key[w] \in Key /\ Saga(w) \in Row /\ RowOK(Saga(w))
        /\ Saga(w).status # "ABSENT" /\ Saga(w).payload \in Payload
    BY RunningHasKey DEF IInv
  <1>2. Saga(w).next # "PROCESS_USER" => Saga(w).user # NoUser
    BY <1>1 DEF RowOK
  <1>3. QED
    BY <1>1, <1>2 DEF SnapInv, Saga

SameCommand(m, n) ==
  /\ n.op = m.op /\ n.key = m.key /\ n.payload = m.payload /\ n.user = m.user
  /\ n.from # Nobody => n.from = m.from /\ key'[n.from] = key[n.from]

Sent(w, n) ==
  /\ pc[w] = "dispatch"
  /\ n = [op |-> n.op, key |-> key[w], payload |-> Saga(w).payload,
          user |-> Saga(w).user, from |-> w]
  /\ \/ n.op = "create"
     \/ n.op = "pay" /\ Saga(w).next = "PROCESS_PAYMENT"
     \/ n.op = "compensate" /\ Saga(w).next = "COMPENSATE_USER"
  /\ key' = key

\* A worker that waits for a reply keeps its saga, unless it dies.
LEMMA AwaitingKeepsKey ==
  ASSUME IInv, NEW v \in Worker, NEW w \in Worker,
         pc[v] \in {"user", "payment", "compensation"}, reply[v].kind = "none",
         Deliver(w) \/ WaiterSeesSettled(w) \/ WaiterGivesUp(w) \/ ClaimBatch(w)
         \/ Run(w) \/ TimeOut(w) \/ LeaseExpires(w) \/ AbandonedLeaseExpires(w)
         \/ (Die(w) /\ v # w)
  PROVE  key'[v] = key[v]
  <1>1. TypeOK
    BY DEF IInv
  <1>2. CASE v # w
    BY <1>2, OthersUndisturbed DEF Undisturbed
  <1>3. CASE v = w
    <2>1. pc[w] \in {"user", "payment", "compensation"} /\ ~Replied(w)
      BY <1>3 DEF Replied
    <2>2. ~Deliver(w) /\ ~WaiterSeesSettled(w) /\ ~WaiterGivesUp(w)
          /\ ~ClaimBatch(w) /\ ~Run(w)
      BY <2>1 DEF Deliver, RejectReusedKey, Acquire, JoinWaiters, Fresh,
         WaiterSeesSettled, WaiterGivesUp, ClaimBatch, Run, SendCreateUser,
         SendPayment, SendCompensation, Dispatches, FinishUser, FinishPayment,
         FinishCompensation, Complete, Release, Depart, NextOfBatch, EndPass, At
    <2>3. QED
      BY <1>3, <2>2 DEF TimeOut, LeaseExpires, AbandonedLeaseExpires, worker
  <1>4. QED
    BY <1>2, <1>3

\* Where the commands come from.
LEMMA CommandSource ==
  ASSUME IInv, [Next]_vars, NEW n \in commands'
  PROVE  \/ \E m \in commands : SameCommand(m, n)
         \/ \E w \in Worker : Sent(w, n)
  <1>1. TypeOK /\ RpcInv
    BY DEF IInv
  <1>2. ASSUME NEW m \in commands, m.from # Nobody
        PROVE  /\ m.from \in Worker
               /\ pc[m.from] \in {"user", "payment", "compensation"}
               /\ reply[m.from].kind = "none"
    <2>1. m \in Command
      BY <1>1 DEF TypeOK
    <2>2. m.from \in Worker /\ m.op \in {"create", "pay", "compensate"}
      BY <1>2, <2>1 DEF Command
    <2>3. QED
      BY <1>1, <1>2, <2>2 DEF RpcInv, PlaceOf
  <1>3. CASE n \in commands
    <2>1. CASE n.from = Nobody \/ key'[n.from] = key[n.from]
      <3>1. SameCommand(n, n)
        BY <2>1 DEF SameCommand
      <3>2. QED
        BY <1>3, <3>1
    <2>2. CASE n.from # Nobody /\ key'[n.from] # key[n.from]
      <3>1. PICK v \in Worker : /\ v = n.from
                                /\ pc[v] \in {"user", "payment", "compensation"}
                                /\ reply[v].kind = "none"
                                /\ key'[v] # key[v]
        BY <1>2, <1>3, <2>2
      <3>2. CASE \E w \in Worker :
                  Deliver(w) \/ WaiterSeesSettled(w) \/ WaiterGivesUp(w)
                  \/ ClaimBatch(w) \/ Run(w) \/ TimeOut(w) \/ LeaseExpires(w)
                  \/ AbandonedLeaseExpires(w) \/ (Die(w) /\ v # w)
        BY <3>1, <3>2, AwaitingKeepsKey
      <3>3. CASE Die(v)
        <4>1. n \in Orphaned(v)
          BY <3>3 DEF Die
        <4>2. PICK m \in commands :
                n = IF m.from = v THEN [m EXCEPT !.from = Nobody] ELSE m
          BY <4>1 DEF Orphaned
        <4>3. m \in Command /\ Nobody # v
          BY <1>1, NullsAreNotValues DEF TypeOK
        <4>4. n.from # v
          BY <4>2, <4>3 DEF Command
        <4>5. QED
          BY <3>1, <4>4
      <3>4. CASE key' = key
        BY <3>1, <3>4
      <3>5. QED
        BY <3>1, <3>2, <3>3, <3>4, WorkersAreTwoKinds
           DEF Next, vars, Execute, ExecuteCreate, ExecutePayment,
               ExecuteCompensate, ServiceFails, RetryFallsDue, worker
    <2>3. QED
      BY <2>1, <2>2
  <1>4. ASSUME NEW w \in Worker, n \in Orphaned(w)
        PROVE  \E m \in commands : /\ n.op = m.op /\ n.key = m.key
                                   /\ n.payload = m.payload /\ n.user = m.user
                                   /\ n.from = Nobody \/ n = m
    <2>1. PICK m \in commands :
            n = IF m.from = w THEN [m EXCEPT !.from = Nobody] ELSE m
      BY <1>4 DEF Orphaned
    <2>2. m \in Command
      BY <1>1 DEF TypeOK
    <2>3. QED
      BY <2>1, <2>2 DEF Command
  <1>5. ASSUME NEW w \in Worker, TimeOut(w) \/ Die(w), n \notin commands
        PROVE  \E m \in commands : SameCommand(m, n)
    <2>1. n \in Orphaned(w)
      BY <1>5 DEF TimeOut, Die
    <2>2. PICK m \in commands : /\ n.op = m.op /\ n.key = m.key
                                /\ n.payload = m.payload /\ n.user = m.user
                                /\ n.from = Nobody \/ n = m
      BY <1>4, <2>1
    <2>3. SameCommand(m, n)
      BY <1>5, <2>2 DEF SameCommand
    <2>4. QED
      BY <2>3
  <1>6. ASSUME NEW w \in Worker, Run(w), n \notin commands
        PROVE  Sent(w, n)
    <2>1. \/ SendCreateUser(w) \/ SendPayment(w) \/ SendCompensation(w)
          \/ commands' = commands
      BY <1>6 DEF Run, FinishUser, FinishPayment, FinishCompensation, Complete,
                  Release, Depart, NextOfBatch, EndPass
    <2>2. QED
      BY <1>6, <2>1 DEF SendCreateUser, SendPayment, SendCompensation, Send,
                        Dispatches, Sent
  <1>7. ASSUME NEW m \in commands, Execute(m) \/ ServiceFails(m),
               n \notin commands
        PROVE  SameCommand(m, n)
    <2>1. n = [m EXCEPT !.from = Nobody]
      BY <1>7 DEF Execute, ExecuteCreate, ExecutePayment, ExecuteCompensate,
                  ServiceFails, Respond
    <2>2. m \in Command
      BY <1>1 DEF TypeOK
    <2>3. QED
      <3>1. /\ n.op = m.op /\ n.key = m.key /\ n.payload = m.payload
            /\ n.user = m.user /\ n.from = Nobody
        BY <2>1, <2>2 DEF Command
      <3>2. QED
        BY <3>1 DEF SameCommand
  <1>8. CASE n \notin commands
    <2>1. commands' # commands
      BY <1>8
    <2>2. QED
      BY <1>5, <1>6, <1>7, <1>8, <2>1
         DEF Next, vars, Deliver, RejectReusedKey, Acquire, JoinWaiters,
             WaiterSeesSettled, WaiterGivesUp, ClaimBatch, LeaseExpires,
             AbandonedLeaseExpires, RetryFallsDue
  <1>9. QED
    BY <1>3, <1>8

\* Commands speak of their sagas.
LEMMA CommandStep ==
  ASSUME IInv, SnapInv, CommandInv, [Next]_vars
  PROVE  CommandInv'
  <1> SUFFICES ASSUME NEW n \in commands'
               PROVE  /\ Known(n.key)'
                      /\ n.payload = ledger'[n.key].payload
                      /\ n.op # "create" =>
                           n.user # NoUser /\ n.user = ledger'[n.key].user
                      /\ n.op = "compensate" => Failing(n.key)'
                      /\ n.from # Nobody => n.key = key'[n.from]
    BY DEF CommandInv
  <1>1. CASE \E m \in commands : SameCommand(m, n)
    <2>1. PICK m \in commands : SameCommand(m, n)
      BY <1>1
    <2>2. m.key \in Key
      BY DEF IInv, TypeOK, Command
    <2>3. QED
      BY <2>1, <2>2, Keeps DEF CommandInv, SameCommand
  <1>2. CASE \E w \in Worker : Sent(w, n)
    <2>1. PICK w \in Worker : Sent(w, n)
      BY <1>2
    <2>2. pc[w] \in Running
      BY <2>1 DEF Sent, Running
    <2>3. n.key = key[w] /\ n.payload = Saga(w).payload /\ n.user = Saga(w).user
          /\ n.from = w /\ key'[w] = key[w]
      BY <2>1 DEF Sent
    <2>4. QED
      BY <2>1, <2>2, <2>3, RunningKnows, Keeps DEF Sent
  <1>3. QED
    BY <1>1, <1>2, CommandSource

-------------------------------------------------------------------------------
(* The identity database. *)

\* The fields of a row after each kind of move.
LEMMA MoveFields ==
  ASSUME NEW row \in Row, NEW u \in Nat, NEW problem \in Problem
  PROVE  /\ UserCreated(row, u).user = u
         /\ UserCreated(row, u).payload = row.payload
         /\ UserCreated(row, u).status = "USER_CREATED"
         /\ PaymentCreated(row).user = row.user
         /\ PaymentCreated(row).payload = row.payload
         /\ PaymentCreated(row).status = "PAYMENT_CREATED"
         /\ Failed(row, problem).user = row.user
         /\ Failed(row, problem).payload = row.payload
         /\ Failed(row, problem).status = "FAILED"
         /\ IsTerminalFailure(Failed(row, problem)) => problem = "permanent"
         /\ Completed(row, row.user).user = row.user
         /\ Completed(row, row.user).payload = row.payload
         /\ Completed(row, row.user).response = row.user
         /\ Completed(row, row.user).status = "COMPLETED"
  <1>1. IsTerminalFailure(Failed(row, problem)) => problem = "permanent"
    BY DEF IsTerminalFailure, Failed, Row
  <1>2. /\ UserCreated(row, u).user = u
        /\ UserCreated(row, u).payload = row.payload
        /\ UserCreated(row, u).status = "USER_CREATED"
    BY DEF UserCreated, Row
  <1>3. /\ PaymentCreated(row).user = row.user
        /\ PaymentCreated(row).payload = row.payload
        /\ PaymentCreated(row).status = "PAYMENT_CREATED"
    BY DEF PaymentCreated, Row
  <1>4. /\ Failed(row, problem).user = row.user
        /\ Failed(row, problem).payload = row.payload
        /\ Failed(row, problem).status = "FAILED"
    BY DEF Failed, Row
  <1>5. /\ Completed(row, row.user).user = row.user
        /\ Completed(row, row.user).payload = row.payload
        /\ Completed(row, row.user).response = row.user
        /\ Completed(row, row.user).status = "COMPLETED"
    BY DEF Completed, Row
  <1>6. QED
    BY <1>1, <1>2, <1>3, <1>4, <1>5

\* What a move does to the fields the services know of.
LEMMA MoveKinds ==
  ASSUME IInv, NEW k \in Key, Moves(k)
  PROVE  /\ ~Failing(k)
         /\ \/ /\ ledger[k].status = "ABSENT"
               /\ ledger'[k].user = NoUser /\ ledger'[k].status = "STARTED"
               /\ ledger'[k].payload \in Payload
            \/ /\ ledger[k].status = "STARTED"
               /\ ledger'[k].status = "USER_CREATED"
               /\ ledger'[k].payload = ledger[k].payload
               /\ \E w \in Worker : /\ pc[w] = "user" /\ key[w] = k
                                    /\ reply[w].kind = "ok"
                                    /\ ledger'[k].user = reply[w].user
            \/ /\ ledger[k].status \in {"USER_CREATED", "FAILED"}
               /\ ledger'[k].user = ledger[k].user
               /\ ledger'[k].payload = ledger[k].payload
               /\ \E w \in Worker :
                    /\ pc[w] = "payment" /\ key[w] = k
                    /\ \/ /\ reply[w].kind = "ok"
                          /\ ledger'[k].status = "PAYMENT_CREATED"
                       \/ /\ ledger'[k].status = "FAILED"
                          /\ Failing(k)' => reply[w].kind = "permanent"
            \/ /\ ledger[k].status = "PAYMENT_CREATED"
               /\ ledger'[k].status = "COMPLETED"
               /\ ledger'[k].user = ledger[k].user
               /\ ledger'[k].response = ledger[k].user
               /\ ledger'[k].payload = ledger[k].payload
  <1>1. ledger[k] \in Row /\ ledger[k].user \in Nat
    BY DEF IInv, TypeOK, Row
  <1>2. \A w \in Worker : reply[w].user \in Nat
    BY DEF IInv, TypeOK, Reply
  <1>3. CASE /\ ledger[k] = AbsentRow
             /\ \E p \in Payload, w \in Worker :
                  ledger'[k] = Locked(FreshRow(p), w)
    <2>1. \A p \in Payload, w \in Worker :
             /\ Locked(FreshRow(p), w).user = NoUser
             /\ Locked(FreshRow(p), w).status = "STARTED"
             /\ Locked(FreshRow(p), w).payload = p
      BY DEF Locked, FreshRow
    <2>2. QED
      BY <1>3, <2>1, AbsentRowFields DEF Failing, IsTerminalFailure
  <1>4. CASE \E w \in Worker :
               /\ pc[w] = "user" /\ key[w] = k /\ reply[w].kind = "ok"
               /\ ledger[k].status = "STARTED"
               /\ ledger'[k] = UserCreated(ledger[k], reply[w].user)
    <2>1. "none" \in Problem
      OBVIOUS
    <2>2. QED
      BY <1>1, <1>2, <1>4, <2>1, MoveFields DEF Failing, IsTerminalFailure
  <1>5. CASE \E w \in Worker :
               /\ pc[w] = "payment" /\ key[w] = k
               /\ ledger[k].status \in {"USER_CREATED", "FAILED"} /\ ~Failing(k)
               /\ \/ /\ reply[w].kind = "ok"
                     /\ ledger'[k] = PaymentCreated(ledger[k])
                  \/ /\ reply[w].kind \in {"permanent", "transient"}
                     /\ ledger'[k] = Failed(ledger[k], reply[w].kind)
    <2>1. PICK w \in Worker :
            /\ pc[w] = "payment" /\ key[w] = k
            /\ ledger[k].status \in {"USER_CREATED", "FAILED"} /\ ~Failing(k)
            /\ \/ /\ reply[w].kind = "ok"
                  /\ ledger'[k] = PaymentCreated(ledger[k])
               \/ /\ reply[w].kind \in {"permanent", "transient"}
                  /\ ledger'[k] = Failed(ledger[k], reply[w].kind)
      BY <1>5
    <2>2. CASE /\ reply[w].kind = "ok"
               /\ ledger'[k] = PaymentCreated(ledger[k])
      <3>1. "none" \in Problem
        OBVIOUS
      <3>2. QED
        BY <1>1, <2>1, <2>2, <3>1, MoveFields
    <2>3. CASE /\ reply[w].kind \in {"permanent", "transient"}
               /\ ledger'[k] = Failed(ledger[k], reply[w].kind)
      <3>1. reply[w].kind \in Problem
        BY <2>3
      <3>2. /\ ledger'[k].user = ledger[k].user
            /\ ledger'[k].payload = ledger[k].payload
            /\ ledger'[k].status = "FAILED"
            /\ Failing(k)' => reply[w].kind = "permanent"
        BY <1>1, <2>3, <3>1, MoveFields DEF Failing
      <3>3. QED
        BY <2>1, <3>2
    <2>4. QED
      BY <2>1, <2>2, <2>3
  <1>6. CASE /\ ledger[k].status = "PAYMENT_CREATED"
             /\ ledger'[k] = Completed(ledger[k], ledger[k].user)
    <2>1. "none" \in Problem
      OBVIOUS
    <2>2. QED
      BY <1>1, <1>6, <2>1, MoveFields DEF Failing, IsTerminalFailure
  <1>7. QED
    BY <1>3, <1>4, <1>5, <1>6 DEF Moves

\* A row that is not moved keeps the fields the services know of.
LEMMA StillFields ==
  ASSUME IInv, IInv', NEW k \in Key,
         Bare(ledger'[k]) = Bare(ledger[k]) \/ ledger'[k] = ledger[k]
  PROVE  /\ ledger'[k].status = ledger[k].status
         /\ ledger'[k].payload = ledger[k].payload
         /\ ledger'[k].user = ledger[k].user
         /\ ledger'[k].response = ledger[k].response
         /\ Failing(k)' = Failing(k)
  <1>1. ledger[k] \in Row /\ ledger'[k] \in Row
    BY DEF IInv, TypeOK
  <1>2. QED
    BY <1>1, BareFields DEF Failing

\* Rows move within what the identity database backs.
LEMMA IdentityByLedger ==
  ASSUME IInv, DataInv, [Next]_vars, identity' = identity
  PROVE  IdentityInv'
  <1>1. /\ IInv' /\ LedgerStep
        /\ IdentityInv /\ ReplyInv /\ RpcInv /\ identity \in Store
    BY StepInv, EveryLedgerStep DEF DataInv, IInv, TypeOK
  <1>2. Sound(identity)'
    BY <1>1 DEF IdentityInv, Sound
  <1>3. ASSUME NEW k \in Key PROVE Backed(k, identity)'
    <2>1. Backed(k, identity)
      BY <1>1 DEF IdentityInv
    <2>2. CASE Bare(ledger'[k]) = Bare(ledger[k]) \/ ledger'[k] = ledger[k]
      BY <1>1, <2>1, <2>2, StillFields DEF Backed, Of
    <2>3. CASE Moves(k)
      <3>1. identity.receipts[k] = 0
        BY <2>1, <2>3, MoveKinds DEF Backed
      <3>2. CASE ledger'[k].user = NoUser
        BY <1>1, <3>1, <3>2 DEF Backed, RpcInv, Store
      <3>3. CASE /\ ledger'[k].payload = ledger[k].payload
                 /\ ledger'[k].user = ledger[k].user
        BY <2>1, <2>3, <3>1, <3>3, MoveKinds DEF Backed, Of
      <3>4. CASE /\ ledger[k].status = "STARTED"
                 /\ ledger'[k].payload = ledger[k].payload
                 /\ \E w \in Worker : /\ pc[w] = "user" /\ key[w] = k
                                      /\ reply[w].kind = "ok"
                                      /\ ledger'[k].user = reply[w].user
        <4>1. PICK w \in Worker : /\ pc[w] = "user" /\ key[w] = k
                                  /\ reply[w].kind = "ok"
                                  /\ ledger'[k].user = reply[w].user
          BY <3>4
        <4>2. identity.requests[k] = [payload |-> ledger[k].payload,
                                      user |-> reply[w].user]
          BY <1>1, <2>3, <4>1, MoveKinds DEF ReplyInv, ReplyOK
        <4>3. reply[w].user # NoUser
          BY <1>1, <4>1 DEF RpcInv
        <4>4. identity.requests[k] # NoRequest
              /\ identity.requests[k].user = ledger'[k].user
              /\ identity.requests[k] = Of(k)'
          BY <3>4, <4>1, <4>2, <4>3 DEF NoRequest, Of
        <4>5. ledger'[k].user <= identity.issued
          BY <1>1, <4>4 DEF IdentityInv, Sound
        <4>6. \A j \in Key : identity.requests[j] # NoRequest
                             /\ identity.requests[j].user = ledger'[k].user
                             => j = k
          BY <1>1, <4>4 DEF IdentityInv, Sound
        <4>7. QED
          BY <3>1, <4>4, <4>5, <4>6 DEF Backed
      <3>5. QED
        BY <2>3, <3>2, <3>3, <3>4, MoveKinds
    <2>4. QED
      BY <1>1, <2>2, <2>3 DEF LedgerStep
  <1>4. QED
    BY <1>2, <1>3 DEF IdentityInv

\* createUser: what was there stays, and the new user and its request are of
\* nobody else.
LEMMA CreateKeeps ==
  ASSUME NEW db \in Store, Sound(db), NEW j \in Key, NEW p \in Payload
  PROVE  /\ Sound(CreateUser(db, j, p))
         /\ CreateUser(db, j, p).receipts = db.receipts
         /\ db.issued <= CreateUser(db, j, p).issued
         /\ \A k \in Key : db.requests[k] # NoRequest =>
              CreateUser(db, j, p).requests[k] = db.requests[k]
         /\ \A k \in Key : CreateUser(db, j, p).requests[k] # NoRequest =>
              \/ CreateUser(db, j, p).requests[k] = db.requests[k]
              \/ CreateUser(db, j, p).requests[k].user = db.issued + 1
         /\ CreateReply(db, j, p).kind = "ok" =>
              CreateUser(db, j, p).requests[j] =
                [payload |-> p, user |-> CreateReply(db, j, p).user]
  <1> DEFINE new == CreateUser(db, j, p)
             u == db.issued + 1
             usr == [id |-> u, handles |-> HandlesOf[p]]
             request == [payload |-> p, user |-> u]
  <1>1. /\ db.issued \in Nat /\ db.requests \in [Key -> Request]
        /\ db.users \in SUBSET User
    BY DEF Store
  <1>2. CASE db.requests[j] # NoRequest \/ Taken(db, p)
    <2>1. new = db
      BY <1>2 DEF CreateUser
    <2>2. CreateReply(db, j, p).kind = "ok" =>
            /\ db.requests[j].payload = p
            /\ CreateReply(db, j, p).user = db.requests[j].user
      BY <1>2 DEF CreateReply, Ok, Refusal
    <2>3. db.requests[j] = [payload |-> db.requests[j].payload,
                            user |-> db.requests[j].user]
      BY <1>1 DEF Request
    <2>4. QED
      BY <1>1, <2>1, <2>2, <2>3
  <1>3. CASE db.requests[j] = NoRequest /\ ~Taken(db, p)
    <2>1. /\ new.users = db.users \cup {usr}
          /\ new.requests = [db.requests EXCEPT ![j] = request]
          /\ new.receipts = db.receipts
          /\ new.issued = u
      BY <1>3 DEF CreateUser, Store
    <2>2. /\ new.requests[j] = request
          /\ \A k \in Key \ {j} : new.requests[k] = db.requests[k]
      BY <1>1, <2>1
    <2>3. CreateReply(db, j, p) = Ok(u)
      BY <1>3 DEF CreateReply
    <2>4. request # NoRequest /\ request.user = u /\ request.payload = p
      BY <1>1, NullsAreNotValues DEF NoRequest
    <2>5. \A k \in Key : db.requests[k] # NoRequest =>
            db.requests[k].user <= db.issued
      BY DEF Sound
    <2>6. \A other \in db.users : other.id <= db.issued
      BY DEF Sound
    <2>7. \A other \in db.users : other.handles \cap HandlesOf[p] = {}
      BY <1>3 DEF Taken
    <2> HIDE DEF new, u, request
    <2>8. \A k \in Key : new.requests[k] # NoRequest =>
            [id |-> new.requests[k].user,
             handles |-> HandlesOf[new.requests[k].payload]] \in new.users
      BY <2>1, <2>2, <2>4 DEF Sound
    <2>9. \A k, l \in Key : new.requests[k] # NoRequest
                            /\ new.requests[k].user = new.requests[l].user
                            => k = l
      <3> SUFFICES ASSUME NEW k \in Key, NEW l \in Key,
                          new.requests[k] # NoRequest,
                          new.requests[k].user = new.requests[l].user, k # l
                   PROVE  FALSE
        OBVIOUS
      <3>1. u \in Nat /\ u > db.issued /\ u # 0
        BY <1>1 DEF u
      <3>2. CASE k = j
        <4>1. db.requests[l].user = u
          BY <2>2, <2>4, <3>2
        <4>2. db.requests[l] # NoRequest
          BY <3>1, <4>1 DEF NoRequest
        <4>3. db.requests[l].user <= db.issued
          BY <2>5, <4>2
        <4>4. QED
          BY <1>1, <3>1, <4>1, <4>3
      <3>3. CASE l = j
        <4>1. db.requests[k].user = u /\ db.requests[k] # NoRequest
          BY <2>2, <2>4, <3>3
        <4>2. QED
          BY <1>1, <2>5, <3>1, <4>1
      <3>4. CASE k # j /\ l # j
        BY <2>2, <3>4 DEF Sound
      <3>5. QED
        BY <3>2, <3>3, <3>4
    <2>10. \A other \in new.users : other.id <= new.issued
      BY <1>1, <2>1, <2>6 DEF u, User
    <2>11. \A one, other \in new.users :
             one.handles \cap other.handles # {} => one = other
      BY <2>1, <2>7 DEF Sound
    <2>12. Sound(new)
      BY <2>8, <2>9, <2>10, <2>11 DEF Sound
    <2>13. db.issued <= new.issued
      BY <1>1, <2>1 DEF u
    <2>14. QED
      BY <1>3, <2>1, <2>2, <2>3, <2>4, <2>12, <2>13 DEF new, u, request, Ok
  <1>4. QED
    BY <1>2, <1>3

\* compensateUser: nothing is new, and what goes is of the removed user.
LEMMA CompensateKeeps ==
  ASSUME NEW db \in Store, Sound(db), NEW j \in Key, NEW u \in Nat \ {0}
  PROVE  /\ Sound(CompensateUser(db, j, u))
         /\ CompensateUser(db, j, u).issued = db.issued
         /\ \A k \in Key : CompensateUser(db, j, u).receipts[k] # 0 =>
              k = j \/ db.receipts[k] # 0
         /\ \A k \in Key : CompensateUser(db, j, u).requests[k] # NoRequest =>
              CompensateUser(db, j, u).requests[k] = db.requests[k]
         /\ \A k \in Key : db.requests[k].user # u =>
              CompensateUser(db, j, u).requests[k] = db.requests[k]
  <1> DEFINE new == CompensateUser(db, j, u)
  <1>1. CASE db.receipts[j] # 0
    BY <1>1 DEF CompensateUser
  <1>2. CASE db.receipts[j] = 0
    <2>1. /\ new.users = {usr \in db.users : usr.id # u}
          /\ new.requests = [k \in Key |-> IF db.requests[k].user = u
                                           THEN NoRequest ELSE db.requests[k]]
          /\ new.receipts = [db.receipts EXCEPT ![j] = u]
          /\ new.issued = db.issued
      BY <1>2 DEF CompensateUser, Store
    <2>2. \A k \in Key : new.receipts[k] # 0 => k = j \/ db.receipts[k] # 0
      BY <2>1 DEF Store
    <2>3. \A k \in Key :
            new.requests[k] # NoRequest =>
              new.requests[k] = db.requests[k] /\ db.requests[k].user # u
      BY <2>1
    <2>4. \A k \in Key : db.requests[k].user # u =>
                           new.requests[k] = db.requests[k]
      BY <2>1
    <2> HIDE DEF new
    <2>5. \A k \in Key : new.requests[k] # NoRequest =>
            [id |-> new.requests[k].user,
             handles |-> HandlesOf[new.requests[k].payload]] \in new.users
      BY <2>1, <2>3 DEF Sound
    <2>6. \A k, l \in Key : new.requests[k] # NoRequest
                            /\ new.requests[k].user = new.requests[l].user
                            => k = l
      <3> SUFFICES ASSUME NEW k \in Key, NEW l \in Key,
                          new.requests[k] # NoRequest,
                          new.requests[k].user = new.requests[l].user
                   PROVE  k = l
        OBVIOUS
      <3>1. new.requests[k] = db.requests[k] /\ db.requests[k] # NoRequest
        BY <2>3
      <3>2. [id |-> db.requests[k].user,
             handles |-> HandlesOf[db.requests[k].payload]] \in User
        BY <3>1 DEF Sound, Store
      <3>3. db.requests[k].user # 0
        BY <3>2 DEF User
      <3>4. new.requests[l] # NoRequest
        BY <3>1, <3>3 DEF NoRequest
      <3>5. QED
        BY <2>3, <3>1, <3>4 DEF Sound
    <2>7. QED
      BY <2>1, <2>2, <2>3, <2>4, <2>5, <2>6 DEF Sound, new
  <1>3. QED
    BY <1>1, <1>2

\* The identity service executes a command, however late.
LEMMA IdentityByService ==
  ASSUME IInv, DataInv, NEW m \in commands,
         ExecuteCreate(m) \/ ExecuteCompensate(m)
  PROVE  IdentityInv'
  <1>1. /\ IdentityInv /\ CommandInv /\ RpcInv /\ identity \in Store
        /\ m.key \in Key /\ m.payload \in Payload /\ m.user \in Nat
        /\ \A k \in Key : ledger[k].user \in Nat
        /\ \A k \in Key : ledger[k].status # "ABSENT" =>
                            ledger[k].payload \in Payload
    BY DEF DataInv, IInv, TypeOK, Command, Row, RowInv, RowOK
  <1>2. ledger' = ledger
    BY DEF ExecuteCreate, ExecuteCompensate
  <1>3. identity.issued \in Nat
    BY <1>1 DEF Store
  <1>4. CASE ExecuteCreate(m)
    <2> DEFINE db == CreateUser(identity, m.key, m.payload)
    <2>1. identity' = db
      BY <1>4 DEF ExecuteCreate
    <2>2. /\ Sound(db)
          /\ db.receipts = identity.receipts
          /\ identity.issued <= db.issued
          /\ \A k \in Key : identity.requests[k] # NoRequest =>
               db.requests[k] = identity.requests[k]
          /\ \A k \in Key : db.requests[k] # NoRequest =>
               \/ db.requests[k] = identity.requests[k]
               \/ db.requests[k].user = identity.issued + 1
      BY <1>1, CreateKeeps DEF IdentityInv
    <2>3. db.issued \in Nat
      BY <1>1, CreateUserType DEF Store
    <2> HIDE DEF db
    <2>4. ASSUME NEW k \in Key PROVE Backed(k, identity)'
      <3>1. Backed(k, identity)
        BY <1>1 DEF IdentityInv
      <3>2. ledger[k].user <= db.issued
        BY <1>1, <1>3, <2>2, <2>3, <3>1 DEF Backed
      <3>3. ASSUME NEW j \in Key, db.requests[j] # NoRequest,
                   db.requests[j].user = ledger[k].user
            PROVE  j = k
        BY <1>1, <1>3, <2>2, <3>1, <3>3 DEF Backed
      <3>4. ledger[k].user # NoUser => Of(k) # NoRequest
        BY DEF Of, NoRequest
      <3>5. QED
        BY <1>2, <2>1, <2>2, <3>1, <3>2, <3>3, <3>4 DEF Backed, Of, Failing
    <2>5. Sound(identity)'
      BY <2>1, <2>2 DEF Sound
    <2>6. QED
      BY <2>4, <2>5 DEF IdentityInv
  <1>5. CASE ExecuteCompensate(m)
    <2> DEFINE db == CompensateUser(identity, m.key, m.user)
    <2>1. identity' = db
      BY <1>5 DEF ExecuteCompensate
    <2>2. m.user # NoUser /\ m.user = ledger[m.key].user /\ Failing(m.key)
      BY <1>1, <1>5 DEF CommandInv, ExecuteCompensate
    <2>3. /\ Sound(db)
          /\ db.issued = identity.issued
          /\ \A k \in Key : db.receipts[k] # 0 =>
               k = m.key \/ identity.receipts[k] # 0
          /\ \A k \in Key : db.requests[k] # NoRequest =>
               db.requests[k] = identity.requests[k]
          /\ \A k \in Key : identity.requests[k].user # m.user =>
               db.requests[k] = identity.requests[k]
      BY <1>1, <2>2, CompensateKeeps DEF IdentityInv
    <2> HIDE DEF db
    <2>4. ASSUME NEW k \in Key PROVE Backed(k, identity)'
      <3>1. Backed(k, identity)
        BY <1>1 DEF IdentityInv
      <3>2. ASSUME NEW j \in Key, db.requests[j] # NoRequest,
                   db.requests[j].user = ledger[k].user
            PROVE  j = k
        BY <2>3, <3>1, <3>2 DEF Backed
      <3>3. ASSUME ledger[k].user # NoUser, ~Failing(k)
            PROVE  db.requests[k] = Of(k)
        <4>1. identity.requests[k] = Of(k) /\ Of(k) # NoRequest
          BY <3>1, <3>3 DEF Backed, Of, NoRequest
        <4>2. identity.requests[k].user # m.user
          BY <1>1, <2>2, <3>3, <4>1 DEF IdentityInv, Backed
        <4>3. QED
          BY <2>3, <4>1, <4>2
      <3>4. db.receipts[k] # 0 => Failing(k)
        BY <2>2, <2>3, <3>1 DEF Backed
      <3>5. QED
        BY <1>2, <2>1, <2>3, <3>1, <3>2, <3>3, <3>4 DEF Backed, Of, Failing
    <2>5. Sound(identity)'
      BY <2>1, <2>3 DEF Sound
    <2>6. QED
      BY <2>4, <2>5 DEF IdentityInv
  <1>6. QED
    BY <1>4, <1>5

\* Only the identity service writes its database, only the payment service the
\* intents.
LEMMA WhoWrites ==
  ASSUME [Next]_vars
  PROVE  /\ \/ identity' = identity
            \/ \E m \in commands : ExecuteCreate(m) \/ ExecuteCompensate(m)
         /\ \/ intents' = intents
            \/ \E m \in commands : ExecutePayment(m)
  <1>1. ASSUME NEW w \in Worker, Run(w)
        PROVE  identity' = identity /\ intents' = intents
    BY <1>1 DEF Run, SendCreateUser, SendPayment, SendCompensation, Send,
       FinishUser, FinishPayment, FinishCompensation, Complete, Release, Depart,
       NextOfBatch, EndPass, services
  <1>2. ASSUME NEW w \in Worker,
               Deliver(w) \/ WaiterSeesSettled(w) \/ WaiterGivesUp(w)
               \/ ClaimBatch(w) \/ TimeOut(w) \/ Die(w) \/ LeaseExpires(w)
               \/ AbandonedLeaseExpires(w)
        PROVE  identity' = identity /\ intents' = intents
    BY <1>2 DEF Deliver, RejectReusedKey, Acquire, JoinWaiters,
       WaiterSeesSettled, WaiterGivesUp, ClaimBatch, TimeOut, Die, LeaseExpires,
       AbandonedLeaseExpires, services
  <1>3. ASSUME NEW m \in commands, Execute(m) \/ ServiceFails(m)
        PROVE  /\ identity' = identity \/ ExecuteCreate(m) \/ ExecuteCompensate(m)
               /\ intents' = intents \/ ExecutePayment(m)
    BY <1>3 DEF Execute, ExecuteCreate, ExecutePayment, ExecuteCompensate,
       ServiceFails, services
  <1>4. QED
    BY <1>1, <1>2, <1>3, WorkersAreTwoKinds DEF Next, vars, RetryFallsDue

\* The identity database keeps backing the rows.
LEMMA IdentityStep ==
  ASSUME IInv, DataInv, [Next]_vars
  PROVE  IdentityInv'
  BY WhoWrites, IdentityByLedger, IdentityByService

-------------------------------------------------------------------------------
(* The payment database. *)

\* Rows move within what the payment database backs.
LEMMA PaymentByLedger ==
  ASSUME IInv, DataInv, [Next]_vars, intents' = intents
  PROVE  PaymentInv'
  <1>1. /\ IInv' /\ LedgerStep /\ PaymentInv /\ ReplyInv
        /\ \A k \in Key : RowOK(ledger[k])
    BY StepInv, EveryLedgerStep DEF DataInv, IInv, RowInv
  <1>2. ASSUME NEW k \in Key
        PROVE  /\ Failing(k)' => ledger'[k].payload \notin Supported
               /\ intents[k] # NoRequest => /\ ledger'[k].payload \in Supported
                                            /\ ledger'[k].user # NoUser
                                            /\ intents[k] = Of(k)'
               /\ ledger'[k].status \in {"PAYMENT_CREATED", "COMPLETED"} =>
                    intents[k] # NoRequest
    <2>1. CASE Bare(ledger'[k]) = Bare(ledger[k]) \/ ledger'[k] = ledger[k]
      BY <1>1, <2>1, StillFields DEF PaymentInv, Of
    <2>2. CASE Moves(k)
      <3>1. intents[k] # NoRequest =>
              /\ ledger[k].user # NoUser
              /\ ledger[k].payload \in Supported
              /\ intents[k] = Of(k)
              /\ ledger[k].status # "ABSENT"
        BY <1>1, AbsentRowFields DEF PaymentInv, RowOK
      <3>2. ledger[k].user # NoUser => ledger'[k].user = ledger[k].user
        BY Keeps
      <3>3. intents[k] # NoRequest => /\ ledger'[k].payload \in Supported
                                      /\ ledger'[k].user # NoUser
                                      /\ intents[k] = Of(k)'
        BY <2>2, <3>1, <3>2, MoveKinds DEF Of
      <3>4. ASSUME Failing(k)' PROVE ledger'[k].payload \notin Supported
        <4>1. ledger'[k].status \in {"FAILED", "COMPENSATED"}
          BY <3>4 DEF Failing, IsTerminalFailure
        <4>2. PICK w \in Worker : /\ pc[w] = "payment" /\ key[w] = k
                                  /\ reply[w].kind = "permanent"
                                  /\ ledger'[k].payload = ledger[k].payload
          BY <2>2, <3>4, <4>1, MoveKinds
        <4>3. QED
          BY <1>1, <4>2 DEF ReplyInv, ReplyOK
      <3>5. ASSUME ledger'[k].status \in {"PAYMENT_CREATED", "COMPLETED"}
            PROVE  intents[k] # NoRequest
        <4>1. \/ ledger[k].status = "PAYMENT_CREATED"
              \/ \E w \in Worker : /\ pc[w] = "payment" /\ key[w] = k
                                   /\ reply[w].kind = "ok"
          BY <2>2, <3>5, MoveKinds
        <4>2. QED
          BY <1>1, <4>1 DEF PaymentInv, ReplyInv, ReplyOK
      <3>6. QED
        BY <3>3, <3>4, <3>5
    <2>3. QED
      BY <1>1, <2>1, <2>2 DEF LedgerStep
  <1>3. QED
    BY <1>2 DEF PaymentInv

\* What the payment service makes of a command: the reply depends on the
\* payload of the saga alone.
LEMMA PaymentExecuted ==
  ASSUME IInv, DataInv, NEW m \in commands, ExecutePayment(m)
  PROVE  /\ ledger' = ledger
         /\ \A k \in Key : intents[k] # NoRequest => intents'[k] = intents[k]
         /\ \A k \in Key : intents'[k] # NoRequest =>
              \/ intents'[k] = intents[k]
              \/ k = m.key /\ ledger[k].payload \in Supported /\ intents'[k] = Of(k)
         /\ \E r : /\ Respond(m, r)
                   /\ r.kind = "ok" => intents'[m.key] # NoRequest
                   /\ r.kind = "permanent" => ledger[m.key].payload \notin Supported
  <1> DEFINE request == [payload |-> m.payload, user |-> m.user]
             accepted == IF intents[m.key] # NoRequest
                         THEN intents[m.key] = request
                         ELSE m.payload \in Supported
             r == IF accepted THEN Ok(m.user) ELSE Refusal
  <1>1. /\ m.key \in Key /\ intents \in [Key -> Request]
    BY DEF IInv, TypeOK, Command
  <1>2. /\ m.op = "pay"
        /\ intents' = IF accepted THEN [intents EXCEPT ![m.key] = request]
                                  ELSE intents
        /\ Respond(m, r)
        /\ ledger' = ledger
    BY DEF ExecutePayment
  <1>3. request = Of(m.key) /\ m.user # NoUser
        /\ m.payload = ledger[m.key].payload
    BY <1>2 DEF DataInv, CommandInv, Of
  <1>4. request # NoRequest
    BY <1>3 DEF NoRequest
  <1>5. intents[m.key] # NoRequest => /\ intents[m.key] = request
                                      /\ m.payload \in Supported
    BY <1>1, <1>3 DEF DataInv, PaymentInv
  <1>6. accepted <=> m.payload \in Supported
    BY <1>5
  <1>7. r.kind = "ok" => accepted
    BY DEF Refusal
  <1>8. r.kind = "permanent" => ~accepted
    BY DEF Ok
  <1> HIDE DEF accepted, request, r
  <1>9. accepted => intents'[m.key] = request
    BY <1>1, <1>2
  <1>10. \A k \in Key : \/ intents'[k] = intents[k]
                        \/ k = m.key /\ accepted /\ intents'[k] = request
    BY <1>1, <1>2
  <1>11. \A k \in Key : intents[k] # NoRequest => intents'[k] = intents[k]
    BY <1>5, <1>10
  <1>12. \A k \in Key : intents'[k] # NoRequest =>
              \/ intents'[k] = intents[k]
              \/ k = m.key /\ ledger[k].payload \in Supported /\ intents'[k] = Of(k)
    BY <1>3, <1>6, <1>10
  <1>13. \E x : /\ Respond(m, x)
                /\ x.kind = "ok" => intents'[m.key] # NoRequest
                /\ x.kind = "permanent" => ledger[m.key].payload \notin Supported
    BY <1>2, <1>3, <1>4, <1>6, <1>7, <1>8, <1>9
  <1>14. QED
    BY <1>2, <1>11, <1>12, <1>13

\* The payment database keeps backing the rows.
LEMMA PaymentStep ==
  ASSUME IInv, DataInv, [Next]_vars
  PROVE  PaymentInv'
  <1>1. CASE intents' = intents
    BY <1>1, PaymentByLedger
  <1>2. ASSUME NEW m \in commands, ExecutePayment(m)
        PROVE  PaymentInv'
    <2>1. /\ ledger' = ledger
          /\ \A k \in Key : intents[k] # NoRequest => intents'[k] = intents[k]
          /\ \A k \in Key : intents'[k] # NoRequest =>
               \/ intents'[k] = intents[k]
               \/ k = m.key /\ ledger[k].payload \in Supported
                  /\ intents'[k] = Of(k)
      BY <1>2, PaymentExecuted
    <2>2. ledger[m.key].user # NoUser
      BY <1>2 DEF DataInv, CommandInv, ExecutePayment
    <2>3. QED
      BY <2>1, <2>2 DEF DataInv, PaymentInv, Of, Failing
  <1>3. QED
    BY <1>1, <1>2, WhoWrites

-------------------------------------------------------------------------------
(* Replies. *)

\* The worker keeps what it has read, or has nothing to go by.
Unread(v) ==
  \/ /\ pc'[v] = pc[v] /\ key'[v] = key[v] /\ reply'[v] = reply[v]
  \/ pc'[v] \notin {"user", "payment"}
  \/ reply'[v].kind \in {"none", "transient"}

\* Replies only change when a service answers, or when none will.
LEMMA ReplySource ==
  ASSUME IInv, [Next]_vars, NEW v \in Worker
  PROVE  \/ Unread(v)
         \/ \E m \in commands : Execute(m)
  <1>1. TypeOK
    BY DEF IInv
  <1>2. \A r \in Reply : [reply EXCEPT ![v] = r][v] = r
    BY <1>1 DEF TypeOK
  <1>3. NoReply.kind = "none" /\ Unavailable.kind = "transient"
        /\ NoReply \in Reply /\ Unavailable \in Reply
    BY NullTypes DEF NoReply, Unavailable
  <1>4. ASSUME NEW w \in Worker,
               Deliver(w) \/ WaiterSeesSettled(w) \/ WaiterGivesUp(w)
               \/ ClaimBatch(w) \/ Run(w) \/ TimeOut(w) \/ Die(w)
               \/ LeaseExpires(w) \/ AbandonedLeaseExpires(w)
        PROVE  Unread(v)
    <2>1. CASE v # w
      <3>1. pc'[v] = pc[v] /\ key'[v] = key[v]
        BY <1>4, <2>1, OthersUndisturbed DEF Undisturbed
      <3>2. reply' = reply \/ \E r : reply' = [reply EXCEPT ![w] = r]
        BY <1>4 DEF Deliver, RejectReusedKey, Acquire, JoinWaiters,
           WaiterSeesSettled, WaiterGivesUp, ClaimBatch, Run, SendCreateUser,
           SendPayment, SendCompensation, Send, FinishUser, FinishPayment,
           FinishCompensation, Complete, Release, Depart, NextOfBatch, EndPass,
           TimeOut, Die, LeaseExpires, AbandonedLeaseExpires, worker
      <3>3. reply'[v] = reply[v]
        BY <1>1, <2>1, <3>2 DEF TypeOK
      <3>4. QED
        BY <3>1, <3>3 DEF Unread
    <2>2. CASE v = w
      <3>1. CASE Deliver(w) \/ NextOfBatch(w)
        BY <1>1, <2>2, <3>1 DEF Deliver, RejectReusedKey, Acquire, JoinWaiters,
           NextOfBatch, Start, End, Unread, TypeOK
      <3>2. CASE WaiterSeesSettled(w) \/ WaiterGivesUp(w) \/ ClaimBatch(w)
                 \/ Release(w) \/ Depart(w) \/ EndPass(w) \/ Die(w)
        BY <1>1, <2>2, <3>2 DEF WaiterSeesSettled, WaiterGivesUp, ClaimBatch,
           Release, Depart, EndPass, Die, Unread, TypeOK
      <3>3. CASE FinishUser(w) \/ FinishPayment(w) \/ FinishCompensation(w)
                 \/ SendCreateUser(w) \/ SendPayment(w) \/ SendCompensation(w)
        <4>1. reply' = [reply EXCEPT ![w] = NoReply]
          BY <3>3 DEF FinishUser, FinishPayment, FinishCompensation,
             SendCreateUser, SendPayment, SendCompensation, Send
        <4>2. QED
          BY <1>2, <1>3, <2>2, <4>1 DEF Unread
      <3>4. CASE Complete(w)
        BY <1>1, <2>2, <3>4 DEF Complete, FinalTransition, End, Unread, TypeOK
      <3>5. CASE TimeOut(w)
        BY <1>2, <1>3, <2>2, <3>5 DEF TimeOut, Unread
      <3>6. CASE LeaseExpires(w) \/ AbandonedLeaseExpires(w)
        BY <3>6 DEF LeaseExpires, AbandonedLeaseExpires, worker, Unread
      <3>7. QED
        BY <1>4, <3>1, <3>2, <3>3, <3>4, <3>5, <3>6 DEF Run
    <2>3. QED
      BY <2>1, <2>2
  <1>5. ASSUME NEW m \in commands, ServiceFails(m)
        PROVE  Unread(v)
    <2>1. pc' = pc /\ key' = key
          /\ (reply' = reply \/ reply' = [reply EXCEPT ![m.from] = Unavailable])
      BY <1>5 DEF ServiceFails
    <2>2. reply'[v] = reply[v] \/ reply'[v] = Unavailable
      BY <1>1, <2>1 DEF TypeOK
    <2>3. QED
      BY <1>3, <2>1, <2>2 DEF Unread
  <1>6. CASE UNCHANGED vars \/ \E k \in Key : RetryFallsDue(k)
    BY <1>6 DEF vars, RetryFallsDue, worker, Unread
  <1>7. QED
    BY <1>4, <1>5, <1>6, WorkersAreTwoKinds DEF Next

\* What a worker has read stays true.
LEMMA ReplyKept ==
  ASSUME IInv, DataInv, [Next]_vars, NEW v \in Worker, Unread(v)
  PROVE  ReplyOK(v)'
  <1>1. CASE pc'[v] \notin {"user", "payment"}
             \/ reply'[v].kind \in {"none", "transient"}
    BY <1>1 DEF ReplyOK
  <1>2. CASE /\ pc'[v] = pc[v] /\ key'[v] = key[v] /\ reply'[v] = reply[v]
             /\ pc[v] \in {"user", "payment"}
    <2>0. pc[v] \in Running
      BY <1>2 DEF Running
    <2>1. PICK k \in Key : /\ k = key[v] /\ Known(k) /\ ReplyOK(v)
                           /\ ledger[k].payload \in Payload
      BY <2>0, RunningKnows DEF DataInv, ReplyInv
    <2>2. /\ Failing(k) => Failing(k)'
          /\ ledger'[k].payload = ledger[k].payload
      BY <2>1, Keeps
    <2>3. intents[k] # NoRequest => intents'[k] # NoRequest
      BY <2>1, WhoWrites, PaymentExecuted
    <2>4. ASSUME NEW u, ~Failing(k),
                 identity.requests[k] = [payload |-> ledger[k].payload, user |-> u]
          PROVE  identity'.requests[k] = identity.requests[k]
      <3>1. identity.requests[k] # NoRequest
        BY <2>1, <2>4, NullsAreNotValues DEF NoRequest
      <3>2. ASSUME NEW m \in commands, ExecuteCreate(m)
            PROVE  identity'.requests[k] = identity.requests[k]
        <4>1. m.key \in Key /\ m.payload \in Payload /\ identity \in Store
              /\ Sound(identity)
          BY DEF IInv, TypeOK, Command, DataInv, IdentityInv
        <4>2. identity' = CreateUser(identity, m.key, m.payload)
          BY <3>2 DEF ExecuteCreate
        <4>3. QED
          BY <2>1, <3>1, <4>1, <4>2, CreateKeeps
      <3>3. ASSUME NEW m \in commands, ExecuteCompensate(m)
            PROVE  identity'.requests[k] = identity.requests[k]
        <4>1. m.key \in Key /\ m.user \in Nat /\ identity \in Store
              /\ Sound(identity) /\ Backed(m.key, identity)
          BY DEF IInv, TypeOK, Command, DataInv, IdentityInv
        <4>2. identity' = CompensateUser(identity, m.key, m.user)
          BY <3>3 DEF ExecuteCompensate
        <4>3. m.user # 0 /\ m.user = ledger[m.key].user /\ Failing(m.key)
          BY <3>3 DEF DataInv, CommandInv, ExecuteCompensate
        <4>4. identity.requests[k].user # m.user
          BY <2>1, <2>4, <3>1, <4>1, <4>3 DEF Backed
        <4>5. QED
          BY <2>1, <4>1, <4>2, <4>3, <4>4, CompensateKeeps
      <3>4. QED
        BY <3>2, <3>3, WhoWrites
    <2>5. QED
      BY <1>2, <2>1, <2>2, <2>3, <2>4 DEF ReplyOK
  <1>3. QED
    BY <1>1, <1>2 DEF Unread

\* A service answers, about the saga the worker runs, what it has done.
LEMMA ReplyExecuted ==
  ASSUME IInv, DataInv, NEW m \in commands, Execute(m), NEW v \in Worker,
         [Next]_vars
  PROVE  ReplyOK(v)'
  <1>1. /\ TypeOK /\ RpcInv /\ m \in Command
        /\ m.key \in Key /\ m.payload \in Payload /\ m.user \in Nat
        /\ m.op \in {"create", "pay", "compensate"}
    BY DEF IInv, TypeOK, Command
  <1>2. pc' = pc /\ key' = key /\ ledger' = ledger
    BY DEF Execute, ExecuteCreate, ExecutePayment, ExecuteCompensate
  <1>3. m.from # Nobody => m.key = key[m.from] /\ pc[m.from] = PlaceOf(m.op)
    BY <1>1 DEF DataInv, CommandInv, RpcInv
  <1>4. m.payload = ledger[m.key].payload
    BY DEF DataInv, CommandInv
  <1>5. ASSUME NEW r, Respond(m, r)
        PROVE  reply'[v] = reply[v] \/ (v = m.from /\ reply'[v] = r)
    BY <1>1, <1>5 DEF Respond, TypeOK
  <1>6. CASE reply'[v] = reply[v]
    BY <1>2, <1>6, ReplyKept DEF Unread
  <1>7. CASE reply'[v] # reply[v] /\ ExecuteCreate(m)
    <2> DEFINE r == CreateReply(identity, m.key, m.payload)
    <2>1. /\ m.op = "create" /\ Respond(m, r)
          /\ identity' = CreateUser(identity, m.key, m.payload)
      BY <1>7 DEF ExecuteCreate
    <2>2. r.kind = "ok" => identity'.requests[m.key] =
                             [payload |-> m.payload, user |-> r.user]
      BY <1>1, <2>1, CreateKeeps DEF DataInv, IdentityInv, TypeOK
    <2> HIDE DEF r
    <2>3. v = m.from /\ reply'[v] = r
      BY <1>5, <1>7, <2>1
    <2>4. key[v] = m.key /\ pc[v] = "user"
      BY <1>3, <2>1, <2>3, NullsAreNotValues DEF PlaceOf
    <2>5. QED
      BY <1>2, <1>4, <2>2, <2>3, <2>4 DEF ReplyOK
  <1>8. CASE reply'[v] # reply[v] /\ ExecutePayment(m)
    <2>1. m.op = "pay"
      BY <1>8 DEF ExecutePayment
    <2>2. PICK r : /\ Respond(m, r)
                   /\ r.kind = "ok" => intents'[m.key] # NoRequest
                   /\ r.kind = "permanent" => ledger[m.key].payload \notin Supported
      BY <1>8, PaymentExecuted
    <2>3. v = m.from /\ reply'[v] = r
      BY <1>5, <1>8, <2>2
    <2>4. key[v] = m.key /\ pc[v] = "payment"
      BY <1>3, <2>1, <2>3, NullsAreNotValues DEF PlaceOf
    <2>5. QED
      BY <1>2, <2>2, <2>3, <2>4 DEF ReplyOK
  <1>9. CASE reply'[v] # reply[v] /\ ExecuteCompensate(m)
    <2>1. m.op = "compensate" /\ \E r : Respond(m, r)
      BY <1>9 DEF ExecuteCompensate
    <2>2. v = m.from
      BY <1>5, <1>9, <2>1
    <2>3. pc[v] = "compensation"
      BY <1>3, <2>1, <2>2, NullsAreNotValues DEF PlaceOf
    <2>4. QED
      BY <1>2, <2>3 DEF ReplyOK
  <1>10. QED
    BY <1>6, <1>7, <1>8, <1>9 DEF Execute

\* Replies stay true.
LEMMA ReplyStep ==
  ASSUME IInv, DataInv, [Next]_vars
  PROVE  ReplyInv'
  BY ReplySource, ReplyKept, ReplyExecuted DEF ReplyInv

-------------------------------------------------------------------------------
(* Answers. *)

\* Where answers of success come from.
LEMMA AnswerSource ==
  ASSUME IInv, DataInv, [Next]_vars, NEW v \in Worker,
         answer'[v] \in {"created", "replayed"}
  PROVE  /\ pc'[v] \in {"release", "answered"}
         /\ \/ answer'[v] = answer[v] /\ key'[v] = key[v]
            \/ key'[v] \in Key /\ ledger'[key'[v]].status = "COMPLETED"
  <1>1. TypeOK /\ PlaceInv /\ AnswerInv
    BY DEF IInv, DataInv
  <1>2. CASE answer'[v] = answer[v] /\ key'[v] = key[v] /\ pc'[v] = pc[v]
    BY <1>1, <1>2 DEF AnswerInv
  <1>3. ASSUME answer'[v] = answer[v] PROVE pc[v] \in {"release", "answered"}
    BY <1>1, <1>3 DEF AnswerInv
  <1>4. ASSUME NEW w \in Worker,
               Deliver(w) \/ WaiterSeesSettled(w) \/ WaiterGivesUp(w)
               \/ ClaimBatch(w) \/ Run(w) \/ TimeOut(w) \/ Die(w)
               \/ LeaseExpires(w) \/ AbandonedLeaseExpires(w), v # w
        PROVE  answer'[v] = answer[v] /\ key'[v] = key[v] /\ pc'[v] = pc[v]
    <2>1. pc'[v] = pc[v] /\ key'[v] = key[v]
      BY <1>4, OthersUndisturbed DEF Undisturbed
    <2>2. ASSUME NEW k, NEW row, Start(w, k, row)
          PROVE  answer' = answer \/ \E a : answer' = [answer EXCEPT ![w] = a]
      BY <2>2 DEF Start, End
    <2>3. ASSUME NEW row, Transition(w, row) \/ \E a : FinalTransition(w, row, a)
          PROVE  answer' = answer \/ \E a : answer' = [answer EXCEPT ![w] = a]
      BY <2>3 DEF Transition, FinalTransition, End
    <2>4. answer' = answer \/ \E a : answer' = [answer EXCEPT ![w] = a]
      BY <1>4, <2>2, <2>3 DEF Deliver, RejectReusedKey, Acquire, JoinWaiters,
         WaiterSeesSettled, WaiterGivesUp, ClaimBatch, Run, SendCreateUser,
         SendPayment, SendCompensation, Send, FinishUser, FinishPayment,
         FinishCompensation, End, Complete, Release, Depart, NextOfBatch, EndPass,
         TimeOut, Die, LeaseExpires, AbandonedLeaseExpires, worker
    <2>5. QED
      BY <1>1, <1>4, <2>1, <2>4 DEF TypeOK
  <1>5. ASSUME NEW k \in Key, NEW p \in Payload, Acquire(v, k, p)
        PROVE  /\ pc'[v] = "release"
               /\ key'[v] \in Key /\ ledger'[key'[v]].status = "COMPLETED"
    <2>1. Arrived(k, p) \in Row
      BY <1>1, FreshRowType DEF Arrived, TypeOK
    <2>2. pc[v] = "idle" /\ Start(v, k, Arrived(k, p))
          /\ ledger' = [ledger EXCEPT ![k] = Locked(Arrived(k, p), v)]
      BY <1>5 DEF Acquire, Fresh
    <2>3. answer'[v] # answer[v]
      BY <1>3, <2>2
    <2>4. IsCompleted(Arrived(k, p)) /\ pc'[v] = "release" /\ key'[v] = k
      <3>1. Arrived(k, p).error \in Problem
        BY <2>1 DEF Row
      <3>2. QED
        BY <1>1, <2>2, <2>3, <3>1 DEF Start, End, TypeOK
    <2>5. ledger'[k].status = "COMPLETED"
      BY <1>1, <2>1, <2>2, <2>4 DEF IsCompleted, Locked, Row, TypeOK
    <2>6. QED
      BY <2>4, <2>5
  <1>6. CASE NextOfBatch(v)
    <2>1. PICK k \in todo[v] : Start(v, k, snap[v][k])
      BY <1>6 DEF NextOfBatch
    <2>2. k \in Key
      BY <1>1 DEF TypeOK
    <2>3. ~IsCompleted(snap[v][k]) /\ ~IsTerminalFailure(snap[v][k])
      BY <1>1, <2>1 DEF PlaceInv, PlaceOK, Startable
    <2>4. answer' = answer
      BY <2>1, <2>3 DEF Start
    <2>5. QED
      BY <1>3, <1>6, <2>4 DEF NextOfBatch
  <1>7. ASSUME NEW k \in Key, NEW p \in Payload,
               RejectReusedKey(v, k, p) \/ JoinWaiters(v, k, p)
        PROVE  FALSE
    BY <1>1, <1>3, <1>7 DEF RejectReusedKey, JoinWaiters, Fresh, TypeOK
  <1>8. CASE WaiterSeesSettled(v)
    <2>1. key[v] \in Key
      BY <1>1, <1>8 DEF WaiterSeesSettled, PlaceInv, PlaceOK
    <2>2. ledger[key[v]].error \in Problem
      BY <1>1, <2>1 DEF TypeOK, Row
    <2>3. QED
      BY <1>1, <1>8, <2>1, <2>2 DEF WaiterSeesSettled, TypeOK, IsCompleted
  <1>9. CASE WaiterGivesUp(v) \/ ClaimBatch(v) \/ EndPass(v) \/ Depart(v)
             \/ Die(v)
    BY <1>1, <1>3, <1>9 DEF WaiterGivesUp, ClaimBatch, EndPass, Depart, Die,
       Fresh, At, TypeOK
  <1>10. CASE SendCreateUser(v) \/ SendPayment(v) \/ SendCompensation(v)
    BY <1>3, <1>10 DEF SendCreateUser, SendPayment, SendCompensation, Send,
       Dispatches
  <1>11. CASE FinishUser(v) \/ FinishPayment(v) \/ FinishCompensation(v)
    <2>1. pc[v] \in Running
      BY <1>11 DEF FinishUser, FinishPayment, FinishCompensation, At, Running
    <2>2. reply[v].kind \in {"permanent", "transient", "ok"}
      BY <1>1, <1>11 DEF FinishUser, FinishPayment, FinishCompensation, Replied,
         TypeOK, Reply
    <2>3. \A row : Transition(v, row) => /\ answer' = answer
                                         \/ answer'[v] = "internal"
      BY <1>1 DEF Transition, End, TypeOK
    <2>4. FinishCompensation(v) => ~Holds(v)
      BY <1>1 DEF FinishCompensation, At, PlaceInv, PlaceOK, Running
    <2>5. answer' = answer \/ answer'[v] \in {"internal", "permanent", "transient"}
      BY <1>1, <1>11, <2>2, <2>3, <2>4 DEF FinishUser, FinishPayment,
         FinishCompensation, FinalTransition, End, TypeOK
    <2>6. QED
      BY <1>3, <2>1, <2>5 DEF Running
  <1>12. CASE Complete(v)
    <2>1. pc[v] \in Running
      BY <1>12 DEF Complete, Dispatches, Running
    <2>2. key[v] \in Key /\ ledger[key[v]] \in Row /\ Saga(v).user \in Nat
      BY <2>1, RunningHasKey DEF IInv, TypeOK, Row
    <2>3. Completed(ledger[key[v]], Saga(v).user).status = "COMPLETED"
      BY <2>2 DEF Completed, Row
    <2>4. CASE Holds(v)
      BY <1>1, <1>12, <2>2, <2>3, <2>4 DEF Complete, FinalTransition, End, TypeOK
    <2>5. CASE ~Holds(v)
      BY <1>1, <1>12, <2>5 DEF Complete, FinalTransition, End, TypeOK
    <2>6. QED
      BY <2>4, <2>5
  <1>13. CASE Release(v)
    BY <1>1, <1>13 DEF Release, TypeOK
  <1>14. CASE TimeOut(v) \/ LeaseExpires(v) \/ AbandonedLeaseExpires(v)
    BY <1>2, <1>14 DEF TimeOut, LeaseExpires, AbandonedLeaseExpires, worker
  <1>15. ASSUME NEW m \in commands, Execute(m) \/ ServiceFails(m)
         PROVE  answer' = answer /\ key' = key /\ pc' = pc
    BY <1>15 DEF Execute, ExecuteCreate, ExecutePayment, ExecuteCompensate,
       ServiceFails
  <1>16. CASE UNCHANGED vars \/ \E k \in Key : RetryFallsDue(k)
    BY <1>2, <1>16 DEF vars, RetryFallsDue, worker
  <1>17. CASE \E w \in Worker :
               Deliver(w) \/ WaiterSeesSettled(w) \/ WaiterGivesUp(w)
               \/ ClaimBatch(w) \/ Run(w) \/ TimeOut(w) \/ Die(w)
               \/ LeaseExpires(w) \/ AbandonedLeaseExpires(w)
    <2>1. PICK w \in Worker :
               Deliver(w) \/ WaiterSeesSettled(w) \/ WaiterGivesUp(w)
               \/ ClaimBatch(w) \/ Run(w) \/ TimeOut(w) \/ Die(w)
               \/ LeaseExpires(w) \/ AbandonedLeaseExpires(w)
      BY <1>17
    <2>2. CASE v # w
      BY <1>2, <1>4, <2>1, <2>2
    <2>3. CASE v = w
      BY <1>5, <1>6, <1>7, <1>8, <1>9, <1>10, <1>11, <1>12, <1>13, <1>14, <2>1,
         <2>3 DEF Deliver, Run
    <2>4. QED
      BY <2>2, <2>3
  <1>18. QED
    BY <1>2, <1>15, <1>16, <1>17, WorkersAreTwoKinds DEF Next

\* Nobody speaks of a success that is not recorded.
LEMMA AnswerStep ==
  ASSUME IInv, DataInv, [Next]_vars
  PROVE  AnswerInv'
  <1> SUFFICES ASSUME NEW w \in Worker, answer'[w] \in {"created", "replayed"}
               PROVE  /\ pc'[w] \in {"release", "answered"}
                      /\ ledger'[key'[w]].status = "COMPLETED"
    BY DEF AnswerInv
  <1>1. CASE answer'[w] = answer[w] /\ key'[w] = key[w]
    <2>1. /\ pc[w] \in {"release", "answered"}
          /\ ledger[key[w]].status = "COMPLETED"
      BY <1>1 DEF DataInv, AnswerInv
    <2>2. key[w] \in Key
      BY <2>1 DEF IInv, PlaceInv, PlaceOK
    <2>3. QED
      BY <1>1, <2>1, <2>2, Keeps, AnswerSource
  <1>2. QED
    BY <1>1, AnswerSource

-------------------------------------------------------------------------------
(* The theorems. *)

\* The databases agree when they are empty.
LEMMA InitData == Init => DataInv
  <1> SUFFICES ASSUME Init PROVE DataInv
    OBVIOUS
  <1>1. /\ \A k \in Key : ledger[k] = AbsentRow /\ intents[k] = NoRequest
        /\ \A w \in Worker, k \in Key : snap[w][k] = AbsentRow
        /\ \A w \in Worker : pc[w] = "idle" /\ answer[w] = "none"
        /\ commands = {} /\ identity = EmptyStore
    BY DEF Init, NoRows
  <1>2. \A k \in Key : ledger[k].user = 0 /\ ledger[k].status = "ABSENT"
                       /\ ~Failing(k)
    BY <1>1, AbsentRowFields DEF Failing, IsTerminalFailure
  <1>3. SnapInv
    BY <1>1, AbsentRowFields DEF SnapInv
  <1>4. IdentityInv
    BY <1>1, <1>2 DEF IdentityInv, Sound, Backed, EmptyStore
  <1>5. PaymentInv
    BY <1>1, <1>2 DEF PaymentInv
  <1>6. CommandInv /\ ReplyInv /\ AnswerInv
    BY <1>1 DEF CommandInv, ReplyInv, ReplyOK, AnswerInv
  <1>7. QED
    BY <1>3, <1>4, <1>5, <1>6 DEF DataInv

\* Every step keeps them agreeing.
LEMMA StepData == IInv /\ DataInv /\ [Next]_vars => DataInv'
  BY SnapStep, CommandStep, IdentityStep, PaymentStep, ReplyStep, AnswerStep
     DEF DataInv

\* The databases agree in every reachable state.
THEOREM DatabasesAgree == Spec => []DataInv
  BY InitData, StepData, Invariant, PTL DEF Spec

\* A caller is told of success only about a completed saga, also when another
\* worker took the saga over before the answer was sent.
THEOREM AnswersAreDurable == Spec => []AnswerIsDurable
  <1>1. DataInv => AnswerIsDurable
    BY WorkersAreTwoKinds DEF DataInv, AnswerInv, AnswerIsDurable
  <1>2. QED
    BY <1>1, DatabasesAgree, PTL

\* No user of a saga that may still succeed is removed, nor is a command on
\* its way that would.
THEOREM CompensationIsForFailures == Spec => []OnlyFailedIsCompensated
  <1>1. IInv /\ DataInv => OnlyFailedIsCompensated
    <2> SUFFICES ASSUME IInv, DataInv, NEW k \in Key,
                        \/ identity.receipts[k] # 0
                        \/ \E m \in commands : m.op = "compensate" /\ m.key = k
                        \/ \E w \in Worker : pc[w] = "compensation" /\ key[w] = k
                 PROVE  Failing(k)
      BY DEF OnlyFailedIsCompensated, Failing
    <2>1. CASE identity.receipts[k] # 0
      BY <2>1 DEF DataInv, IdentityInv, Backed
    <2>2. CASE \E m \in commands : m.op = "compensate" /\ m.key = k
      BY <2>2 DEF DataInv, CommandInv
    <2>3. CASE \E w \in Worker : pc[w] = "compensation" /\ key[w] = k
      <3>1. PICK w \in Worker : pc[w] = "compensation" /\ key[w] = k
        BY <2>3
      <3>2. pc[w] \in Running /\ Saga(w).next = "COMPENSATE_USER"
        BY <3>1 DEF IInv, PlaceInv, PlaceOK, Running
      <3>3. QED
        BY <3>1, <3>2, RunningKnows DEF DataInv
    <2>4. QED
      BY <2>1, <2>2, <2>3
  <1>2. QED
    BY <1>1, Invariant, DatabasesAgree, PTL

\* A row that may still succeed and has a user has that user registered.
LEMMA StandingUser ==
  ASSUME IInv, DataInv, NEW k \in Key, ledger[k].user # NoUser, ~Failing(k)
  PROVE  /\ identity.requests[k] = Of(k)
         /\ [id |-> ledger[k].user, handles |-> HandlesOf[ledger[k].payload]]
              \in identity.users
         /\ ledger[k].user \in UserIds(identity)
         /\ identity.receipts[k] = 0
  <1>1. Backed(k, identity) /\ Sound(identity)
    BY DEF DataInv, IdentityInv
  <1>2. identity.requests[k] = Of(k) /\ identity.receipts[k] = 0
    BY <1>1 DEF Backed
  <1>3. Of(k) # NoRequest
    BY DEF Of, NoRequest
  <1>4. [id |-> ledger[k].user, handles |-> HandlesOf[ledger[k].payload]]
          \in identity.users
    BY <1>1, <1>2, <1>3 DEF Sound, Of
  <1>5. ledger[k].user \in UserIds(identity)
    BY <1>4 DEF UserIds
  <1>6. QED
    BY <1>2, <1>4, <1>5

\* The fields of a completed row.
LEMMA CompletedRow ==
  ASSUME IInv, NEW k \in Key, ledger[k].status = "COMPLETED"
  PROVE  /\ ledger[k].response = ledger[k].user /\ ledger[k].user # NoUser
         /\ ~Failing(k) /\ IsCompleted(ledger[k])
  <1>1. RowOK(ledger[k])
    BY DEF IInv, RowInv
  <1>2. ledger[k].response = ledger[k].user /\ ledger[k].user # NoUser
    BY <1>1 DEF RowOK
  <1>3. QED
    BY <1>2 DEF Failing, IsTerminalFailure, IsCompleted

\* A completed saga has its user and its payment, whatever was retried,
\* repeated or executed late, and nothing is under way that would remove them.
THEOREM CompletedSagasAreWhole == Spec => []CompletedIsWhole
  <1>1. IInv /\ DataInv => CompletedIsWhole
    <2> SUFFICES ASSUME IInv, DataInv, NEW k \in Key,
                        ledger[k].status = "COMPLETED"
                 PROVE  /\ ledger[k].response = ledger[k].user
                        /\ ledger[k].user \in UserIds(identity)
                        /\ identity.requests[k] = Of(k)
                        /\ intents[k] = Of(k)
                        /\ identity.receipts[k] = 0
                        /\ \A m \in commands : m.key = k => m.op # "compensate"
      BY DEF CompletedIsWhole, Of
    <2>1. /\ ledger[k].response = ledger[k].user /\ ledger[k].user # NoUser
          /\ ~Failing(k)
      BY CompletedRow
    <2>2. intents[k] = Of(k)
      BY DEF DataInv, PaymentInv
    <2>3. \A m \in commands : m.key = k => m.op # "compensate"
      BY <2>1 DEF DataInv, CommandInv
    <2>4. QED
      BY <2>1, <2>2, <2>3, StandingUser
  <1>2. QED
    BY <1>1, Invariant, DatabasesAgree, PTL

\* No payment is asked of a user that was removed.
THEOREM IntentsHaveUsers == Spec => []NoIntentWithoutUser
  <1>1. IInv /\ DataInv => NoIntentWithoutUser
    <2> SUFFICES ASSUME IInv, DataInv, NEW k \in Key, intents[k] # NoRequest
                 PROVE  /\ intents[k].user \in UserIds(identity)
                        /\ intents[k].user = ledger[k].user
      BY DEF NoIntentWithoutUser
    <2>1. ~Failing(k) /\ ledger[k].user # NoUser /\ intents[k] = Of(k)
      BY DEF DataInv, PaymentInv
    <2>2. ledger[k].user \in UserIds(identity)
      BY <2>1, StandingUser
    <2>3. QED
      BY <2>1, <2>2 DEF Of
  <1>2. QED
    BY <1>1, Invariant, DatabasesAgree, PTL

-------------------------------------------------------------------------------
(* Sagas implement account creation. *)

\* The account a sound row stands for.
LEMMA AccountFields ==
  ASSUME NEW row \in Row, RowOK(row)
  PROVE  /\ row.status = "ABSENT" =>
              AccountOf(row) = [phase |-> "none", payload |-> NoPayload,
                                user |-> 0]
         /\ row.status = "COMPLETED" =>
              AccountOf(row) = [phase |-> "created", payload |-> row.payload,
                                user |-> row.user]
         /\ IsTerminalFailure(row) =>
              AccountOf(row) = [phase |-> "refused", payload |-> row.payload,
                                user |-> 0]
         /\ row.status \notin {"ABSENT", "COMPLETED"} /\ ~IsTerminalFailure(row) =>
              AccountOf(row) = [phase |-> "open", payload |-> row.payload,
                                user |-> 0]
  <1>1. row = AbsentRow <=> row.status = "ABSENT"
    BY AbsentRowFields DEF RowOK
  <1>2. IsCompleted(row) <=> row.status = "COMPLETED"
    BY DEF IsCompleted, RowOK
  <1>3. IsTerminalFailure(row) => row.status \notin {"ABSENT", "COMPLETED"}
    BY DEF IsTerminalFailure
  <1>4. CASE row.status = "ABSENT"
    BY <1>1, <1>2, <1>3, <1>4, AbsentRowFields DEF AccountOf
  <1>5. CASE row.status = "COMPLETED"
    <2>1. row.response = row.user
      BY <1>5 DEF RowOK
    <2>2. QED
      BY <1>1, <1>2, <1>3, <1>5, <2>1 DEF AccountOf
  <1>6. CASE IsTerminalFailure(row)
    BY <1>1, <1>2, <1>3, <1>6 DEF AccountOf
  <1>7. CASE row.status \notin {"ABSENT", "COMPLETED"} /\ ~IsTerminalFailure(row)
    BY <1>1, <1>2, <1>7 DEF AccountOf
  <1>8. QED
    BY <1>4, <1>5, <1>6, <1>7

\* Locks and backoffs are not seen in an account.
LEMMA AccountOfBare ==
  ASSUME NEW row \in Row, NEW new \in Row, RowOK(row), RowOK(new),
         Bare(new) = Bare(row)
  PROVE  AccountOf(new) = AccountOf(row)
  <1>1. /\ new.status = row.status /\ new.payload = row.payload
        /\ new.response = row.response
        /\ IsTerminalFailure(new) = IsTerminalFailure(row)
        /\ IsCompleted(new) = IsCompleted(row)
    BY BareFields
  <1>2. /\ row = AbsentRow <=> row.status = "ABSENT"
        /\ new = AbsentRow <=> new.status = "ABSENT"
    BY AbsentRowFields DEF RowOK
  <1>3. CASE row.status = "ABSENT"
    BY <1>1, <1>2, <1>3
  <1>4. CASE row.status # "ABSENT"
    BY <1>1, <1>2, <1>4 DEF AccountOf
  <1>5. QED
    BY <1>3, <1>4

\* The user of a saga that completes is new, and shares no handle with the
\* user of another completed saga.
LEMMA UserIsNew ==
  ASSUME IInv, DataInv, NEW k \in Key, ledger[k].status = "PAYMENT_CREATED",
         NEW j \in Key \ {k}, ledger[j].status = "COMPLETED"
  PROVE  /\ ledger[j].user # ledger[k].user
         /\ HandlesOf[ledger[j].payload] \cap HandlesOf[ledger[k].payload] = {}
  <1> DEFINE user(i) == [id |-> ledger[i].user,
                         handles |-> HandlesOf[ledger[i].payload]]
  <1>1. ledger[j].user # NoUser /\ ~Failing(j)
    BY CompletedRow
  <1>2. ledger[k].user # NoUser /\ ~Failing(k)
    <2>1. RowOK(ledger[k])
      BY DEF IInv, RowInv
    <2>2. QED
      BY <2>1 DEF RowOK, Failing, IsTerminalFailure
  <1>3. /\ identity.requests[j] = Of(j) /\ user(j) \in identity.users
        /\ identity.requests[k] = Of(k) /\ user(k) \in identity.users
    BY <1>1, <1>2, StandingUser
  <1>4. ledger[j].user # ledger[k].user
    <2>1. Of(j) # NoRequest
      BY <1>1 DEF Of, NoRequest
    <2>2. QED
      BY <1>3, <2>1 DEF Of, DataInv, IdentityInv, Sound
  <1>5. user(j) # user(k)
    BY <1>4
  <1>6. user(j).handles \cap user(k).handles = {}
    <2> HIDE DEF user
    <2>1. QED
      BY <1>3, <1>5 DEF DataInv, IdentityInv, Sound
  <1>7. QED
    BY <1>4, <1>6

\* What a step of the saga does to the accounts.
LEMMA AccountMoves ==
  ASSUME IInv, DataInv, IInv', NEW k \in Key, Moves(k)
  PROVE  \/ AccountOf(ledger'[k]) = AccountOf(ledger[k])
         \/ /\ AccountOf(ledger[k]) = Promise!NoAccount
            /\ ledger'[k].payload \in Payload
            /\ AccountOf(ledger'[k]) = [phase |-> "open",
                                        payload |-> ledger'[k].payload,
                                        user |-> 0]
         \/ /\ AccountOf(ledger[k]) = [phase |-> "open",
                                       payload |-> ledger[k].payload,
                                       user |-> 0]
            /\ AccountOf(ledger'[k]) = [phase |-> "refused",
                                        payload |-> ledger[k].payload,
                                        user |-> 0]
         \/ /\ ledger[k].status = "PAYMENT_CREATED" /\ ledger[k].user # NoUser
            /\ AccountOf(ledger[k]) = [phase |-> "open",
                                       payload |-> ledger[k].payload,
                                       user |-> 0]
            /\ AccountOf(ledger'[k]) = [phase |-> "created",
                                        payload |-> ledger[k].payload,
                                        user |-> ledger[k].user]
  <1>1. /\ ledger[k] \in Row /\ RowOK(ledger[k])
        /\ ledger'[k] \in Row /\ RowOK(ledger'[k])
    BY DEF IInv, TypeOK, RowInv
  <1>2. ~IsTerminalFailure(ledger[k])
    BY MoveKinds DEF Failing
  <1>3. CASE ledger[k].status = "ABSENT"
    <2>1. ledger'[k].status = "STARTED" /\ ledger'[k].payload \in Payload
      BY <1>3, MoveKinds
    <2>2. ~IsTerminalFailure(ledger'[k])
      BY <2>1 DEF IsTerminalFailure
    <2>3. QED
      BY <1>1, <1>3, <2>1, <2>2, AccountFields DEF Promise!NoAccount,
         Promise!NoUser
  <1>4. CASE ledger[k].status = "STARTED"
    <2>1. /\ ledger'[k].status = "USER_CREATED"
          /\ ledger'[k].payload = ledger[k].payload
      BY <1>4, MoveKinds
    <2>2. ~IsTerminalFailure(ledger'[k])
      BY <2>1 DEF IsTerminalFailure
    <2>3. QED
      BY <1>1, <1>2, <1>4, <2>1, <2>2, AccountFields
  <1>5. CASE ledger[k].status \in {"USER_CREATED", "FAILED"}
    <2>1. /\ ledger'[k].status \in {"PAYMENT_CREATED", "FAILED"}
          /\ ledger'[k].payload = ledger[k].payload
      BY <1>5, MoveKinds
    <2>2. QED
      BY <1>1, <1>2, <1>5, <2>1, AccountFields
  <1>6. CASE ledger[k].status = "PAYMENT_CREATED"
    <2>1. /\ ledger'[k].status = "COMPLETED"
          /\ ledger'[k].payload = ledger[k].payload
          /\ ledger'[k].user = ledger[k].user
      BY <1>6, MoveKinds
    <2>2. ledger[k].user # NoUser
      BY <1>1, <1>6 DEF RowOK
    <2>3. QED
      BY <1>1, <1>2, <1>6, <2>1, <2>2, AccountFields
  <1>7. QED
    BY <1>3, <1>4, <1>5, <1>6, MoveKinds

Accounts == [k \in Key |-> AccountOf(ledger[k])]

\* The accounts move as AccountCreation has them move.
LEMMA PromisedAccounts ==
  ASSUME IInv, DataInv, IInv', [Next]_vars
  PROVE  \/ UNCHANGED Accounts
         \/ \E k \in Key : \/ \E p \in Payload : Promise!Ask(k, p)
                           \/ Promise!Create(k, Accounts'[k].user)
                           \/ Promise!Refuse(k)
  <1>1. \A k \in Key : /\ ledger[k] \in Row /\ RowOK(ledger[k])
                       /\ ledger'[k] \in Row /\ RowOK(ledger'[k])
    BY DEF IInv, TypeOK, RowInv
  <1>2. CASE \A k \in Key : Bare(ledger'[k]) = Bare(ledger[k])
    <2>1. \A k \in Key : AccountOf(ledger'[k]) = AccountOf(ledger[k])
      BY <1>1, <1>2, AccountOfBare
    <2>2. QED
      BY <2>1 DEF Accounts
  <1>3. ASSUME NEW k \in Key, Moves(k),
               \A j \in Key \ {k} : ledger'[j] = ledger[j]
        PROVE  \/ UNCHANGED Accounts
               \/ \E p \in Payload : Promise!Ask(k, p)
               \/ Promise!Create(k, Accounts'[k].user)
               \/ Promise!Refuse(k)
    <2>1. Accounts' = [Accounts EXCEPT ![k] = AccountOf(ledger'[k])]
      BY <1>3 DEF Accounts
    <2>2. CASE AccountOf(ledger'[k]) = AccountOf(ledger[k])
      BY <2>1, <2>2 DEF Accounts
    <2>3. CASE /\ AccountOf(ledger[k]) = Promise!NoAccount
               /\ ledger'[k].payload \in Payload
               /\ AccountOf(ledger'[k]) = [phase |-> "open",
                                           payload |-> ledger'[k].payload,
                                           user |-> 0]
      <3>1. Promise!Ask(k, ledger'[k].payload)
        <4>1. Accounts[k] = Promise!NoAccount
          BY <2>3 DEF Accounts
        <4>2. QED
          BY <2>1, <2>3, <4>1 DEF Accounts, Promise!Ask, Promise!NoUser
      <3>2. QED
        BY <2>3, <3>1
    <2>4. CASE /\ AccountOf(ledger[k]) = [phase |-> "open",
                                          payload |-> ledger[k].payload,
                                          user |-> 0]
               /\ AccountOf(ledger'[k]) = [phase |-> "refused",
                                           payload |-> ledger[k].payload,
                                           user |-> 0]
      <3>1. Promise!Refuse(k)
        <4>1. Accounts[k] = [phase |-> "open", payload |-> ledger[k].payload,
                             user |-> 0]
          BY <2>4 DEF Accounts
        <4>2. /\ Accounts[k].phase = "open"
              /\ Accounts[k].payload = ledger[k].payload
              /\ Accounts[k].user = 0
          BY <4>1
        <4>3. Accounts' = [Accounts EXCEPT ![k] =
                [phase |-> "refused", payload |-> Accounts[k].payload,
                 user |-> Accounts[k].user]]
          BY <2>1, <2>4, <4>2
        <4>4. QED
          BY <4>2, <4>3 DEF Accounts, Promise!Refuse
      <3>2. QED
        BY <3>1
    <2>5. CASE /\ ledger[k].status = "PAYMENT_CREATED" /\ ledger[k].user # NoUser
               /\ AccountOf(ledger[k]) = [phase |-> "open",
                                          payload |-> ledger[k].payload,
                                          user |-> 0]
               /\ AccountOf(ledger'[k]) = [phase |-> "created",
                                           payload |-> ledger[k].payload,
                                           user |-> ledger[k].user]
      <3>1. ASSUME NEW j \in Key \ {k}, Accounts[j].phase = "created"
            PROVE  /\ Accounts[j].user # ledger[k].user
                   /\ HandlesOf[Accounts[j].payload] \cap
                        HandlesOf[Accounts[k].payload] = {}
        <4>1. ledger[j].status = "COMPLETED"
          BY <1>1, <3>1, AccountFields DEF Accounts
        <4>2. /\ Accounts[j].user = ledger[j].user
              /\ Accounts[j].payload = ledger[j].payload
              /\ Accounts[k].payload = ledger[k].payload
          BY <1>1, <2>5, <4>1, AccountFields DEF Accounts
        <4>3. QED
          BY <2>5, <4>1, <4>2, UserIsNew
      <3>2. Accounts'[k].user = ledger[k].user
        BY <2>5 DEF Accounts
      <3>3. Accounts[k] = [phase |-> "open", payload |-> ledger[k].payload,
                           user |-> 0]
        BY <2>5 DEF Accounts
      <3>4. Accounts[k].phase = "open" /\ Accounts[k].payload = ledger[k].payload
        BY <3>3
      <3>5. Accounts' = [Accounts EXCEPT ![k] =
              [phase |-> "created", payload |-> Accounts[k].payload,
               user |-> ledger[k].user]]
        BY <2>1, <2>5, <3>4
      <3>6. Promise!Create(k, ledger[k].user)
        BY <2>5, <3>1, <3>4, <3>5
           DEF Accounts, Promise!Create, Promise!Created, Promise!NoUser
      <3>7. QED
        BY <3>2, <3>6
    <2>6. QED
      BY <1>3, <2>2, <2>3, <2>4, <2>5, AccountMoves
  <1>4. LedgerStep
    BY EveryLedgerStep
  <1>5. QED
    BY <1>2, <1>3, <1>4 DEF LedgerStep

\* Callers are told what AccountCreation lets them be told.
LEMMA PromisedAnswers ==
  ASSUME IInv', DataInv'
  PROVE  Promise!Tell
  <1>1. ASSUME NEW w \in Caller
        PROVE  \/ ToldOf(w)' = NoKey
               \/ ToldOf(w)' \in Key /\ Accounts'[ToldOf(w)'].phase = "created"
    <2>1. CASE answer'[w] \notin {"created", "replayed"}
      BY <2>1 DEF ToldOf
    <2>2. CASE answer'[w] \in {"created", "replayed"}
      <3>1. w \in Worker
        BY WorkersAreTwoKinds
      <3>2. pc'[w] \in {"release", "answered"}
            /\ ledger'[key'[w]].status = "COMPLETED"
        BY <2>2, <3>1 DEF DataInv, AnswerInv
      <3>3. key'[w] \in Key
        BY <3>1, <3>2 DEF IInv, PlaceInv, PlaceOK
      <3>4. ledger'[key'[w]] \in Row /\ RowOK(ledger'[key'[w]])
        BY <3>3 DEF IInv, TypeOK, RowInv
      <3>5. Accounts'[key'[w]].phase = "created"
        BY <3>2, <3>3, <3>4, AccountFields DEF Accounts
      <3>6. QED
        BY <2>2, <3>3, <3>5 DEF ToldOf
    <2>3. QED
      BY <2>1, <2>2
  <1>2. QED
    BY <1>1 DEF Promise!Tell, Accounts

\* Sagas implement account creation, whatever is retried, taken over,
\* compensated or executed late: one user for a key, of the payload that came
\* first, none of its handles shared with another completed saga, outcomes that
\* stay, and no caller told of an account before it is completed.
THEOREM SagasKeepThePromise == Spec => KeepsPromise
  <1>1. Init => Promise!Init
    <2> SUFFICES ASSUME Init PROVE Promise!Init
      OBVIOUS
    <2>1. \A k \in Key : AccountOf(ledger[k]) = Promise!NoAccount
      <3>1. \A k \in Key : ledger[k] = AbsentRow
        BY DEF Init, NoRows
      <3>2. AccountOf(AbsentRow) = Promise!NoAccount
        <4>1. AbsentRow \in Row /\ RowOK(AbsentRow)
          BY AbsentRowType, AbsentRowFields DEF RowOK
        <4>2. QED
          BY <4>1, AbsentRowFields, AccountFields DEF Promise!NoAccount,
             Promise!NoUser
      <3>3. QED
        BY <3>1, <3>2
    <2>2. \A w \in Caller : ToldOf(w) = NoKey
      BY WorkersAreTwoKinds DEF Init, ToldOf
    <2>3. QED
      BY <2>1, <2>2 DEF Promise!Init
  <1>2. IInv /\ DataInv /\ IInv' /\ DataInv' /\ [Next]_vars => Promise!Next
    BY PromisedAccounts, PromisedAnswers DEF Promise!Next, Accounts
  <1>3. Promise!Next => [Promise!Next]_<<Accounts, [w \in Caller |-> ToldOf(w)]>>
    OBVIOUS
  <1>4. QED
    BY <1>1, <1>2, <1>3, Invariant, DatabasesAgree, PTL
       DEF Spec, KeepsPromise, Promise!Spec, Accounts
===============================================================================
