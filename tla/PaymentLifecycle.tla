--------------------------- MODULE PaymentLifecycle ---------------------------
(***************************************************************************)
(* The payment service: its event consumer (service.go, rabbit/consumer.go *)
(* and bus.go), the documents of its MongoDB collection (mongo/            *)
(* repository.go) and the ticker of each instance that publishes the       *)
(* messages stored in them (PublishPending).                               *)
(*                                                                         *)
(* A message is named by its payment and by what its messageId says: a     *)
(* request (ppd, pdr), a payment.status-updated (psu, with the status it   *)
(* announces; DELIVERED is COMPLETED with its delivery done) or            *)
(* payment.confirmed (pcf).  created counts how often one is stored; that  *)
(* it never exceeds 1 is checked and is what allows slots to be keyed by   *)
(* message.  The queue is a set: of two equal events waiting in it the     *)
(* second is left out, but not an event published while an equal one is    *)
(* handled.                                                                *)
(*                                                                         *)
(* past and stale are clocks: the payments whose expiresAt has passed, and *)
(* the callbacks older than the tolerance.  The instant expiresAt itself   *)
(* counts as passed.  Confirmations are not simulated                      *)
(* (SimulateWebhookConfirmation is off by default and as deployed), the    *)
(* callbacks come from webhook-service, and one that is repeated is        *)
(* another callback.  The payment of a callback exists.  A claim token is  *)
(* a uuid drawn for each claim; the model names the instance instead, and  *)
(* Nobody once no ticker works under that claim any more.                  *)
(*                                                                         *)
(* The faults, bounded by MaxFaults, are                                   *)
(*   "delivery"    an event is delivered again although its handler ran or *)
(*                 ran halfway: a database error, answered with a nack, or *)
(*                 a lost acknowledgement                                  *)
(*   "database"    a statement of the publisher fails                      *)
(*   "slow"        a claim runs out under a publisher that still works     *)
(*   "crash"       a process ends and another starts in its place          *)
(*   "connection"  the broker connection of a process is lost              *)
(* MaxFaults is assumed to be below the delivery limit of the queue.       *)
(***************************************************************************)
EXTENDS Naturals, FiniteSets

CONSTANTS Payment, Callback,
          PaymentOf,           \* [Callback -> Payment]
          InTime,              \* callbacks not after the expiry of the payment
          Matching,            \* callbacks with its amount and currency
          Instance, Nobody,
          Nothing,
          BatchLimit,          \* messages claimed per tick
          GatewayMayFail,      \* SimulationSuccessRate < 1
          FaultKinds, MaxFaults

Kind == {"process", "PROCESSING", "FAILED", "EXPIRED", "COMPLETED",
         "deliver", "DELIVERED", "confirmed"}

Message == [payment : Payment, kind : Kind]

Msg(p, kind) == [payment |-> p, kind |-> kind]

ASSUME CallbacksArePayments ==
         /\ PaymentOf \in [Callback -> Payment]
         /\ InTime \subseteq Callback /\ Matching \subseteq Callback
         /\ Callback \cap Message = {}
ASSUME NamesAreNew == /\ Nobody \notin Instance
                      /\ Nothing \notin Callback \cup Message
ASSUME BoundsAreNat == BatchLimit \in Nat \ {0} /\ MaxFaults \in Nat
                       /\ GatewayMayFail \in BOOLEAN

VARIABLES payments,    \* the documents, without pendingMessages
          slots,       \* pendingMessages of all documents
          queue,       \* events waiting for this service
          sent,        \* how often the broker got each message
          created,     \* how often each message was stored
          dropped,     \* messages written to a dead connection, taken for sent
          arrived,     \* callbacks relayed so far
          past, stale,
          connected,   \* the channels of each instance are open
          hand, at,    \* the event each consumer handles, and how far it is
          pub,         \* where the ticker of each instance is
          batch, current,
          faults

store == <<payments, slots, created>>
clocks == <<past, stale>>
consumer == <<hand, at>>
publisher == <<pub, batch, current>>
vars == <<store, queue, sent, dropped, arrived, clocks, connected, consumer,
          publisher, faults>>

Status == {"ABSENT", "PENDING", "PROCESSING", "FAILED", "COMPLETED", "EXPIRED"}

Slot == [in : BOOLEAN, due : BOOLEAN, leased : BOOLEAN,
         token : Instance \cup {Nobody}]

NoSlot == [in |-> FALSE, due |-> TRUE, leased |-> FALSE, token |-> Nobody]
NewSlot == [NoSlot EXCEPT !.in = TRUE]

Init ==
  /\ payments = [p \in Payment |->
                   [status |-> "ABSENT", delivery |-> "PENDING"]]
  /\ slots = [m \in Message |-> NoSlot]
  /\ queue = {}
  /\ sent = [m \in Message |-> 0]
  /\ created = [m \in Message |-> 0]
  /\ dropped = {}
  /\ arrived = {}
  /\ past = {}
  /\ stale = {}
  /\ connected = [i \in Instance |-> TRUE]
  /\ hand = [i \in Instance |-> Nothing]
  /\ at = [i \in Instance |-> "idle"]
  /\ pub = [i \in Instance |-> "idle"]
  /\ batch = [i \in Instance |-> {}]
  /\ current = [i \in Instance |-> Nothing]
  /\ faults = 0

Fault(kind) == /\ kind \in FaultKinds
               /\ faults < MaxFaults
               /\ faults' = faults + 1

Has(p, status) == payments[p].status \in status

-------------------------------------------------------------------------------
(* Writes to one document, each atomic: EnqueueMessages and                *)
(* transitionWithMessages, which does nothing unless the document passes   *)
(* its filter.                                                             *)

Push(ms) ==
  /\ slots' = [m \in Message |-> IF m \in ms THEN NewSlot ELSE slots[m]]
  /\ created' = [m \in Message |-> IF m \in ms THEN created[m] + 1
                                              ELSE created[m]]

SetStatus(p, status) == payments' = [payments EXCEPT ![p].status = status]

Undecided == {"PENDING", "PROCESSING", "FAILED"}

\* Mutant: the document is found and changed in two steps, without a filter.
MarkExpiredUntested(p) ==
  SetStatus(p, "EXPIRED") /\ Push({Msg(p, "EXPIRED")})

MarkExpired(p) ==
  IF Has(p, Undecided)
  THEN SetStatus(p, "EXPIRED") /\ Push({Msg(p, "EXPIRED")})
  ELSE UNCHANGED store

MarkFailed(p) ==
  IF Has(p, {"PROCESSING"})
  THEN SetStatus(p, "FAILED") /\ Push({Msg(p, "FAILED")})
  ELSE UNCHANGED store

\* Mutant: no delivery is requested.
MarkCompletedAlone(p) ==
  IF Has(p, Undecided)
  THEN SetStatus(p, "COMPLETED") /\ Push({Msg(p, "COMPLETED")})
  ELSE UNCHANGED store

MarkCompleted(p) ==
  IF Has(p, Undecided)
  THEN /\ SetStatus(p, "COMPLETED")
       /\ Push({Msg(p, "COMPLETED"), Msg(p, "deliver")})
  ELSE UNCHANGED store

\* Mutant: a second delivery request delivers again.
MarkDeliveryAgain(p) ==
  IF Has(p, {"COMPLETED"})
  THEN /\ payments' = [payments EXCEPT ![p].delivery = "DELIVERED"]
       /\ Push({Msg(p, "DELIVERED"), Msg(p, "confirmed")})
  ELSE UNCHANGED store

MarkDelivery(p) ==
  IF Has(p, {"COMPLETED"}) /\ payments[p].delivery = "PENDING"
  THEN /\ payments' = [payments EXCEPT ![p].delivery = "DELIVERED"]
       /\ Push({Msg(p, "DELIVERED"), Msg(p, "confirmed")})
  ELSE UNCHANGED store

-------------------------------------------------------------------------------
(* What reaches the service. *)

CreatePayment(p) ==
  /\ Has(p, {"ABSENT"})
  /\ SetStatus(p, "PENDING")
  /\ Push({Msg(p, "process")})
  /\ UNCHANGED <<queue, sent, dropped, arrived, clocks, connected, consumer,
                 publisher, faults>>

Arrive(cb) ==
  /\ cb \notin arrived
  /\ ~Has(PaymentOf[cb], {"ABSENT"})
  /\ arrived' = arrived \cup {cb}
  /\ queue' = queue \cup {cb}
  /\ UNCHANGED <<store, sent, dropped, clocks, connected, consumer, publisher,
                 faults>>

-------------------------------------------------------------------------------
(* The event consumer: one delivery at a time, acknowledged when its       *)
(* handler has returned.                                                   *)

Requests == [payment : Payment, kind : {"process", "deliver"}]

Receive(i) ==
  /\ at[i] = "idle" /\ connected[i]
  /\ \E e \in queue : /\ hand' = [hand EXCEPT ![i] = e]
                      /\ queue' = queue \ {e}
  /\ at' = [at EXCEPT ![i] = "received"]
  /\ UNCHANGED <<store, sent, dropped, arrived, clocks, connected, publisher,
                 faults>>

Handles(i, kind) == hand[i] \in Message /\ hand[i].kind = kind

Payee(i) == IF hand[i] \in Callback THEN PaymentOf[hand[i]] ELSE hand[i].payment

Goes(i, place) ==
  /\ at' = [at EXCEPT ![i] = place]
  /\ UNCHANGED <<queue, sent, dropped, arrived, clocks, connected, hand,
                 publisher, faults>>

\* HandleProcessRequested: ReserveForProcessing.
Reserve(i) ==
  /\ at[i] = "received" /\ Handles(i, "process")
  /\ LET p == Payee(i) IN
       /\ Has(p, {"PENDING"}) /\ p \notin past
       /\ SetStatus(p, "PROCESSING")
  /\ UNCHANGED <<slots, created>>
  /\ Goes(i, "reserved")

\* It matched no document; FindByID tells why.
NotReserved(i) ==
  /\ at[i] = "received" /\ Handles(i, "process")
  /\ LET p == Payee(i) IN
       \/ Has(p, {"PENDING"}) /\ p \in past /\ Goes(i, "expire")
       \/ ~Has(p, {"PENDING"}) /\ Goes(i, "done")
  /\ UNCHANGED store

EnqueueProcessing(i) ==
  /\ at[i] = "reserved"
  /\ Push({Msg(Payee(i), "PROCESSING")})
  /\ UNCHANGED payments
  /\ Goes(i, "gateway")

\* gateway.Process, with its retries, succeeds or fails.
GatewayEnds(i) ==
  /\ at[i] = "gateway"
  /\ UNCHANGED store \/ (GatewayMayFail /\ MarkFailed(Payee(i)))
  /\ Goes(i, "done")

\* HandleCallbackConfirmed: what it decides depends on the age of the callback
\* and on fields of the payment that never change.
IgnoreCallback(i) ==
  /\ at[i] = "received" /\ hand[i] \in Callback
  /\ hand[i] \in stale \/ hand[i] \notin Matching
  /\ UNCHANGED store
  /\ Goes(i, "done")

LateCallback(i) ==
  /\ at[i] = "received" /\ hand[i] \in Matching \ (stale \cup InTime)
  /\ UNCHANGED store
  /\ Goes(i, "expire")

Expire(i) ==
  /\ at[i] = "expire"
  /\ MarkExpired(Payee(i))
  /\ Goes(i, "done")

ConfirmPayment(i) ==
  /\ at[i] = "received" /\ hand[i] \in (Matching \cap InTime) \ stale
  /\ MarkCompleted(Payee(i))
  /\ Goes(i, "done")

HandleDelivery(i) ==
  /\ at[i] = "received" /\ Handles(i, "deliver")
  /\ MarkDelivery(Payee(i))
  /\ Goes(i, "done")

\* Without a connection the acknowledgement has no effect.
Ack(i) ==
  /\ at[i] = "done"
  /\ at' = [at EXCEPT ![i] = "idle"]
  /\ hand' = [hand EXCEPT ![i] = Nothing]
  /\ UNCHANGED <<store, queue, sent, dropped, arrived, clocks, connected,
                 publisher, faults>>

\* Mutant: deliveries are acknowledged when they are received.
RequeuedNone(i) == queue

\* What the consumer of i has not acknowledged is delivered again.
Requeued(i) ==
  IF connected[i] THEN queue \cup ({hand[i]} \ {Nothing}) ELSE queue

Redeliver(i) ==
  /\ at[i] # "idle"
  /\ Fault("delivery")
  /\ queue' = Requeued(i)
  /\ at' = [at EXCEPT ![i] = "idle"]
  /\ hand' = [hand EXCEPT ![i] = Nothing]
  /\ UNCHANGED <<store, sent, dropped, arrived, clocks, connected, publisher>>

-------------------------------------------------------------------------------
(* PublishPending. *)

\* Mutant: the claim does not look at claimedUntil.
ClaimableAnyway(m) == slots[m].in /\ slots[m].due

Claimable(m) == slots[m].in /\ slots[m].due /\ ~slots[m].leased

\* Mutant: messages are taken out of the documents when they are claimed.
ClaimedForGood(ms, owner) ==
  [m \in Message |-> IF m \in ms THEN NoSlot ELSE slots[m]]

Claimed(ms, owner) ==
  [m \in Message |-> IF m \in ms
     THEN [slots[m] EXCEPT !.leased = TRUE, !.token = owner] ELSE slots[m]]

\* Messages are claimed one by one, other instances take theirs meanwhile; an
\* error ends the tick and leaves the claims.
ClaimPending(i) ==
  /\ pub[i] = "idle"
  /\ \E ms \in SUBSET {m \in Message : Claimable(m)} \ {{}} :
       /\ Cardinality(ms) <= BatchLimit
       /\ \/ /\ slots' = Claimed(ms, i)
             /\ batch' = [batch EXCEPT ![i] = ms]
             /\ pub' = [pub EXCEPT ![i] = "publishing"]
             /\ UNCHANGED faults
          \/ /\ Fault("database")
             /\ slots' = Claimed(ms, Nobody)
             /\ UNCHANGED <<batch, pub>>
  /\ UNCHANGED <<payments, created, queue, sent, dropped, arrived, clocks,
                 connected, consumer, current>>

Takes(i, m) == /\ pub[i] = "publishing"
               /\ m \in batch[i]
               /\ batch' = [batch EXCEPT ![i] = @ \ {m}]
               /\ current' = [current EXCEPT ![i] = m]

\* Publish does not wait for a confirm.
Publish(i) ==
  /\ \E m \in batch[i] :
       /\ Takes(i, m)
       /\ IF connected[i]
          THEN /\ sent' = [sent EXCEPT ![m] = @ + 1]
               /\ queue' = queue \cup ({m} \cap Requests)
               /\ pub' = [pub EXCEPT ![i] = "ack"]
          ELSE /\ UNCHANGED <<sent, queue>>
               /\ pub' = [pub EXCEPT ![i] = "retry"]
  /\ UNCHANGED <<store, dropped, arrived, clocks, connected, consumer, faults>>

\* It succeeds on a connection that is dead already: nobody gets the message.
PublishInVain(i) ==
  /\ connected[i]
  /\ Fault("connection")
  /\ \E m \in batch[i] : Takes(i, m) /\ dropped' = dropped \cup {m}
  /\ connected' = [connected EXCEPT ![i] = FALSE]
  /\ queue' = Requeued(i)
  /\ pub' = [pub EXCEPT ![i] = "ack"]
  /\ UNCHANGED <<store, sent, arrived, clocks, consumer>>

\* The statement that ends the work on a message finds it by id and token; its
\* error is ignored.
Settle(i, slot) ==
  LET m == current[i] IN
  /\ \/ /\ slots' = IF slots[m].token = i THEN [slots EXCEPT ![m] = slot]
                                          ELSE slots
        /\ UNCHANGED faults
     \/ /\ Fault("database")
        /\ slots' = [slots EXCEPT ![m].token = IF @ = i THEN Nobody ELSE @]
  /\ pub' = [pub EXCEPT ![i] = IF batch[i] = {} THEN "idle" ELSE "publishing"]
  /\ current' = [current EXCEPT ![i] = Nothing]
  /\ UNCHANGED <<payments, created, queue, sent, dropped, arrived, clocks,
                 connected, consumer, batch>>

Acknowledge(i) == pub[i] = "ack" /\ Settle(i, NoSlot)

\* Mutant: a message that could not be published is removed.
RetryRemoved(i) == pub[i] = "retry" /\ Settle(i, NoSlot)

RetryPending(i) == pub[i] = "retry" /\ Settle(i, [NewSlot EXCEPT !.due = FALSE])

-------------------------------------------------------------------------------
(* Time and failures.  Clocks advance while somebody may look at them. *)

Expiry(p) ==
  /\ p \notin past /\ Has(p, {"PENDING"})
  /\ past' = past \cup {p}
  /\ UNCHANGED <<store, queue, sent, dropped, arrived, stale, connected,
                 consumer, publisher, faults>>

Age(cb) ==
  /\ cb \notin stale
  /\ cb \in queue \/ \E i \in Instance : hand[i] = cb /\ at[i] = "received"
  /\ stale' = stale \cup {cb}
  /\ UNCHANGED <<store, queue, sent, dropped, arrived, past, connected,
                 consumer, publisher, faults>>

RetryFallsDue(m) ==
  /\ ~slots[m].due
  /\ slots' = [slots EXCEPT ![m].due = TRUE]
  /\ UNCHANGED <<payments, created, queue, sent, dropped, arrived, clocks,
                 connected, consumer, publisher, faults>>

LeaseExpires(m) ==
  /\ slots[m].leased
  /\ IF slots[m].token = Nobody THEN UNCHANGED faults ELSE Fault("slow")
  /\ slots' = [slots EXCEPT ![m].leased = FALSE]
  /\ UNCHANGED <<payments, created, queue, sent, dropped, arrived, clocks,
                 connected, consumer, publisher>>

\* The running handler goes on; nothing opens the channels again.
LoseConnection(i) ==
  /\ connected[i]
  /\ Fault("connection")
  /\ connected' = [connected EXCEPT ![i] = FALSE]
  /\ queue' = Requeued(i)
  /\ UNCHANGED <<store, sent, dropped, arrived, clocks, consumer, publisher>>

\* Only a process that is at work has something to lose.
Crash(i) ==
  /\ at[i] # "idle" \/ pub[i] # "idle" \/ ~connected[i]
  /\ Fault("crash")
  /\ slots' = [m \in Message |-> [slots[m] EXCEPT !.token =
                                    IF @ = i THEN Nobody ELSE @]]
  /\ queue' = Requeued(i)
  /\ connected' = [connected EXCEPT ![i] = TRUE]
  /\ hand' = [hand EXCEPT ![i] = Nothing]
  /\ at' = [at EXCEPT ![i] = "idle"]
  /\ pub' = [pub EXCEPT ![i] = "idle"]
  /\ batch' = [batch EXCEPT ![i] = {}]
  /\ current' = [current EXCEPT ![i] = Nothing]
  /\ UNCHANGED <<payments, created, sent, dropped, arrived, clocks>>

-------------------------------------------------------------------------------
Handle(i) == \/ Reserve(i) \/ NotReserved(i) \/ EnqueueProcessing(i)
             \/ GatewayEnds(i) \/ IgnoreCallback(i) \/ LateCallback(i)
             \/ Expire(i) \/ ConfirmPayment(i) \/ HandleDelivery(i) \/ Ack(i)

Tick(i) == \/ ClaimPending(i) \/ Publish(i) \/ Acknowledge(i)
           \/ RetryPending(i)

Next ==
  \/ \E p \in Payment : CreatePayment(p) \/ Expiry(p)
  \/ \E cb \in Callback : Arrive(cb) \/ Age(cb)
  \/ \E i \in Instance : \/ Receive(i) \/ Handle(i) \/ Redeliver(i)
                         \/ Tick(i) \/ PublishInVain(i)
                         \/ LoseConnection(i) \/ Crash(i)
  \/ \E m \in Message : RetryFallsDue(m) \/ LeaseExpires(m)

Spec == Init /\ [][Next]_vars

\* The broker hands over what waits, consumers and tickers run, clocks advance.
\* Nothing is assumed of the provider, of commands or of faults.
Fairness ==
  /\ \A i \in Instance :
       WF_vars(Receive(i)) /\ WF_vars(Handle(i)) /\ WF_vars(Tick(i))
  /\ \A m \in Message : WF_vars(RetryFallsDue(m)) /\ WF_vars(LeaseExpires(m))

FairSpec == Spec /\ Fairness
-------------------------------------------------------------------------------
(* Properties. *)

TypeOK ==
  /\ payments \in [Payment -> [status : Status,
                               delivery : {"PENDING", "DELIVERED"}]]
  /\ slots \in [Message -> Slot]
  /\ queue \subseteq Callback \cup Requests
  /\ sent \in [Message -> Nat]
  /\ created \in [Message -> 0..1]
  /\ dropped \subseteq Message
  /\ arrived \subseteq Callback
  /\ past \subseteq Payment
  /\ stale \subseteq Callback
  /\ connected \in [Instance -> BOOLEAN]
  /\ hand \in [Instance -> Callback \cup Requests \cup {Nothing}]
  /\ at \in [Instance -> {"idle", "received", "reserved", "gateway", "expire",
                          "done"}]
  /\ pub \in [Instance -> {"idle", "publishing", "ack", "retry"}]
  /\ batch \in [Instance -> SUBSET Message]
  /\ current \in [Instance -> Message \cup {Nothing}]
  /\ faults \in 0..MaxFaults

Created(p, kind) == created[Msg(p, kind)] > 0

\* Each message is stored at most once, however often its event is handled, and
\* the final ones exactly of the payments they are true of: no payment is
\* announced as completed and as expired, none confirmed without a callback.
AnnouncedIsTrue ==
  \A p \in Payment :
    /\ \A kind \in Kind : created[Msg(p, kind)] <= 1
    /\ Created(p, "COMPLETED") <=> Has(p, {"COMPLETED"})
    /\ Created(p, "EXPIRED") <=> Has(p, {"EXPIRED"})
    /\ Created(p, "confirmed") <=> payments[p].delivery = "DELIVERED"
    /\ Created(p, "confirmed") => Has(p, {"COMPLETED"})
    /\ Has(p, {"COMPLETED"}) =>
         \E cb \in arrived \cap InTime \cap Matching : PaymentOf[cb] = p

\* Every message stays in its document until the broker has it, except those
\* written to a dead connection.
NothingIsLost ==
  \A m \in Message : created[m] > 0 =>
    slots[m].in \/ sent[m] > 0 \/ m \in dropped

\* The documents keep the promise of an outbox: a message is stored once, and
\* removed only when the broker has had it, or a connection that was dead.
Outgoing == INSTANCE Outbox
  WITH Lapses <- IF "connection" \in FaultKinds THEN {"drop"} ELSE {},
       stage <- [m \in Message |-> IF created[m] = 0 THEN "none"
                                   ELSE IF slots[m].in THEN "stored"
                                   ELSE "settled"]

KeepsMessages == Outgoing!Spec

\* A completed payment is on its way to payment.confirmed: until it has had its
\* effect, the delivery request is stored, queued or handled by an instance that
\* can still be told to hand it back.
ConfirmationIsUnderWay ==
  \A p \in Payment : Has(p, {"COMPLETED"}) =>
    LET request == Msg(p, "deliver") IN
    \/ Created(p, "confirmed")
    \/ slots[request].in
    \/ request \in queue \cup dropped
    \/ \E i \in Instance :
         connected[i] /\ hand[i] = request /\ at[i] = "received"

\* The broker gets a message again only after a fault.
CopiesAreFaults == \A m \in Message : sent[m] <= 1 + faults

\* "Publish payment.confirmed once the workflow reaches its delivery stage"
\* (README of the service): a completed payment is confirmed to the others.
CompletedIsConfirmed ==
  \A p \in Payment : Has(p, {"COMPLETED"}) ~> sent[Msg(p, "confirmed")] > 0

Honest(cb) == cb \in Matching \cap InTime

\* A callback in time, with the right amount, decides its payment whatever is
\* repeated or crashes, unless it gets too old on the way.
FreshCallbackDecides ==
  \A cb \in Callback : cb \in arrived /\ Honest(cb) ~>
    Has(PaymentOf[cb], {"COMPLETED", "EXPIRED"}) \/ cb \in stale

\* "Emit payment.status-updated whenever the externally relevant payment state
\* changes" (README of the service), of the change to PROCESSING.
ProcessingIsAnnounced ==
  \A p \in Payment : Has(p, {"PROCESSING"}) ~> sent[Msg(p, "PROCESSING")] > 0
===============================================================================
