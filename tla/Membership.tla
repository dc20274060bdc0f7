------------------------------ MODULE Membership ------------------------------
(***************************************************************************)
(* The membership service: the listener of payment.confirmed, which makes  *)
(* a user premium in one transaction (MembershipApplicationService), and   *)
(* the scheduled publisher of its outbox (OutboxPublisher), in several     *)
(* instances over one database.                                            *)
(*                                                                         *)
(* The saga makes one payment per user, so that a user is named here by    *)
(* the payment.  A message is a copy of payment.confirmed, with how often  *)
(* it has been returned to its queue; payment-service may publish several  *)
(* of one payment (PaymentLifecycle).                                      *)
(*                                                                         *)
(* save() of an entity that brings its identifier is a merge: a SELECT     *)
(* and, when the transaction commits, an INSERT or an UPDATE of every      *)
(* column.  So the unique violation of a receipt shows at the commit,      *)
(* outside the handler's catch block; and a receipt that is found is       *)
(* updated with the null its processedAt has in the new object, which the  *)
(* column does not allow.                                                  *)
(*                                                                         *)
(* What the container has fetched ahead is left in queue.  A tick takes    *)
(* all that is due (up to 50 events in the code) and sends it in any order *)
(* (the code: in that of created_at).                                      *)
(*                                                                         *)
(* The faults, bounded by MaxFaults, are                                   *)
(*   "database"    a transaction fails to commit                           *)
(*   "connection"  the connection of the consumer or of the publisher to   *)
(*                 RabbitMQ is lost                                        *)
(*   "crash"       a process ends and another starts in its place          *)
(***************************************************************************)
EXTENDS Naturals, FiniteSets

CONSTANTS Payment, Instance,
          Nothing,          \* no message
          DeliveryLimit,    \* x-delivery-limit of the queue
          MaxCopies,        \* bound on copies of one payment.confirmed
          FaultKinds, MaxFaults

RoutingKey == {"membership.premium-activated", "user.premium-updated"}

Copy == [payment : Payment, copy : 1..MaxCopies, returns : 0..DeliveryLimit]

Event == [payment : Payment, key : RoutingKey]

ASSUME BoundsAreNat == DeliveryLimit \in Nat /\ MaxCopies \in Nat
                       /\ MaxFaults \in Nat
ASSUME InstancesAreFinite == IsFiniteSet(Instance) /\ Instance # {}
ASSUME NothingIsNew == Nothing \notin Copy
\* Faults alone do not use up the deliveries of a message.
ASSUME LimitIsEnough == MaxFaults <= DeliveryLimit

VARIABLES copies,      \* [Payment -> copies of its event published so far]
          queue,       \* copies waiting
          dead,        \* copies in the dead letter queue
          receipts,    \* consumed_message_receipts
          premium,     \* memberships
          status,      \* outbox_events: [Event -> status of its row]
          rows,        \* [Event -> how many rows have been inserted]
          due,         \* events whose next_attempt_at has passed
          hand, at,    \* what each listener handles, and how far it is
          live,        \* listeners whose delivery may be acknowledged
          found,       \* listeners that found a receipt
          grants,      \* listeners that found no premium user
          batch,       \* [Instance -> events its publisher has yet to send]
          outcome,     \* [Instance -> [Event -> what its tick will write]]
          sent,        \* [Event -> copies the broker has got]
          dropped,     \* events written to a dead connection
          faults

store == <<receipts, premium, status, rows, due>>
listener == <<hand, at, live, found, grants>>
publisher == <<batch, outcome, sent, dropped>>
vars == <<copies, queue, dead, store, listener, publisher, faults>>

Untouched == [e \in Event |-> "none"]

Init ==
  /\ copies = [p \in Payment |-> 0]
  /\ queue = {} /\ dead = {}
  /\ receipts = {} /\ premium = {}
  /\ status = [e \in Event |-> "absent"]
  /\ rows = [e \in Event |-> 0]
  /\ due = {}
  /\ hand = [i \in Instance |-> Nothing]
  /\ at = [i \in Instance |-> "idle"]
  /\ live = {} /\ found = {} /\ grants = {}
  /\ batch = [i \in Instance |-> {}]
  /\ outcome = [i \in Instance |-> Untouched]
  /\ sent = [e \in Event |-> 0]
  /\ dropped = {}
  /\ faults = 0

Fault(kind) == /\ kind \in FaultKinds
               /\ faults < MaxFaults
               /\ faults' = faults + 1

-------------------------------------------------------------------------------
(* The listener of payment.confirmed. *)

\* payment-service publishes payment.confirmed of p, again after a fault.
Confirm(p) ==
  /\ copies[p] < MaxCopies
  /\ copies' = [copies EXCEPT ![p] = @ + 1]
  /\ queue' = queue \cup
       {[payment |-> p, copy |-> copies[p] + 1, returns |-> 0]}
  /\ UNCHANGED <<dead, store, listener, publisher, faults>>

Receive(i) ==
  /\ at[i] = "idle"
  /\ \E c \in queue : /\ queue' = queue \ {c}
                      /\ hand' = [hand EXCEPT ![i] = c]
  /\ at' = [at EXCEPT ![i] = "received"]
  /\ live' = live \cup {i}
  /\ UNCHANGED <<copies, dead, store, found, grants, publisher, faults>>

Payee(i) == hand[i].payment

\* registerConsumedMessage: the merge looks for the receipt of the payment.
Register(i) ==
  /\ at[i] = "received"
  /\ at' = [at EXCEPT ![i] = "registered"]
  /\ found' = IF Payee(i) \in receipts THEN found \cup {i} ELSE found
  /\ UNCHANGED <<copies, queue, dead, store, hand, live, grants, publisher,
                 faults>>

\* findById, isPremium.
FindUser(i) ==
  /\ at[i] = "registered"
  /\ at' = [at EXCEPT ![i] = "decided"]
  /\ grants' = IF Payee(i) \in premium THEN grants ELSE grants \cup {i}
  /\ UNCHANGED <<copies, queue, dead, store, hand, live, found, publisher,
                 faults>>

EventsOf(p) == {e \in Event : e.payment = p}

\* Mutant: the receipt has no primary key.
ConflictsNever(i) == i \in found

\* The flush fails: the receipt is updated with a null, or somebody else has
\* inserted it meanwhile.
Conflicts(i) == i \in found \/ Payee(i) \in receipts

\* The handler of i is done with what it has in hand.
Finished(i, place) ==
  /\ at' = [at EXCEPT ![i] = place]
  /\ found' = found \ {i}
  /\ grants' = grants \ {i}

\* The receipt, the membership and the two events are inserted together.
CommitActivation(i) ==
  LET p == Payee(i) IN
  /\ at[i] = "decided"
  /\ ~Conflicts(i)
  /\ receipts' = receipts \cup {p}
  /\ IF i \in grants
     THEN /\ premium' = premium \cup {p}
          /\ status' = [e \in Event |-> IF e \in EventsOf(p) THEN "PENDING"
                                                             ELSE status[e]]
          /\ rows' = [e \in Event |-> IF e \in EventsOf(p) THEN rows[e] + 1
                                                           ELSE rows[e]]
          /\ due' = due \cup EventsOf(p)
     ELSE UNCHANGED <<premium, status, rows, due>>
  /\ Finished(i, "handled")
  /\ UNCHANGED <<copies, queue, dead, hand, live, publisher, faults>>

\* Mutant: the delivery limit does not hold.
ReturnedAlways(i) ==
  IF i \notin live THEN UNCHANGED <<queue, dead>>
  ELSE queue' = queue \cup {[hand[i] EXCEPT !.returns = @ + 1]}
       /\ UNCHANGED dead

\* Mutant: a delivery too few.
ReturnedEarly(i) ==
  IF i \notin live THEN UNCHANGED <<queue, dead>>
  ELSE IF hand[i].returns + 1 < DeliveryLimit
       THEN queue' = queue \cup {[hand[i] EXCEPT !.returns = @ + 1]}
            /\ UNCHANGED dead
       ELSE dead' = dead \cup {hand[i]} /\ UNCHANGED queue

\* Mutant: the message is rejected instead of requeued (requeue-rejected is off).
ReturnedNever(i) ==
  IF i \notin live THEN UNCHANGED <<queue, dead>>
  ELSE dead' = dead \cup {hand[i]} /\ UNCHANGED queue

\* The delivery of i goes back to its queue, the last time to the dead letters.
Returned(i) ==
  IF i \notin live THEN UNCHANGED <<queue, dead>>
  ELSE IF hand[i].returns < DeliveryLimit
       THEN queue' = queue \cup {[hand[i] EXCEPT !.returns = @ + 1]}
            /\ UNCHANGED dead
       ELSE dead' = dead \cup {hand[i]} /\ UNCHANGED queue

Dismissed(i) == hand' = [hand EXCEPT ![i] = Nothing] /\ live' = live \ {i}

\* ImmediateRequeueAmqpException.
FailActivation(i) ==
  /\ at[i] = "decided"
  /\ IF Conflicts(i) THEN UNCHANGED faults ELSE Fault("database")
  /\ Returned(i)
  /\ Finished(i, "idle")
  /\ Dismissed(i)
  /\ UNCHANGED <<copies, store, publisher>>

\* The container acknowledges when the listener has returned; without its
\* connection that has no effect.
Ack(i) ==
  /\ at[i] = "handled"
  /\ at' = [at EXCEPT ![i] = "idle"]
  /\ Dismissed(i)
  /\ UNCHANGED <<copies, queue, dead, store, found, grants, publisher, faults>>

\* The broker delivers again while the handler runs on.
LoseConnection(i) ==
  /\ i \in live
  /\ Fault("connection")
  /\ Returned(i)
  /\ live' = live \ {i}
  /\ UNCHANGED <<copies, store, hand, at, found, grants, publisher>>

-------------------------------------------------------------------------------
(* publishPendingEvents: one transaction per tick, without row locks. *)

Select(i) ==
  /\ outcome[i] = Untouched /\ batch[i] = {}
  /\ \E e \in due : status[e] = "PENDING"
  /\ batch' = [batch EXCEPT ![i] = {e \in due : status[e] = "PENDING"}]
  /\ UNCHANGED <<copies, queue, dead, store, listener, outcome, sent, dropped,
                 faults>>

Settled(i, e, result) ==
  /\ e \in batch[i]
  /\ batch' = [batch EXCEPT ![i] = @ \ {e}]
  /\ outcome' = [outcome EXCEPT ![i][e] = result]

\* Mutant: an event that could not be published is marked as published.
RetryMarked == "PUBLISHED"

\* What scheduleRetry leaves in the row, whatever the row is by then.
Retry == "PENDING"

\* convertAndSend does not wait for a confirm: it succeeds, fails, or succeeds
\* on a connection that is dead already.
Send(i, e) ==
  /\ \/ /\ Settled(i, e, "PUBLISHED")
        /\ sent' = [sent EXCEPT ![e] = @ + 1]
        /\ UNCHANGED <<dropped, faults>>
     \/ /\ Fault("connection")
        /\ \/ Settled(i, e, Retry) /\ UNCHANGED dropped
           \/ Settled(i, e, "PUBLISHED") /\ dropped' = dropped \cup {e}
        /\ UNCHANGED sent
  /\ UNCHANGED <<copies, queue, dead, store, listener>>

Touched(i) == {e \in Event : outcome[i][e] # "none"}

\* Mutant: only the first change of a tick is written.
WrittenOnce(i) ==
  [status EXCEPT ![CHOOSE e \in Touched(i) : TRUE] = "PUBLISHED"]

\* Every column of a changed entity is written: the last tick wins.
Written(i) ==
  [e \in Event |-> IF e \in Touched(i) THEN outcome[i][e] ELSE status[e]]

Ended(i) == outcome' = [outcome EXCEPT ![i] = Untouched]

CommitTick(i) ==
  /\ batch[i] = {} /\ Touched(i) # {}
  /\ status' = Written(i)
  /\ due' = due \ {e \in Event : outcome[i][e] = Retry}
  /\ Ended(i)
  /\ UNCHANGED <<copies, queue, dead, receipts, premium, rows, listener, batch,
                 sent, dropped, faults>>

\* Nothing of what the tick has published is recorded.
FailTick(i) ==
  /\ batch[i] = {} /\ Touched(i) # {}
  /\ Fault("database")
  /\ Ended(i)
  /\ UNCHANGED <<copies, queue, dead, store, listener, batch, sent, dropped>>

RetryFallsDue(e) ==
  /\ rows[e] > 0 /\ e \notin due
  /\ due' = due \cup {e}
  /\ UNCHANGED <<copies, queue, dead, receipts, premium, status, rows, listener,
                 publisher, faults>>

\* Both transactions of the process are rolled back.
Crash(i) ==
  /\ at[i] # "idle" \/ batch[i] # {} \/ Touched(i) # {}
  /\ Fault("crash")
  /\ Returned(i)
  /\ Finished(i, "idle")
  /\ Dismissed(i)
  /\ batch' = [batch EXCEPT ![i] = {}]
  /\ Ended(i)
  /\ UNCHANGED <<copies, store, sent, dropped>>

-------------------------------------------------------------------------------
Listen(i) == \/ Register(i) \/ FindUser(i) \/ CommitActivation(i)
             \/ FailActivation(i) \/ Ack(i)

Tick(i) == Select(i) \/ (\E e \in Event : Send(i, e)) \/ CommitTick(i)

Next ==
  \/ \E p \in Payment : Confirm(p)
  \/ \E i \in Instance : \/ Receive(i) \/ Listen(i) \/ LoseConnection(i)
                         \/ Tick(i) \/ FailTick(i) \/ Crash(i)
  \/ \E e \in Event : RetryFallsDue(e)

Spec == Init /\ [][Next]_vars

\* The broker hands over what waits, listeners and publishers run, time passes.
Fairness ==
  /\ \A i \in Instance :
       WF_vars(Receive(i)) /\ WF_vars(Listen(i)) /\ WF_vars(Tick(i))
  /\ \A e \in Event : WF_vars(RetryFallsDue(e))

FairSpec == Spec /\ Fairness

-------------------------------------------------------------------------------
(* Properties. *)

TypeOK ==
  /\ copies \in [Payment -> 0..MaxCopies]
  /\ queue \subseteq Copy
  /\ dead \subseteq Copy
  /\ receipts \subseteq Payment
  /\ premium \subseteq Payment
  /\ status \in [Event -> {"absent", "PENDING", "PUBLISHED"}]
  /\ rows \in [Event -> 0..1]
  /\ due \subseteq Event
  /\ hand \in [Instance -> Copy \cup {Nothing}]
  /\ at \in [Instance -> {"idle", "received", "registered", "decided",
                          "handled"}]
  /\ live \subseteq Instance
  /\ found \subseteq Instance
  /\ grants \subseteq Instance
  /\ batch \in [Instance -> SUBSET Event]
  /\ outcome \in [Instance -> [Event -> {"none", "PENDING", "PUBLISHED"}]]
  /\ sent \in [Event -> Nat]
  /\ dropped \subseteq Event
  /\ faults \in 0..MaxFaults

\* "performs idempotent premium activation" (README of the service), however
\* often and in however many instances payment.confirmed is handled: the users
\* that are premium are those with a receipt, each paid for, and each has
\* exactly one row in the outbox for each of the two events.
ActivationIsWhole ==
  /\ receipts = premium
  /\ \A p \in premium : copies[p] > 0
  /\ \A e \in Event : rows[e] = IF e.payment \in premium THEN 1 ELSE 0

\* A confirmation ends in the dead letter queue only when its user is premium:
\* what is returned too often is a repetition.
DeadLettersAreRepeated == \A c \in dead : c.payment \in premium

\* A row is PUBLISHED only if the broker has had its event, or the event was
\* written to a dead connection; and the broker gets no event that is not there.
PublishedIsSent ==
  \A e \in Event : /\ status[e] = "PUBLISHED" => sent[e] > 0 \/ e \in dropped
                   /\ sent[e] > 0 => rows[e] > 0

\* The rows keep the promise of an outbox; when connections are lost an event may
\* be dropped, and one that is PUBLISHED may be made PENDING by a slower tick.
Outgoing == INSTANCE Outbox
  WITH Message <- Event,
       Lapses <- IF "connection" \in FaultKinds THEN {"drop", "reopen"} ELSE {},
       stage <- [e \in Event |-> IF rows[e] = 0 THEN "none"
                                 ELSE IF status[e] = "PUBLISHED" THEN "settled"
                                 ELSE "stored"]

KeepsMessages == Outgoing!Spec

\* What one fault may add to the copies of an event: the sender of a tick that is
\* not recorded sends again, and a tick that writes its failure over PUBLISHED
\* lets everybody else do so.
Repeats == IF Cardinality(Instance) = 1 THEN 1 ELSE Cardinality(Instance) - 1

\* Publishers that overlap send an event once per instance, and again only after
\* a fault.
CopiesAreFew ==
  \A e \in Event : sent[e] <= Cardinality(Instance) + Repeats * faults

\* "Activate premium membership", "Publish user.premium-updated" (README of the
\* service): every confirmed payment makes its user premium, and both events
\* reach the broker, or a dead connection.
ConfirmedIsAnnounced ==
  \A p \in Payment : copies[p] > 0 ~>
    \A e \in EventsOf(p) : sent[e] > 0 \/ e \in dropped
===============================================================================
