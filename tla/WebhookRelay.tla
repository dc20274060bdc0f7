----------------------------- MODULE WebhookRelay -----------------------------
(***************************************************************************)
(* The webhook service: the handler that records signed CONFIRMED          *)
(* callbacks (handler.go), the table of receipts (receipt_store.go), and   *)
(* the relay of each instance of the service (relay.go), which publishes   *)
(* the receipts with publisher confirms (rabbit/bus.go).                   *)
(*                                                                         *)
(* A receipt is keyed by CONFIRMED:<payment reference>.  The callbacks     *)
(* here have passed the validation of the handler; two callbacks are       *)
(* different when their event ids or their contents are.  The attempts     *)
(* counter only feeds the backoff and next_attempt_at is the Boolean due.  *)
(* locked_until is left out: it is set when a receipt is claimed and reset *)
(* with every other change of the status, and the claim looks only at      *)
(* PENDING receipts, so that its test of the lease is always true.  A lock *)
(* owner is a uuid drawn anew at each tick; Gone stands for those of the   *)
(* ticks that are over.                                                    *)
(*                                                                         *)
(* faults counts negative confirms.  losses counts the failures after      *)
(* which a receipt may be out of reach; LossKinds are the ones allowed,    *)
(* and a graceful stop, which cancels the context of the relay's           *)
(* statements, is one of the ways a process ends.                          *)
(***************************************************************************)
EXTENDS Naturals, FiniteSets

CONSTANTS Callback, NoCallback,
          Reference, EventId,
          RefOf, EventOf,       \* [Callback -> Reference], [Callback -> EventId]
          Instance, Nobody, Gone,
          BatchLimit,           \* RelayBatchSize
          PublishAttempts,      \* sends of one receipt per tick
          LossKinds,
          MaxFaults, MaxLosses  \* bounds on faults and losses

ASSUME CallbacksAreKeyed == RefOf \in [Callback -> Reference]
                            /\ EventOf \in [Callback -> EventId]
ASSUME SentinelsAreNew == NoCallback \notin Callback /\ Nobody # Gone
                          /\ {Nobody, Gone} \cap Instance = {}
ASSUME LimitsArePositive == BatchLimit \in Nat \ {0}
                            /\ PublishAttempts \in Nat \ {0}
ASSUME LossesAreKnown == LossKinds \subseteq {"process", "database", "connection"}
                         /\ MaxFaults \in Nat /\ MaxLosses \in Nat

VARIABLES receipts,     \* [Reference -> Receipt]
          sent,         \* copies of each callback the broker has accepted
          answers,      \* the 2xx answers the provider may have seen
          ready,        \* the publisher of each instance has its channel
          pc,           \* where the relay of each instance is
          batch,        \* callbacks of this tick still to be sent
          current,      \* the callback being sent
          attempt,      \* how often it was sent in this tick
          faults, losses

vars == <<receipts, sent, answers, ready, pc, batch, current, attempt,
          faults, losses>>

relay == <<pc, batch, current, attempt>>

PublishStatus == {"ABSENT", "PENDING", "IN_FLIGHT", "PUBLISHED"}

Receipt == [status   : PublishStatus,
            callback : Callback \cup {NoCallback},
            due      : BOOLEAN,
            lockedBy : Instance \cup {Nobody, Gone}]

NoReceipt == [status |-> "ABSENT", callback |-> NoCallback, due |-> TRUE,
              lockedBy |-> Nobody]

Init ==
  /\ receipts = [ref \in Reference |-> NoReceipt]
  /\ sent = [cb \in Callback |-> 0]
  /\ answers = {}
  /\ ready = [i \in Instance |-> TRUE]
  /\ pc = [i \in Instance |-> "idle"]
  /\ batch = [i \in Instance |-> {}]
  /\ current = [i \in Instance |-> NoCallback]
  /\ attempt = [i \in Instance |-> 0]
  /\ faults = 0
  /\ losses = 0

Loss(kind) == /\ kind \in LossKinds
              /\ losses < MaxLosses
              /\ losses' = losses + 1

Known(ref) == receipts[ref].status # "ABSENT"

-------------------------------------------------------------------------------
(* The handler: Register, and the answer unless it is lost on the way. *)

Answered(cb, kind) == \/ answers' = answers \cup {[callback |-> cb, kind |-> kind]}
                      \/ UNCHANGED answers

\* Mutant: ON CONFLICT DO UPDATE, the last payload wins.
RegisterLatest(cb) ==
  LET ref == RefOf[cb] IN
  /\ \A other \in Reference \ {ref} :
       Known(other) => EventOf[receipts[other].callback] # EventOf[cb]
  /\ receipts' = [receipts EXCEPT ![ref] =
                    [NoReceipt EXCEPT !.status = "PENDING", !.callback = cb]]
  /\ Answered(cb, "accepted")
  /\ UNCHANGED <<sent, ready, relay, faults, losses>>

\* The insert; the unique index on the event id lets no second reference use
\* an event (the handler answers 502 and records nothing).
Register(cb) ==
  LET ref == RefOf[cb] IN
  /\ ~Known(ref)
  /\ \A other \in Reference : Known(other) =>
       EventOf[receipts[other].callback] # EventOf[cb]
  /\ receipts' = [receipts EXCEPT ![ref] =
                    [NoReceipt EXCEPT !.status = "PENDING", !.callback = cb]]
  /\ Answered(cb, "accepted")
  /\ UNCHANGED <<sent, ready, relay, faults, losses>>

\* The insert meets a receipt of the reference, whatever callback it is for.
IgnoreDuplicate(cb) ==
  /\ Known(RefOf[cb])
  /\ Answered(cb, IF receipts[RefOf[cb]].status = "PUBLISHED" THEN "replayed"
                                                              ELSE "processing")
  /\ UNCHANGED <<receipts, sent, ready, relay, faults, losses>>

-------------------------------------------------------------------------------
(* One tick of the relay. *)

\* Mutant: the lock is recorded and the status is not.
ClaimedButPending(refs, owner) ==
  [ref \in Reference |-> IF ref \in refs
     THEN [receipts[ref] EXCEPT !.lockedBy = owner] ELSE receipts[ref]]

Claimed(refs, owner) ==
  [ref \in Reference |-> IF ref \in refs
     THEN [receipts[ref] EXCEPT !.status = "IN_FLIGHT", !.lockedBy = owner]
     ELSE receipts[ref]]

\* When reading the claimed rows fails they stay claimed and the tick is over.
ClaimPending(i) ==
  LET due == {ref \in Reference : receipts[ref].status = "PENDING"
                                  /\ receipts[ref].due}
  IN /\ pc[i] = "idle" /\ ready[i]
     /\ \E refs \in SUBSET due \ {{}} :
          /\ Cardinality(refs) <= BatchLimit
          /\ refs = due \/ Cardinality(refs) = BatchLimit
          /\ \/ /\ receipts' = Claimed(refs, i)
                /\ pc' = [pc EXCEPT ![i] = "relaying"]
                /\ batch' = [batch EXCEPT ![i] =
                               {receipts[ref].callback : ref \in refs}]
                /\ UNCHANGED losses
             \/ /\ Loss("database")
                /\ receipts' = Claimed(refs, Gone)
                /\ UNCHANGED <<pc, batch>>
     /\ UNCHANGED <<sent, answers, ready, current, attempt, faults>>

NextReceipt(i) ==
  /\ pc[i] = "relaying"
  /\ \E cb \in batch[i] :
       /\ batch' = [batch EXCEPT ![i] = @ \ {cb}]
       /\ current' = [current EXCEPT ![i] = cb]
  /\ attempt' = [attempt EXCEPT ![i] = 1]
  /\ pc' = [pc EXCEPT ![i] = "sending"]
  /\ UNCHANGED <<receipts, sent, answers, ready, faults, losses>>

\* Publish writes the message; without a channel it fails every attempt.
Send(i) ==
  /\ pc[i] = "sending"
  /\ pc' = [pc EXCEPT ![i] = IF ready[i] THEN "confirming" ELSE "retry"]
  /\ UNCHANGED <<receipts, sent, answers, ready, batch, current, attempt,
                 faults, losses>>

Accepted(cb) == [sent EXCEPT ![cb] = @ + 1]

\* awaitConfirmation: the broker has the message.
Confirm(i) ==
  /\ pc[i] = "confirming"
  /\ sent' = Accepted(current[i])
  /\ pc' = [pc EXCEPT ![i] = "mark"]
  /\ UNCHANGED <<receipts, answers, ready, batch, current, attempt, faults,
                 losses>>

\* A negative confirm, which does not exclude that consumers get the message.
Nack(i) ==
  /\ pc[i] = "confirming"
  /\ faults < MaxFaults
  /\ faults' = faults + 1
  /\ sent' \in {sent, Accepted(current[i])}
  /\ IF attempt[i] = PublishAttempts
     THEN pc' = [pc EXCEPT ![i] = "retry"] /\ UNCHANGED attempt
     ELSE /\ pc' = [pc EXCEPT ![i] = "sending"]
          /\ attempt' = [attempt EXCEPT ![i] = @ + 1]
  /\ UNCHANGED <<receipts, answers, ready, batch, current, losses>>

\* The statement that ends the work on a receipt: it tests the status and the
\* owner, and it may fail; its error is logged or ignored.
Settle(i, row) ==
  LET ref == RefOf[current[i]] IN
  /\ \/ /\ receipts' = IF /\ receipts[ref].status = "IN_FLIGHT"
                          /\ receipts[ref].lockedBy = i
                       THEN [receipts EXCEPT ![ref] = row] ELSE receipts
        /\ UNCHANGED losses
     \/ Loss("database") /\ UNCHANGED receipts
  /\ pc' = [pc EXCEPT ![i] = "relaying"]
  /\ current' = [current EXCEPT ![i] = NoCallback]
  /\ attempt' = [attempt EXCEPT ![i] = 0]
  /\ UNCHANGED <<sent, answers, ready, batch, faults>>

MarkPublished(i) ==
  /\ pc[i] = "mark"
  /\ Settle(i, [receipts[RefOf[current[i]]] EXCEPT !.status = "PUBLISHED",
                                                   !.lockedBy = Nobody])

\* Mutant: a failed publish does not make the receipt PENDING again.
RetryInFlight(i) ==
  /\ pc[i] = "retry"
  /\ Settle(i, [receipts[RefOf[current[i]]] EXCEPT !.due = FALSE,
                                                   !.lockedBy = Nobody])

\* Mutant: a failed publish is marked as a successful one.
RetryIsPublished(i) ==
  /\ pc[i] = "retry"
  /\ Settle(i, [receipts[RefOf[current[i]]] EXCEPT !.status = "PUBLISHED",
                                                   !.lockedBy = Nobody])

RetryPending(i) ==
  /\ pc[i] = "retry"
  /\ Settle(i, [receipts[RefOf[current[i]]] EXCEPT !.status = "PENDING",
                                                   !.due = FALSE,
                                                   !.lockedBy = Nobody])

\* The owner of this tick is gone; what it failed to settle it will not settle.
Orphaned(i) ==
  [ref \in Reference |-> IF receipts[ref].lockedBy = i
                         THEN [receipts[ref] EXCEPT !.lockedBy = Gone]
                         ELSE receipts[ref]]

EndTick(i) ==
  /\ pc[i] = "relaying"
  /\ batch[i] = {}
  /\ receipts' = Orphaned(i)
  /\ pc' = [pc EXCEPT ![i] = "idle"]
  /\ UNCHANGED <<sent, answers, ready, batch, current, attempt, faults, losses>>

-------------------------------------------------------------------------------
(* Time and failures. *)

RetryFallsDue(ref) ==
  /\ ~receipts[ref].due
  /\ receipts' = [receipts EXCEPT ![ref].due = TRUE]
  /\ UNCHANGED <<sent, answers, ready, relay, faults, losses>>

\* A message on its way when an instance or its connection fails.
MayHaveArrived(i) ==
  sent' \in IF pc[i] = "confirming" THEN {sent, Accepted(current[i])} ELSE {sent}

\* The channel closes.  A relay that waits for a confirm finds the channel of
\* the confirmations closed and locks the mutex its Publish holds: it hangs,
\* with Ready() and Close().  Any other relay sees ready = false, for ever.
LoseConnection(i) ==
  /\ ready[i]
  /\ Loss("connection")
  /\ ready' = [ready EXCEPT ![i] = FALSE]
  /\ MayHaveArrived(i)
  /\ pc' = [pc EXCEPT ![i] = IF @ = "confirming" THEN "hung" ELSE @]
  /\ UNCHANGED <<receipts, answers, batch, current, attempt, faults>>

\* The process ends and a new one starts in its place.
Restart(i) ==
  /\ Loss("process")
  /\ MayHaveArrived(i)
  /\ receipts' = Orphaned(i)
  /\ ready' = [ready EXCEPT ![i] = TRUE]
  /\ pc' = [pc EXCEPT ![i] = "idle"]
  /\ batch' = [batch EXCEPT ![i] = {}]
  /\ current' = [current EXCEPT ![i] = NoCallback]
  /\ attempt' = [attempt EXCEPT ![i] = 0]
  /\ UNCHANGED <<answers, faults>>

-------------------------------------------------------------------------------
Work(i) == \/ NextReceipt(i) \/ Send(i) \/ Confirm(i)
           \/ MarkPublished(i) \/ RetryPending(i) \/ EndTick(i)

Next ==
  \/ \E cb \in Callback : Register(cb) \/ IgnoreDuplicate(cb)
  \/ \E i \in Instance : ClaimPending(i) \/ Work(i) \/ Nack(i)
                         \/ LoseConnection(i) \/ Restart(i)
  \/ \E ref \in Reference : RetryFallsDue(ref)

Spec == Init /\ [][Next]_vars

\* The ticker fires, the relay runs, the broker answers and clocks advance.
\* Nothing is assumed of the provider, nor that anyone restarts an instance.
Fairness == /\ \A i \in Instance : WF_vars(ClaimPending(i)) /\ WF_vars(Work(i))
            /\ \A ref \in Reference : WF_vars(RetryFallsDue(ref))

FairSpec == Spec /\ Fairness
-------------------------------------------------------------------------------
(* Properties. *)

TypeOK ==
  /\ receipts \in [Reference -> Receipt]
  /\ sent \in [Callback -> 0..(MaxFaults + MaxLosses + 1)]
  /\ answers \subseteq [callback : Callback,
                        kind : {"accepted", "processing", "replayed"}]
  /\ ready \in [Instance -> BOOLEAN]
  /\ pc \in [Instance -> {"idle", "relaying", "sending", "confirming", "mark",
                          "retry", "hung"}]
  /\ batch \in [Instance -> SUBSET Callback]
  /\ current \in [Instance -> Callback \cup {NoCallback}]
  /\ attempt \in [Instance -> 0..PublishAttempts]
  /\ faults \in 0..MaxFaults
  /\ losses \in 0..MaxLosses

\* What the relay of i has claimed and not settled.
Relaying(i) == batch[i] \cup ({current[i]} \ {NoCallback})

\* The callbacks of one reference are relayed by one instance at a time: no
\* two copies of a confirmation are in preparation at once, although claims
\* skip locked rows and nothing but the status protects a receipt afterwards.
OneRelayPerReceipt ==
  \A i \in Instance : \A cb \in Relaying(i) :
    /\ receipts[RefOf[cb]].callback = cb
    /\ pc[i] # "idle"
    /\ \A j \in Instance \ {i} : cb \notin Relaying(j)

\* A callback answered "accepted" is the one its receipt holds and the only
\* one of its reference consumers can ever see; one answered "replayed" stands
\* for a confirmation the broker has.
AnswersAreKept ==
  \A a \in answers :
    LET ref == RefOf[a.callback] IN
    /\ a.kind = "accepted" => receipts[ref].callback = a.callback
    /\ a.kind = "replayed" => \E cb \in Callback : RefOf[cb] = ref /\ sent[cb] > 0
    /\ \A cb \in Callback : RefOf[cb] = ref /\ sent[cb] > 0 =>
                              cb = receipts[ref].callback

\* A receipt marked PUBLISHED is with the broker, also when a confirm and the
\* statement that records it are separated by failures.
PublishedIsSent ==
  \A ref \in Reference : receipts[ref].status = "PUBLISHED" =>
    sent[receipts[ref].callback] > 0

\* The relay keeps the promise of an outbox of callbacks, without a lapse: what
\* it announces has been accepted, is not replaced, and is PUBLISHED only when
\* the broker has it.
Outgoing == INSTANCE Outbox
  WITH Message <- Callback, Lapses <- {}, dropped <- {},
       stage <- [cb \in Callback |->
                   IF receipts[RefOf[cb]].callback # cb THEN "none"
                   ELSE IF receipts[RefOf[cb]].status = "PUBLISHED"
                        THEN "settled" ELSE "stored"]

KeepsMessages == Outgoing!Spec

\* Consumers see a confirmation again only because the broker refused to
\* confirm it: neither restarts nor failed statements repeat one.
CopiesAreNacks == \A cb \in Callback : sent[cb] <= 1 + faults

\* A receipt goes ABSENT, PENDING, IN_FLIGHT and back or on to PUBLISHED, where
\* it stays; its callback never changes.
Forward == {<<"ABSENT", "PENDING">>, <<"PENDING", "IN_FLIGHT">>,
            <<"IN_FLIGHT", "PENDING">>, <<"IN_FLIGHT", "PUBLISHED">>}

ReceiptsMoveForward ==
  [][\A ref \in Reference :
       /\ receipts'[ref].status # receipts[ref].status =>
            <<receipts[ref].status, receipts'[ref].status>> \in Forward
       /\ Known(ref) => receipts'[ref].callback = receipts[ref].callback]_vars

\* Claimed by a tick that is over, or by a relay that hangs.
Stranded(ref) ==
  /\ receipts[ref].status = "IN_FLIGHT"
  /\ \A i \in Instance : receipts[ref].lockedBy = i => pc[i] = "hung"

\* Every recorded confirmation is published in the end, whatever is negatively
\* confirmed or repeated; the one way to lose one is a failure that strands it
\* in the hands of a relay that stopped, or leaves no instance with a channel.
OnlyStrandedIsLost ==
  \A ref \in Reference : Known(ref) ~>
    \/ receipts[ref].status = "PUBLISHED"
    \/ losses > 0 /\ (Stranded(ref) \/ \A i \in Instance : ~ready[i])

\* "Relay queued receipts until publication succeeds" (README of the service):
\* every recorded confirmation is published in the end.
ReceiptsArePublished ==
  \A ref \in Reference : Known(ref) ~> receipts[ref].status = "PUBLISHED"
===============================================================================
