# Modularis: TLA+ models, checks and proofs

Modularis registers users, collects a payment from each and turns the confirmed
payment into premium membership. Seven services in three languages do it
together over RabbitMQ, each with a database of its own. No transaction spans
two of them, so the system is correct only if its sagas, receipts, outboxes and
retries are. This directory holds TLA+ models of those protocols, TLC
configurations that check them on small instances, and TLAPS proofs for every
size. Paths below are relative to the repository's root `src/`.

- [Files](#files)
- [The system](#the-system)
- [AccountCreation: what creating an account promises](#accountcreation-what-creating-an-account-promises)
- [Outbox: what a service promises of its messages](#outbox-what-a-service-promises-of-its-messages)
- [OnboardingSaga: the account creation saga](#onboardingsaga-the-account-creation-saga)
- [Gateway: the RPC and the event streams](#gateway-the-rpc-and-the-event-streams)
- [WebhookRelay: receipts and relay](#webhookrelay-receipts-and-relay)
- [PaymentLifecycle: payments and their messages](#paymentlifecycle-payments-and-their-messages)
- [Membership: the paid user becomes premium](#membership-the-paid-user-becomes-premium)
- [Console: the page for manual tests](#console-the-page-for-manual-tests)
- [Runs](#runs)
- [What the runs found](#what-the-runs-found)
- [Proofs](#proofs)
- [Not modelled](#not-modelled)
- [Plan](#plan)

## Files

| File | Contents |
| --- | --- |
| `AccountCreation.tla` | abstract specification: what is promised of an account and to those who ask for one |
| `Outbox.tla` | abstract specification: what a service promises of the messages it announces its changes with |
| `SagaLedger.tla` | one row of `account_creation_sagas` and what each transaction of the onboarding repository writes to it, as operators |
| `IdentityStore.tla` | the database of identity-service and its two transactions, as operators |
| `OnboardingSaga.tla` | the state machine: workers of onboarding-service, the RPC commands in the broker, identity and payment executing them, failures; properties |
| `OnboardingSagaProofs.tla` | theorems about `OnboardingSaga` whose subject is one row and its lock |
| `OnboardingPromiseProofs.tla` | theorems about `OnboardingSaga` that need all three databases, and the refinement of `AccountCreation` |
| `MCOnboardingSaga.tla`, `Saga*.cfg` | instances for TLC |
| `Gateway.tla` | api-gateway between browsers and RabbitMQ, with the command consumer of onboarding-service at the other end; properties |
| `GatewayProofs.tla` | the theorems about `Gateway`, with the refinement of `AccountCreation`, and their proofs |
| `MCGateway.tla`, `Gateway.cfg` | an instance for TLC |
| `WebhookRelay.tla` | receipts, handler and relay of webhook-service; properties |
| `WebhookRelayProofs.tla` | the theorems about `WebhookRelay` and their proofs |
| `MCWebhookRelay.tla`, `Relay*.cfg` | instances for TLC |
| `PaymentLifecycle.tla` | event handlers, documents and publisher of payment-service; properties |
| `PaymentLifecycleProofs.tla` | the theorems about `PaymentLifecycle` and their proofs |
| `MCPaymentLifecycle.tla`, `Payment*.cfg` | instances for TLC |
| `Membership.tla` | the listener of `payment.confirmed` and the outbox publisher of membership-service; properties |
| `MembershipProofs.tla` | the theorems about `Membership` and their proofs |
| `MCMembership.tla`, `Membership.cfg` | an instance for TLC |
| `Console.tla` | the handlers of the page for manual API tests; properties |
| `ConsoleProofs.tla` | the theorems about `Console` and their proofs |
| `MCConsole.tla`, `Console.cfg` | an instance for TLC |
| `PROJECT.json` | which definition models which lines, the runs, their mutants, hazards, findings and theorems |

Check with `tlc -config SagaSafety.cfg MCOnboardingSaga`, prove with
`tlapm OnboardingSagaProofs.tla`.

Some modules contain operators commented `Mutant:`. They are wrong on purpose
and no definition uses them: each is a plausible bug, and putting it in place of
the operator named beside it in `PROJECT.json` makes TLC find the named property
violated. They show that no property holds merely by the shape of the model.

## The system

```
 browser -> api-gateway --onboarding.account.create--> onboarding-service
                ^                                        |        |
   payment.status-updated            identity.user.create|        |payment.intent.create
   user.premium-updated              identity.user.compensate     v
                |                                        v   payment-service <--+
                |                               identity-service  |             |
                |                                                 |payment.     |payment.callback.
                +------------- membership-service <---------------+confirmed    |confirmed
                                                                                |
                                      payment provider --signed HTTP--> webhook-service
```

Arrows with a command name are RPCs: a command queue shared by the instances of
a service, a reply queue per caller, a correlation id, a timer in the caller and
no memory of the call after the timer fired. The others are events.

### onboarding-service (NestJS, PostgreSQL)

- **State.** One row per idempotency key: status, next action, snapshots of the
  user and of the payment, the last error, `retryable`, `next_retry_at`,
  `locked_by`, `locked_until`. In memory: the copy of a row each running worker
  holds, and the RPCs it waits for.
- **Operations.** `create()` for a command: insert or lock the row
  (`tryAcquire`), run the state machine, release. A delivery that does not get
  the lock polls until the row is settled. `recoverPendingSagas()` on a timer:
  lock a batch (`claimRecoverable`), run each saga from the copy just read.
- **Hard.** The lease may run out while a worker waits for an RPC; the worker
  goes on, from its copy, and `transition()` tests `locked_by` but neither
  `locked_until` nor the status. A timed-out command is still executed, later.
  `markFailed` gives the lock up in the middle of the loop.
- **Correct when** no transition is computed from a copy that is out of date; a
  settled saga keeps its outcome; a caller is told only what is recorded; a
  completed saga has exactly its user and its payment; every saga settles.

### identity-service (Spring Boot, PostgreSQL)

- **State.** Users with unique email and tax id; one request record per
  idempotency key; one receipt per compensation.
- **Operations.** `createUser` (replayed by key, refused for another payload or a
  taken handle), `compensateUser` (deletes the user and the request record,
  writes the receipt). Its outbox publisher polls a table nothing writes.
- **Hard.** Create and compensate commands of one saga may be executed late, twice or
  in either order by two instances; unique violations surface at commit.
- **Correct when** a key has at most one user and a compensated user stays away.

### payment-service (Go, MongoDB)

- **State.** One document per payment with its status, amounts, expiry, and the
  messages still to be published, each with a claim and a lease.
- **Operations.** `CreatePayment` (RPC), `HandleProcessRequested`,
  `HandleCallbackConfirmed` and `HandleDeliveryRequested` (events, compare-and-set
  transitions), `PublishPending` (timer; at least once).
- **Hard.** In `HandleProcessRequested` the transition and its announcement are
  separate writes, and a redelivery finds PROCESSING and acknowledges;
  callbacks older than a tolerance are ignored; expiry races the callback.
- **Correct when** a payment is confirmed at most once, never after it expired,
  and every externally relevant change is published.

### webhook-service (Go, PostgreSQL)

- **State.** One receipt per `CONFIRMED:<reference>` with publish status, lock owner,
  lease, next attempt; in memory the publisher channel and the relay's batch.
- **Operations.** `POST /webhooks/payments` (verify, register or report a duplicate);
  a relay tick (claim, publish with confirms, mark published or retry).
- **Hard.** Broker and table cannot agree atomically; several relays; the process
  or the connection ends at any point.
- **Correct when** every recorded confirmation is published in the end, repeats have
  a reason, and answers to the provider stay true.

### membership-service (Spring Boot, PostgreSQL)

- **State.** Users with the premium flag, receipts of consumed messages, an outbox. In RabbitMQ
  a queue of `payment.confirmed` with a delivery limit and a queue of dead letters.
- **Operations.** `handlePaymentConfirmed` (record the message, set the flag,
  write two outbox events, in one transaction); a scheduled publisher of the outbox.
- **Hard.** Duplicates are detected by a primary key that only fails at commit, and then
  count against the delivery limit; the publisher locks no rows, so that two instances publish
  the same event and one overwrites what the other recorded.
- **Correct when** premium is granted once, and only, for a confirmed payment, a confirmation
  is never given up before it took effect, and the change is announced at least once.

### api-gateway (NestJS)

- **State.** In memory: pending RPCs by correlation id, one subject per user for server-sent
  events, one connection to RabbitMQ with an exclusive queue for replies and one for events.
- **Operations.** `POST /accounts` (an RPC to onboarding-service, then a cookie with a JWT),
  `GET /events` (guarded by that JWT), forwarding of events to the streams of their user.
- **Hard.** A connection, or the process, is lost between command and reply; commands
  and replies come twice; an acknowledgement fails after its response was published; streams
  open and close while events are under way.
- **Correct when** a browser is told only what is true of its own account, waiting requests end, and
  a stream has no gaps while its connection lasts.

### platform

- `manual-api-console.runtime.js` is a page of 2,257 lines for manual tests of the whole: it creates accounts, makes tokens, reads
  the event stream, signs and sends webhooks and probes the services. **State:** form fields, some of them kept
  in local storage; the latest account; results by route; the log of a stream; health of the services.
  **Hard:** every click starts an asynchronous handler, and none waits for another. **Correct when** what it
  shows, sends and keeps belongs together.
- The rest is nginx configuration, AsyncAPI documents, decision records and scripts: no state of their own.

### How the models fit together

`AccountCreation` is the contract between `Gateway` and `OnboardingSaga`: the saga is shown to implement
it towards the deliveries of its command queue; `Gateway` uses it as the account database behind the RPC and is in turn
shown to implement it towards browsers. `OnboardingSaga` creates the payments whose life
`PaymentLifecycle` models; its callbacks arrive as `WebhookRelay` may publish them (late, repeated, in any order), and
`Membership` takes `payment.confirmed` as `PaymentLifecycle` may publish it (repeated after faults). `Gateway`
forwards the events of both. `Outbox` is the contract of the three services that announce what their databases say
(`WebhookRelay`, `PaymentLifecycle`, `Membership`): three designs, in two languages, of one promise. `Console` stands at the browser's end.

## AccountCreation: what creating an account promises

Per key an account that nobody asked for yet, that is open, created or refused. `Ask` binds the key to the first payload,
`Create` gives it a new user that shares no email or tax id with another account's, `Refuse` is final
like `Create`; askers learn of an account only when it is created (`Tell`), and may forget and ask again.

It is checked, and proved, as `KeepsPromise` of two modules:

| | `accounts[k]` | `told` |
| --- | --- | --- |
| `OnboardingSaga` | from the row (absent, not settled, COMPLETED, failed for good) | the key of a worker that answers `created` or `replayed` |
| `Gateway` | the variable of that name | the key of a request answered 201 |

An action of `AccountCreation` tests what must hold before a row may move, above all that no other key has the handle. In the saga
nothing tests that: the unique columns of identity-service do, at a moment that is long past
when the row is completed.

## Outbox: what a service promises of its messages

No transaction spans a database and the broker. Each service therefore stores what it has to say together with the change, and says it
afterwards. `Outbox` states, per message, what that is worth: a message is stored once and never taken back (`Store`), the broker gets only what
is stored (`Send`), and the service holds a message settled only when the broker has had it (`Settle`). A message that is settled may
be sent once more, by an instance that had it in hand before: delivery is at least once. Two lapses weaken the promise where the code does:
`Drop`, a message written to a connection that is dead already is taken for sent, and `Reopen`, a settled message becomes unsettled.

It is checked, and proved, as `KeepsMessages` of three modules:

| | message | not stored | settled | lapses |
| --- | --- | --- | --- | --- |
| `WebhookRelay` | callback | the receipt of its reference has not recorded it | PUBLISHED | none, it waits for confirms |
| `PaymentLifecycle` | message of a payment | never stored in its document | gone from the document | `drop`, when connections may be lost |
| `Membership` | event of a payment | no row | PUBLISHED | `drop` and `reopen`, when connections may be lost |

`Next` speaks of all messages at once, because one transaction may store, claim or settle several; what it says of each message is
one of the six actions. That the code implements it is not seen from the statement that settles a message: it tests a claim, not a send.
The outbox of identity-service is empty for ever, and onboarding-service has none: its commands are RPCs.

## OnboardingSaga: the account creation saga

| Model | Code |
| --- | --- |
| `ledger[k]` | the row of key `k`; `AbsentRow` when there is none |
| worker in `Caller` | one delivery of `onboarding.account.create` (`OnboardingService.create`) |
| worker in `Recoverer` | one pass of `recoverPendingSagas` in one instance |
| `pc`, `key`, `snap`, `todo` | where its async function is, the saga it runs, its copies of rows, the rest of its batch |
| `commands` | RPC commands accepted by the broker and not acknowledged; `from = Nobody` when nobody waits any more |
| `reply`, `answer` | the RPC reply it received; how its run ended |
| `identity`, `intents` | the databases of identity-service and (as far as the saga needs it) payment-service |
| `expired` | workers whose `locked_until` has passed |
| `RejectReusedKey`, `Acquire`, `JoinWaiters`, `WaiterSeesSettled`, `WaiterGivesUp` | the branches of `create()` and `waitForSettledSaga()` |
| `ClaimBatch`, `NextOfBatch`, `EndPass` | `recoverPendingSagas()` |
| `SendCreateUser`, `SendPayment`, `SendCompensation` | an RPC of `executeStateMachine` up to its `await` |
| `FinishUser`, `FinishPayment`, `FinishCompensation`, `Complete` | from the reply to the end of the transition it leads to |
| `Release`, `Depart` | the `finally` blocks; the response and the acknowledgement |
| `ExecuteCreate`, `ExecuteCompensate`, `ExecutePayment`, `ServiceFails` | the command consumers of the two services |
| `TimeOut`, `LeaseExpires`, `AbandonedLeaseExpires`, `RetryFallsDue`, `Die` | timers, clocks, ends of processes |

**Grain.** A step is one database transaction, or what lies between two awaits.
The transactions of the repository run under row locks and are atomic;
everything else interleaves. One transition in the code reads the row again
under its lock and writes it: the model writes the row as it is then
(`ledger[key[w]]`), with values from the reply or from the copy exactly where the code does.

**Abstractions.** Payloads are model values, of which the model keeps the
handles they claim and whether their currency is supported; a problem document
is *permanent* or *transient*, the only distinction the saga makes. Times are
Booleans (`due`) and sets (`expired`): any lease may run out at any moment,
which includes what real durations allow. Worker ids are uuids; the model
reuses an id only when no row and no command mentions it. `attempts`
and the table of transitions influence nothing but the length of the backoff.
`createUser` and `compensateUser` are one transaction each.

**Properties.** `TypeOK`; `HolderKnowsRow`: the worker named in `locked_by` acts on
the row as it is; `SnapshotSuffices`: the "without a user snapshot" errors and
the NOOP branch are unreachable; `CompletedIsWhole`: a completed saga has its user,
its one payment of that user and no compensation, done or on its way;
`NoIntentWithoutUser`: payment never collects for a removed user;
`AnswerIsDurable`: success is told only when it is recorded;
`OnlyFailedIsCompensated`; `StatusMovesForward` (action property); `SagasSettle` (liveness); and
`KeepsPromise`, the refinement of `AccountCreation`.

**Fairness.** Weak fairness of what a running process does by itself: its own
steps (`Run`), its RPC timer, the recovery timer, the consumers of each queue
(one condition per kind of command and key), and clocks. Nothing is assumed of
callers, nor that a caller waits. An instance that died is replaced by the
others: the recovery of the remaining instances is what the code relies on, and
`Recoverer` has two workers in the liveness run so that one may die. Weak
fairness is enough because each of these steps stays enabled until it happens:
faults, which may disable them, are bounded.

`SagasSettle` exempts *blocked* sagas: when identity refuses the user because another
key registered the person, the row stays STARTED and is retried without end. That
is the code's behaviour; the exemption names exactly that condition.

## Gateway: the RPC and the event streams

| Model | Code |
| --- | --- |
| `serving[g]`, `connected`, `channels[g]` | `onModuleInit` of gate `g`; its connection; channels whose set-up function has run, each with an exclusive queue |
| `pending[g]`, `http[r]`, `given[r]` | `pendingRpc`; the answer to `POST /accounts`, and the user in it |
| `outbox[g]` | what amqp-connection-manager keeps until the broker has confirmed it |
| `commands`, `copies`, `work` | copies of commands in the queue, how many there were, deliveries being handled |
| `replies[g]`, `events[g]` | the two exclusive queues, in order |
| `accounts` | `AccountCreation` |
| `stream[b]`, `seen[b]` | the open `GET /events` of a browser and what was pushed into it |
| `missed`, `since`, `published` | history: what a stream cannot have seen |
| `Reject`, `Submit`, `SendRpc`, `Flush`, `TimeOut`, `Unwrap`, `OnRpcReply` | `POST /accounts` and `sendRpc` |
| `Connect`, `SetUp`, `Await`, `LoseConnection`, `Crash` | start-up, connection, end of a process |
| `ServerConnects`, `Deliver`, `Decide`, `Respond`, `Acknowledge`, `AcknowledgeInVain`, `ServerLosesConnection` | `onCommand` and the command consumer of onboarding-service |
| `Subscribe`, `Leave`, `PublishEvent`, `OnEvent` | `AuthGuard`, `UserEventStreamService`, `onEvent` |

**Grain.** A step is what runs between two awaits or callbacks of either process. A queue of a
connection vanishes with it, with what was in it.

**Abstractions.** Throttling and validation answer before any state changes. A command is known by its request; what
onboarding-service decides is the choice of `AccountCreation`, restricted only by what the consumer makes of
it (`Outcomes`). An event is its position in `published`. A token names the user that was in the answer to its browser; expired and forged tokens
are those of nobody. The map of subjects keeps an entry for each user that ever subscribed: entries
without subscribers are left out, nothing reads them.

**Properties.** `TypeOK`; `AnswersMatch`: success carries the user of the account of the request's own key and payload, whatever
replies come late or twice; `PendingIsAwaited`: `pendingRpc` is exactly who waits here, so that it cannot grow;
`StreamsHaveNoGaps`: while its gate keeps its connection, what a stream has shown, followed by what the gate's queue still holds, has all events
of its user in order, each once, at the latest from the first one after it was opened; `KeepsPromise`.

There is no liveness property: without a restart policy and a promise of the broker to come back nothing obliges the gate to
answer but the timer, which `TimeOut` takes at any moment.

## WebhookRelay: receipts and relay

| Model | Code |
| --- | --- |
| `receipts[ref]` | the row of `webhook_receipts` with key `CONFIRMED:ref` |
| `sent[cb]` | copies of a callback the broker has accepted |
| `answers` | the 2xx answers: `accepted`, `processing`, `replayed` |
| `ready`, `pc`, `batch`, `current`, `attempt` | `Bus.ready`; the relay goroutine of each instance |
| `Register`, `IgnoreDuplicate` | the handler with `ReceiptStore.Register` |
| `ClaimPending`, `NextReceipt`, `Send`, `Confirm`, `Nack`, `MarkPublished`, `RetryPending`, `EndTick` | one tick of `Relay.Run` with `Bus.Publish` |
| `LoseConnection`, `Restart`, `RetryFallsDue` | failures and time |

**Grain.** A step is one SQL statement or transaction, one publish or one confirm.
Statements may fail (`Loss("database")`), the answer to the provider may be lost,
and a message on its way when something breaks may or may not have arrived.

**Abstractions.** The callbacks have passed signature and validation; a second
reference with an event id already used is answered 502 and changes nothing, so
it is a guard of `Register` and no action. `locked_until` is left out because no decision depends on
it: see the module's header. A graceful stop cancels the context of every later
statement, so that nothing is recorded after it; it is a `Restart` as far as
receipts are concerned. The mutex of the bus appears only by its effect: the
relay that finds the confirmation channel closed hangs.

**Properties.** `TypeOK`; `OneRelayPerReceipt`; `AnswersAreKept`: an accepted callback is the one
that is relayed, a replayed one is with the broker; `KeepsMessages`, the refinement of `Outbox` without a lapse; `CopiesAreNacks`:
only negative confirms cause duplicates; `ReceiptsMoveForward` (action property, proved only: most of it follows from `KeepsMessages`); `OnlyStrandedIsLost` (liveness): every recorded confirmation is published in the end, except those that a
failure strands: claimed by a tick that ended, or by a relay that hangs, or with no instance left that has a channel. `ReceiptsArePublished`
is the same without the exception; it is what the README of the service says, and fails (`relay_restart`).

**Fairness.** The ticker, the relay's steps, the broker's answers and the clock, weakly.
Neither a restart after a crash nor a callback is assumed to happen: `compose.yaml` gives no
restart policy, and the provider owes nothing.

## PaymentLifecycle: payments and their messages

| Model | Code |
| --- | --- |
| `payments[p]` | status and delivery status of the document; `ABSENT` before `CreatePayment` |
| `slots[m]` | the entry of message `m` in `pendingMessages`: `in` it is there, `due` `nextAttemptAt` has passed, `leased` `claimedUntil` has not, `token` the claim |
| `created[m]`, `sent[m]`, `dropped` | history: how often `m` was stored and reached the broker; messages written to a dead connection |
| `queue`, `hand[i]`, `at[i]` | `payment.process.requested`, `payment.delivery.requested` and `payment.callback.confirmed` waiting; the one the consumer goroutine of `i` handles and how far it is |
| `pub[i]`, `batch[i]`, `current[i]` | the ticker goroutine of `i`: where `PublishPending` is, what it claimed |
| `past`, `stale` | payments after `expiresAt`, callbacks older than `WebhookTolerance` |
| `CreatePayment`, `Arrive` | a command of the saga; webhook-service relays a callback |
| `Reserve`, `NotReserved`, `EnqueueProcessing`, `GatewayEnds` | `HandleProcessRequested`, one step per write |
| `IgnoreCallback`, `LateCallback`, `Expire`, `ConfirmPayment` | `HandleCallbackConfirmed` |
| `HandleDelivery` | `HandleDeliveryRequested` |
| `Receive`, `Ack`, `Redeliver` | `StartConsumers` and the broker |
| `ClaimPending`, `Publish`, `Acknowledge`, `RetryPending` | `PublishPending` |
| `Expiry`, `Age`, `RetryFallsDue`, `LeaseExpires` | clocks |
| `PublishInVain`, `LoseConnection`, `Crash` | failures |

**Grain.** A step is one MongoDB statement, with the read that decides for it
where what is read cannot change in between (amounts, expiry), or one publish. `transitionWithMessages`
changes the status and stores the messages in one update: one step.
`HandleProcessRequested` uses two updates: two steps. A late callback or a
request for an overdue payment decides on the document as it was read
(`at = "expire"`) and writes later, when another instance may have decided otherwise.

**Abstractions.** A message is the payment and the kind its `messageId` names;
`Requests` are the two kinds this service consumes itself. Callbacks are model values, with what the handler
tests of them (`InTime`, `Matching`) as constant sets. A claim token names the instance
instead of a uuid: a claim that has been taken over by the same instance cannot be told from the old one, but
an instance runs one tick at a time and forgets its claims with it. `ClaimPending` claims a batch in one
step; the code claims one by one, and other instances take theirs in between, which other batches with
fewer messages include. RabbitMQ hands up to ten events to a process in advance; those not yet
handled are left in `queue`. Simulated confirmations are off, as by default and as deployed.

**Properties.** `TypeOK` (with: no message is stored twice in its document);
`AnnouncedIsTrue`: announcements are single and the final ones exactly those of
what the document is, COMPLETED only with an honest callback; `KeepsMessages`, the refinement of `Outbox`: a message is stored once and leaves its document when the
broker has it; `NothingIsLost`, its core as an invariant; `ConfirmationIsUnderWay`: a
completed payment always has a way left to `payment.confirmed`; `CopiesAreFaults`;
`CompletedIsConfirmed`, `FreshCallbackDecides` (liveness).

**Fairness.** The broker hands over what waits, consumers and tickers of running processes go on,
clocks advance: weakly, since each of these stays enabled until it happens, and the faults
that disable them are bounded. Nothing is assumed of callbacks, commands, the expiry or a restart
of a process whose connection is gone.

## Membership: the paid user becomes premium

| Model | Code |
| --- | --- |
| `queue`, `dead`, `copies` | `membership-service.payment-confirmed` and its dead letters; copies published by payment-service |
| `receipts`, `premium` | `consumed_message_receipts`, `memberships` |
| `status[e]`, `rows[e]`, `due` | the row of event `e` in `outbox_events`; how many were inserted; those whose `next_attempt_at` has passed |
| `hand[i]`, `at[i]`, `found`, `grants`, `live` | what the listener of `i` handles, how far it is, what its queries returned; whether its delivery may still be acknowledged |
| `batch[i]`, `outcome[i]` | the tick of `i`: what it has yet to send, what its commit will write |
| `sent[e]`, `dropped` | history: copies the broker has got; events written to a dead connection |
| `Confirm`, `Receive`, `Ack`, `LoseConnection` | payment-service, the broker, the listener container |
| `Register`, `FindUser`, `CommitActivation`, `FailActivation` | `handlePaymentConfirmed` and its transaction |
| `Select`, `Send`, `CommitTick`, `FailTick`, `RetryFallsDue` | `publishPendingEvents` |
| `Crash` | the end of a process; another starts |

**Grain.** A step is a query, the end of a transaction, or one `convertAndSend`. Both transactions are read committed and
take no locks, so that everything between interleaves.

**Abstractions.** `save()` of an entity with an assigned identifier is a merge: a SELECT at once and an INSERT or UPDATE at the commit.
The unique violation of a receipt therefore never reaches the catch block of `registerConsumedMessage`, and a
receipt that was found is updated with the null `processedAt` of the new object, which its column refuses; both end as
`FailActivation`. An update writes every column of the row: that makes a stale tick overwrite `PUBLISHED` (`Written`). The saga makes one
payment per user, so that a user is named by the payment.

**Properties.** `TypeOK` (with: an event has at most one row); `ActivationIsWhole`: premium users are those with a receipt, paid for, and each has its two events, once;
`DeadLettersAreRepeated`: a confirmation is dead-lettered only when its user is premium, though every repetition
fails until it is; `KeepsMessages`, the refinement of `Outbox`; `CopiesAreFew`: at most one copy of an event per instance, and a bounded number more for
each fault; `ConfirmedIsAnnounced` (liveness).

**Fairness.** The broker hands over what waits, listeners and ticks of running processes go on, time passes; weakly. The choice between success and failure
inside a step is left to the faults, which are bounded.

**Assumption.** `LimitIsEnough`: faults alone do not use up the delivery limit. Without it a confirmation can end in the dead letters, and
nothing in the repository reads those.

## Console: the page for manual tests

| Model | Code |
| --- | --- |
| `controls`, `saved`, `key`, `form` | the form fields, those in local storage, the idempotency key, the webhook form |
| `account`, `accepted`, `types`, `announced`, `notified` | `lastAccount`, `lastWebhookAcceptedAt`, `eventTypes`, `notificationDedupe`, `lastNotification` |
| `status`, `handle` | `streamStatus`, `activeEventStream` |
| `view` | `resultCache`, `activeResultId`, the log of the stream, and what the drawer shows |
| `flow`, `strip`, `board` | what the progress, the context strip and the health board show; `pulse` is `healthPulse` |
| `jobs[i]` | the handler that click `i` started, and where it waits |
| `Clicks` (`CreateAccount`, `ConnectEvents`, `SendWebhook`, `HealthSweep`, `ClearState`, ...) | the listeners that `wireActions` installs |
| `Continues` (`AccountAnswered`, `StreamEvent`, `StreamEnds`, `WebhookSigned`, `WebhookAnswered`, `SweepService`, ...) | their continuations after an `await` |

**Grain.** A handler runs from one answer of the network or of `crypto.subtle` to the next; microtasks of a click belong to it.
The screen is a copy of the state, renewed where the handler calls a `render*` function and nowhere else.

**Abstractions.** Users and payments are known by the key that made their account. A control is what the handlers test of
it (a usable base URL, parsable headers). Wording, layout, themes, copy buttons, the activity feed, the permission for
notifications, unparsable webhook payloads and what runs once at start-up are left out.

**Properties.** `TypeOK`; `FactsAreTrue` (`AccountIsOfItsKey`, `AnnouncedIsAccepted`): what the console says of accounts and payments is so, however answers
overtake each other; `SentIsSigned`: a webhook is sent with the signature of its own timestamp and body; `CopiesAreCurrent` (`DrawerShowsCache`,
`PanelsAreCurrent`, `ReloadRestores`): no handler forgets to renew what it changed, on the screen or in local storage; `StatusIsTrue` (`StreamStatusIsTrue`, `HandleIsLive`,
`CheckingIsUnderWay`): no status outlives the handlers it is about, but where the code leaves it so.

## Runs

| Run | Instance | States | Shows |
| --- | --- | --- | --- |
| `saga_safety` | 2 keys of one person, 1 caller, 2 recoverers, 2 faults | 641,167 | the safety properties of `OnboardingSaga`, `KeepsPromise` |
| `saga_settles` | as above, 1 fault, fairness | 103,435 | `SagasSettle` |
| `saga_failure_answer` | 1 key, no fault | violation | `FailureIsAnswered` |
| `saga_orphan` | 1 key, 1 fault, fairness | violation | `FailedUserIsRemoved` |
| `relay_safety` | 3 callbacks of 2 payments, 2 instances, 2 nacks, 1 loss of any kind, fairness | 533,520 | the safety properties of `WebhookRelay`, `KeepsMessages`, `OnlyStrandedIsLost` |
| `relay_restart` | 1 callback, 1 instance, 1 restart, fairness | violation | `ReceiptsArePublished` |
| `payment_faults` | 1 payment, 1 callback, 2 instances, 1 fault of any kind | 1,872,210 | the safety properties of `PaymentLifecycle` |
| `payment_confirms` | 1 payment, an honest and a late callback, 1 instance, failing gateway, 1 redelivery, database error or slow publisher, fairness | 306,613 | `KeepsMessages`, `CompletedIsConfirmed`, `FreshCallbackDecides` |
| `payment_processing` | 1 payment, 1 callback, 1 instance, 1 redelivery, fairness | violation | `ProcessingIsAnnounced` |
| `gateway` | 1 gate, 1 server, 2 browsers, 3 requests (one key twice with different payloads, one without key), 4 moves, 1 fault | 1,239,892 | the properties of `Gateway` |
| `membership` | 1 payment, 2 copies of its confirmation, 2 instances, delivery limit 1, 1 fault of any kind, fairness | 89,986 | the properties of `Membership` |
| `console` | 2 keys, 3 clicks, a log of up to 3 lines before it is cut | 1,286,411 | the properties of `Console` |

**Bounds.** A fault in the saga is a timeout before the command was executed, a
5xx, a lost reply, a redelivery, an expired lease or a death. The dangerous
schedules need a lease that runs out and a second event (a death, a late command), hence
two faults; the second worker of each kind is there to take the row over, and a
third finds nothing the second does not, since at most one worker is named in a row.
Two keys of one person, one of them with a currency payment refuses, make the identity
conflicts and the compensation happen; batches of two reach the stale batch.
`MaxUsers = 4` is above the number of user ids those schedules can draw. In the relay, two sends per
tick with two nacks reach the retry after the last attempt as well as the
second attempt of one tick. `first` and `corrected` are two callbacks of one payment, `copied` uses the
event id of `first` for another payment. In the payment service two instances are what it takes for two
handlers, or a handler and a slow publisher, to meet at one document; documents do not
interact, so one payment is enough. One fault at every possible step covers each window between two writes; the proofs cover combinations. `KeepsMessages` of `PaymentLifecycle`
is checked in `payment_confirms`, because a refinement is checked step by step, which takes too long on `payment_faults`; there `NothingIsLost`
checks its core with two instances and dead connections. `payment_confirms` leaves the crash
to `payment_faults`: to the publisher it is a `database` fault (claims under nobody's name until their lease ends), to the
consumer a `delivery` fault (the event comes again). In the gateway `MaxMoves` counts events once and requests twice, so that two requests, or
one and two events, or four events meet one lost connection; the request without key shows that nothing of it reaches the broker. In membership one fault and a delivery limit of one are the tightest
case `LimitIsEnough` allows. In the console two clicks are what it takes for two handlers to overlap and the third
to clear, reconnect or reopen under them; `MaxLog` ends an endless stream of events. The theorems remove the bounds from what they prove.

## What the runs found

1. **`saga_failure_answer`.** `markFailed` clears `locked_by`; the loop continues to `COMPENSATE_USER`,
   sends the compensation, and `markCompensated` throws because the row is not
   locked by the worker. The caller of a refused payment gets a 500, where
   `onboarding.service.spec.ts:248` (with a mocked repository) expects the conflict. Later calls are answered from the row.
   For the same reason no execution reaches COMPENSATED, which ADR 0001 lists among the states:
   `NothingIsCompensated` proves it for every instance.
2. **`saga_orphan`.** `claimRecoverable` skips failures that are not retryable, so that a
   crash or an identity timeout between `markFailed` and the compensation leaves the user registered for ever; ADR 0001
   promises that partial success is recoverable.
3. **`relay_restart`.** `ClaimPending` sets IN_FLIGHT and a lease, and claims only PENDING. A process
   that stops, gracefully or not, with receipts in flight strands them; so does a failed `RetryPending`, whose error is dropped.
4. **`payment_processing`.** A handler interrupted between `ReserveForProcessing` and `EnqueueMessages` is repeated,
   finds no PENDING document and is acknowledged: the change to PROCESSING is never announced and the gateway never called.
   (The payment can still be completed by its callback.)

More follow from faults the passing runs exclude or exempt, or from states no property calls wrong:

- With `"connection"`, receipts are stranded as in `relay_restart` (`OnlyStrandedIsLost` names it): `awaitConfirmation` locks the mutex that its caller
  `Publish` holds when the channel closes, so that relay, readiness probe and `Close` hang; when no confirm is awaited,
  `ready` becomes false and nothing dials again.
- With `"connection"` among the `FaultKinds` of `payment_confirms`, `CompletedIsConfirmed` fails: `Publish` waits for no confirm, so a write to a dead connection counts as
  published, and nothing opens the connection again while `ready` stays true.
- `FreshCallbackDecides` exempts callbacks that get older than five minutes on their way: `HandleCallbackConfirmed` acknowledges and ignores them, while the backoff of the relay that
  brings them doubles without a cap.
- In `Membership` every repeated `payment.confirmed` fails at its commit and is requeued until it is dead-lettered, where README:31 of the service speaks of deduplication by the inbox.
  `DeadLettersAreRepeated` shows that this is harmless to users; the dead letter queue fills with repetitions.
- `rabbit-bus.service.ts:242` of onboarding-service acknowledges on a channel that may be gone: the throw publishes an internal error after the success (`AcknowledgeInVain`). `AnswersMatch` holds
  because the first reply wins, and a browser may be told of an error only when the connection ate the first.
- In the console the `finally` block of a stream that a reconnect aborts (`manual-api-console.runtime.js:1085`) clears the handle of its successor: Close then finds nothing to close, and the
  next connect leaves two streams being read. `buildUrl` throws outside the `try` block (`:998`): with an unusable base URL the status says opening, and a sweep checking, for ever.

## Proofs

### OnboardingSaga

`OnboardingSagaProofs.tla` proves, for all sets of workers, keys and payloads and all
bounds, from the named assumptions on the constants only (the sentinels are no
values, the two kinds of workers are disjoint, supported payloads are payloads, bounds are naturals):

| Theorem | Says |
| --- | --- |
| `Invariant` | `Spec => []IInv` |
| `TypeCorrect` | `Spec => []TypeOK` |
| `HolderIsUpToDate` | `Spec => []HolderKnowsRow` |
| `SnapshotIsEnough` | `Spec => []SnapshotSuffices` |
| `StatusIsMonotone` | `Spec => StatusMovesForward` |
| `NothingIsCompensated` | no row is ever COMPENSATED |

**The inductive invariant.** `HolderKnowsRow` is not inductive. That the holder's copy
agrees with the row survives a step of another worker only if that worker cannot
write the row, which `transition()` ensures; it survives the holder's own step only if the holder runs
one saga at a time and no saga of its batch is the one it runs (`PlaceInv`).
That it still holds when the worker continues after `markFailed` needs that COMPENSATE_USER is reached
only without the lock (`PlaceInv`), which in turn needs what each status
implies for the other columns (`RowInv`). That `SnapshotSuffices` survives a reply
needs that the reply answers the command the worker waits for: a worker has at
most one command under its name, of the kind its place waits for, and none once it has its
reply (`RpcInv`). `IInv` is the conjunction of `TypeOK`, `RowInv`, `LockInv`, `PlaceInv` and `RpcInv`.

`OnboardingPromiseProofs.tla` adds, from the same assumptions:

| Theorem | Says |
| --- | --- |
| `DatabasesAgree` | `Spec => []DataInv` |
| `AnswersAreDurable` | `Spec => []AnswerIsDurable` |
| `CompensationIsForFailures` | `Spec => []OnlyFailedIsCompensated` |
| `CompletedSagasAreWhole` | `Spec => []CompletedIsWhole` |
| `IntentsHaveUsers` | `Spec => []NoIntentWithoutUser` |
| `SagasKeepThePromise` | `Spec => KeepsPromise`: the saga implements `AccountCreation` |

`IInv` says nothing of the other two databases. `DataInv` does: what a copy of a row, a command or a
reply says of payload and user is what the row says, however old it is (`SnapInv`, `CommandInv`, `ReplyInv`); until a saga has failed for good the identity service has
its request and its user, under its key alone (`IdentityInv`); whether a payment is accepted depends on the payload alone, so that a
row that failed for good has no payment and never gets one (`PaymentInv`). The exception "or the saga has failed since" in `ReplyInv` is needed: a compensation may
overtake a reply that is then written to nothing. `SagasKeepThePromise` maps the step that completes a row to `Create`, and takes from `IdentityInv` that the
user is new and its handles are free at that later moment.

The proof has one lemma for each operator that writes a row, one per family of
actions for each conjunct (`TypeStepWorker`, `TypeStepRun`, ..., `OthersUndisturbed`, `OwnStepRun`, `RpcStep`), and
`StepInv` puts them together. `EveryStep` says once what any step does to a
row and to copies; `StatusIsMonotone` follows from it.

### WebhookRelay

`WebhookRelayProofs.tla` proves all safety properties of the module for all
sets of callbacks, references and instances, all kinds of losses and all
bounds, from the assumptions that `RefOf` and `EventOf` are total, that sentinels are
no values and that limits are positive: `RelaysAlone`, `AnswersStayTrue`,
`PublishedWasSent`, `NoCopyWithoutNack`, `TypeCorrect`, `ReceiptsAreMonotone` and `RelayIsAnOutbox` (`Spec => KeepsMessages`).

**The inductive invariant.** `OneRelayPerReceipt` needs that whatever a relay has in hand is
IN_FLIGHT under its own name (`HandInv`): claims take only PENDING receipts, and
the statements that end the work test both. `PublishedIsSent` needs that a relay that is
about to mark has seen a confirm (`DoneInv`). `CopiesAreNacks` alone does not
survive a send: while a receipt may be sent without passing through another failure, there
must be one copy less than the bound allows (`CountInv`, with `Sendable`). A
restart keeps it because the receipt it interrupts is not sendable any more, which is the very
defect `relay_restart` shows: a repair of that defect has to give up this theorem. `TypeOK` includes the
bound on copies and is proved from `CountInv`. Each action has one
lemma with one step per conjunct.

**The refinement.** All three proofs that a module implements `Outbox` go the same way. `Standing(m)` is the stage of one message, `Handled(m)` says that a step takes
it through one action of `Outbox`, and `HandledIsNext` puts the messages together: the quantifier and the substitution are dealt with once, and what is left is about
single messages. One lemma per family of actions proves `Handled`, `StepHandled` combines them. Here the substance is in `SettleHandled`: what is
marked has been sent, by `DoneInv`, and it is the callback of the receipt, by `HandInv`; and in `RegisterHandled`: a new callback takes nobody's place.

### PaymentLifecycle

`PaymentLifecycleProofs.tla` proves for all sets of payments, callbacks and instances, all batch limits
and all kinds and numbers of faults, from the assumptions that `PaymentOf` is total, that callbacks, messages and sentinels are
distinct and that bounds are naturals: `AnnouncementsAreTrue`, `MessagesAreKept` (`NothingIsLost`), `DeliveryIsKept`,
`CopiesHaveFaults`, `TypeCorrect` and `PaymentIsAnOutbox` (`Spec => KeepsMessages`).

**The inductive invariant.** `AnnouncedIsTrue` needs what every status implies for *all* kinds of messages
(`DocInv`): that a transition's filter passes means its messages have not been stored. The announcement of
PROCESSING has no filter of its own; `HandInv` says that the consumer about to store it is the only one for its payment, that the
status has moved on and that it is not stored yet. `PaidInv` keeps the callback behind a completion, for which callbacks in
hands and in the queue must have arrived. `NothingIsLost` needs that a publisher that removes a message has published it, or in vain
(`PubInv`), under a token nobody else can have. `ConfirmationIsUnderWay` is not inductive because a
message is removed from its document long after it was published: `WayInv` says of the *published* request that it waits, is handled by a
connected consumer that has not begun, or has had its effect. Each write to a document has one lemma (`MarkCompletedStores`, ...), each
action another (`ConfirmStep`, ...).

`CopiesAreFaults` needs an account: to the copies the broker has had, `CopyInv` adds the publishers that have a message under a live claim and have not sent it, and one if
the message is free to be claimed. Whatever makes it free again without an acknowledgement is a fault, and every send has used up one of them.

In `PaymentIsAnOutbox` a message must not be stored again after it was settled. The update that pushes messages does not look for them; `StoreHandled` takes from the
invariant *after* the step, in which every message was created at most once, that none of them had been created before.

### Gateway

`GatewayProofs.tla` proves `TypeCorrect`, `AnswersAreTrue`, `PendingIsBounded`, `StreamsAreComplete` and `GatewayKeepsThePromise` for every set of gates, servers, browsers, requests and keys (finite keys)
and all bounds. `AnswersMatch` is not inductive because an answer is given long after the account was looked at: `RepliesMatch` says the same of
every reply in a queue, and both survive because the outcome of an account is final (`OutcomesStay`). `PendingIsAwaited` is what lets `OnRpcReply` conclude that the
request it resolves still waits.

`StreamsHaveNoGaps` needs what queue and stream are made of (`EventInv`): the queue of a gate holds the last events that were published, without exception, as long as the gate has one;
of the others, which the gate has read, a stream that missed nothing shows exactly those of its user that were due (`Follows`). `FollowingHasNoGaps` derives the property.
It is stated by positions in the two sequences, since the provers cannot reason about a recursive filter of a sequence.

### Membership

`MembershipProofs.tla` proves `TypeCorrect`, `PremiumIsGrantedOnce`, `NothingIsGivenUp`, `RowsTellTheTruth` (`PublishedIsSent`), `RepetitionsHaveFaults` and `MembershipIsAnOutbox` (`Spec => KeepsMessages`) for every set of payments, every finite set of
instances and all bounds, from `LimitIsEnough` and the typing of the constants. `ActivationIsWhole` needs that what a handler has found is still there when it commits, and that a handler that found no premium user
is stopped by the receipt (`HandInv`). `DeadLettersAreRepeated` needs a fault for every return of a message whose user is not premium yet (`ReturnInv`): a
repetition is returned without a fault, but only behind one that took effect. `CopiesAreFew` is an account again (`SendInv`): copies sent, instances that may send, and for each tick that
is about to write PENDING over what another recorded, everybody else once more. The bound was first guessed one per fault, which TLC refuted; `Repeats` is the right one.

`MembershipIsAnOutbox` needs `LossInv`: a tick is about to write PENDING only if connections may be lost at all. Without such losses no tick writes over what
another recorded, so that nothing reopens, though ticks overlap and lock no row.

### Console

`ConsoleProofs.tla` proves `TypeCorrect`, `ConsoleTellsTheTruth`, `WebhooksAreSigned`, `ScreenIsCurrent` and `StatusHasHandlers` for any number of clicks, all sets of keys and any
number of services, from the assumptions that `None` is no key, no click and no result and that the services are numbered from 1 without a gap: without the last one a sweep
would leave the services beyond the gap as being checked.

The properties are inductive together with `TypeOK` and `Fresh`: a click takes a job that no handler has had. `JobsOfClicks` and `JobsOfAnswers` say once what a step does to the
handlers under way: it changes its own, and ends at most the stream that the handle names. From there each part of the state has one lemma for the steps that touch it and one for those
that leave it alone: `Renewed` says of every step that it calls the `render*` functions or changes nothing they show, `StreamsLeft` that it touches no stream. The log must be proved to agree with
the cached result *before* the drawer is drawn from it, hence the lemmas about `Rendered`, `Logged` and `Closed` on a view on its way.

### What is only model-checked

The five liveness properties: TLAPS does not reason about fairness and ENABLED here. Every invariant, action property and refinement of the runs is a theorem.

## Not modelled

- **membership-service**: `createUser`, which always refuses and has no listener; malformed messages, which the converter rejects into the dead letters.
- **api-gateway**: the delivery limit of the command queue (in onboarding-service, too); token expiry.
- **console**: the activity feed, notification permission, wording and copy buttons, unparsable webhook JSON, start-up of the page.
- **payment-service**: the RPC side of `CreatePayment` is in `OnboardingSaga` (replay by key); `PaymentLifecycle`
  has its effect. Left out are the simulated confirmation, the delivery limit of the queue with its dead letters
  (the faults are assumed to stay below it) and undecodable events, which end there.
- **identity-service outbox**: the table it publishes from is never written.
- **Concurrent transactions inside identity-service**: the model runs them one after another.
- **Connection handling and queue topology**, except the loss of the publisher's channel.
- **HTTP, validation, logging, health probes, configuration, nginx**: no
  protocol state. The signature of a webhook and its time window decide whether `Register` happens, not what it does.
- **`generate-manual-api-tests.mjs`, `validate-manual-api-tests.mjs`**: one writes the console page to a file from
  templates, the other searches that file for strings: no state, no steps that could interleave.

## Plan

What would come next, in order of importance:

1. `ConfirmBus`: the mutex, the confirmation channel and the four threads of the publisher of webhook-service one by one, whose hang `WebhookRelay` takes as one step.
2. `Identity`: two instances of identity-service whose transactions overlap, with unique violations at the commit, in place of the atomic operators of `IdentityStore`.
3. `ConfirmationPipeline`: webhook, payment and membership composed over queues that duplicate and
   reorder; a confirmed callback makes the user premium, once; the relay's backoff against the tolerance. Its three parts are checked one by one above, each
   under all that its predecessor may send.
