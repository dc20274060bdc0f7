-------------------------------- MODULE Gateway --------------------------------
(***************************************************************************)
(* The api-gateway between browsers and RabbitMQ: the RPC that creates an  *)
(* account (rabbit-bus.service.ts, account.service.ts) and the stream of   *)
(* events of a user (user-event-stream.service.ts), over one connection    *)
(* that may be lost and is opened again; and the bus of onboarding-service *)
(* at the other end of the RPC.                                            *)
(*                                                                         *)
(* What onboarding-service does with a command is AccountCreation, which   *)
(* OnboardingSaga implements: a handler asks for the account of a key and  *)
(* reports what became of it.                                              *)
(*                                                                         *)
(* amqp-connection-manager keeps what is published until the broker has    *)
(* confirmed it and sends it again on the next connection, so that one     *)
(* command may be in its queue twice.  The queues of replies and of events *)
(* are exclusive to a connection and vanish with it.  An event is known by *)
(* its position in published.                                              *)
(***************************************************************************)
EXTENDS Naturals, Sequences, FiniteSets

CONSTANTS Gate, Server,                 \* instances of the two services
          Browser,
          Request, BrowserOf, KeyOf, PayloadOf,         \* POST /accounts
          Key, NoKey, Payload, NoPayload, HandlesOf,
          NoGate,
          MaxMoves,     \* bound on events and requests, these counted twice
          MaxFaults     \* bound on connections lost and processes ended

ASSUME RequestsAreTotal == /\ BrowserOf \in [Request -> Browser]
                           /\ KeyOf \in [Request -> Key \cup {NoKey}]
                           /\ PayloadOf \in [Request -> Payload]
ASSUME SentinelsAreNoValues == NoGate \notin Gate /\ NoKey \notin Key
                               /\ NoPayload \notin Payload
ASSUME ServicesAreDistinct == Gate \cap Server = {}
ASSUME KeysAreFinite == IsFiniteSet(Key)
ASSUME BoundsAreNatural == MaxMoves \in Nat /\ MaxFaults \in Nat

VARIABLES serving,      \* how far onModuleInit of each gate is
          connected,    \* whose connection to RabbitMQ is open
          channels,     \* [Gate -> channels set up on its connection]
          pending,      \* [Gate -> requests], pendingRpc
          outbox,       \* [Gate -> commands published and not confirmed]
          http,         \* [Request -> its answer]
          given,        \* [Request -> the user in its answer]
          at,           \* [Request -> the gate that has it]
          commands,     \* copies of commands waiting for onboarding-service
          copies,       \* [Request -> how many have reached the broker]
          work,         \* deliveries onboarding-service is busy with
          replies,      \* [Gate -> its queue of replies]
          accounts,     \* see AccountCreation
          cookie,       \* [Browser -> the user its cookie names]
          stream,       \* [Browser -> its open GET /events]
          seen,         \* [Browser -> the events pushed into it]
          missed,       \* browsers whose gate has lost events meanwhile
          since,        \* [Browser -> events published before it opened]
          published,    \* the user of each event published so far
          events,       \* [Gate -> its queue of events]
          moves, faults

rpcVars == <<pending, outbox, http, given, at, commands, copies, work, replies,
             accounts, cookie>>
eventVars == <<stream, seen, missed, since, published, events>>
linkVars == <<serving, connected, channels>>
vars == <<linkVars, rpcVars, eventVars, moves, faults>>

\* The promise of account creation, as the browsers see it kept.
Accounts == INSTANCE AccountCreation
  WITH Asker <- Request,
       told <- [r \in Request |-> IF http[r] = "Created" THEN KeyOf[r]
                                                         ELSE NoKey]

NoUser == 0

Result == {"Created", "BadRequest", "Conflict", "InternalServerError"}
Answer == Result \cup {"none", "waiting", "BadGateway", "cut"}
Channel == {"rpc", "events"}
Copy == [req : Request, copy : Nat \ {0}]
Reply == [req : Request, result : Result, user : Nat]
Work == [cmd : Copy, server : Server, live : BOOLEAN,
         stage : {"run", "ack"}]

NoStream == [gate |-> NoGate, user |-> NoUser]
Streams(g) == {b \in Browser : stream[b].gate = g}

Init ==
  /\ serving = [g \in Gate |-> "starting"]
  /\ connected = {}
  /\ channels = [g \in Gate |-> {}]
  /\ pending = [g \in Gate |-> {}]
  /\ outbox = [g \in Gate |-> {}]
  /\ http = [r \in Request |-> "none"]
  /\ given = [r \in Request |-> NoUser]
  /\ at = [r \in Request |-> NoGate]
  /\ commands = {}
  /\ copies = [r \in Request |-> 0]
  /\ work = {}
  /\ replies = [g \in Gate |-> <<>>]
  /\ accounts = [k \in Key |-> Accounts!NoAccount]
  /\ cookie = [b \in Browser |-> NoUser]
  /\ stream = [b \in Browser |-> NoStream]
  /\ seen = [b \in Browser |-> <<>>]
  /\ missed = {}
  /\ since = [b \in Browser |-> 0]
  /\ published = <<>>
  /\ events = [g \in Gate |-> <<>>]
  /\ moves = 0
  /\ faults = 0

Move(n) == moves + n <= MaxMoves /\ moves' = moves + n /\ UNCHANGED faults
Fault == faults < MaxFaults /\ faults' = faults + 1 /\ UNCHANGED moves
Bounds == UNCHANGED <<moves, faults>>

-------------------------------------------------------------------------------
(* onModuleInit of a gate, and its connection. *)

Connect(g) ==
  /\ g \notin connected
  /\ connected' = connected \cup {g}
  /\ UNCHANGED <<serving, channels, rpcVars, eventVars>> /\ Bounds

\* The set-up functions of the two channels declare and bind an exclusive
\* queue each and consume from it.
SetUp(g, channel) ==
  /\ g \in connected
  /\ channel \notin channels[g]
  /\ channels' = [channels EXCEPT ![g] = @ \cup {channel}]
  /\ UNCHANGED <<serving, connected, rpcVars, eventVars>> /\ Bounds

\* waitForConnect of the RPC channel, then of the events channel; the service
\* listens for HTTP after both.
Await(g) ==
  /\ \/ /\ serving[g] = "starting" /\ "rpc" \in channels[g]
        /\ serving' = [serving EXCEPT ![g] = "awaiting"]
     \/ /\ serving[g] = "awaiting" /\ "events" \in channels[g]
        /\ serving' = [serving EXCEPT ![g] = "serving"]
  /\ UNCHANGED <<connected, channels, rpcVars, eventVars>> /\ Bounds

\* Both exclusive queues are gone with what was in them.
Disconnected(g) ==
  /\ connected' = connected \ {g}
  /\ channels' = [channels EXCEPT ![g] = {}]
  /\ replies' = [replies EXCEPT ![g] = <<>>]
  /\ events' = [events EXCEPT ![g] = <<>>]

\* A copy of the command of r reaches its queue.
Enqueued(rs) ==
  /\ commands' = commands \cup {[req |-> r, copy |-> copies[r] + 1] : r \in rs}
  /\ copies' = [r \in Request |-> copies[r] + (IF r \in rs THEN 1 ELSE 0)]

\* Commands the broker has taken and not confirmed stay in the outbox.
LoseConnection(g) ==
  /\ Fault
  /\ g \in connected
  /\ Disconnected(g)
  /\ \E rs \in SUBSET outbox[g] :
       /\ rs # {} => "rpc" \in channels[g]
       /\ Enqueued(rs)
  /\ missed' = missed \cup Streams(g)
  /\ UNCHANGED <<serving, pending, outbox, http, given, at, work, accounts,
                 cookie, stream, seen, since, published>>

\* The streams of bs are closed.
Closed(bs) ==
  /\ stream' = [b \in Browser |-> IF b \in bs THEN NoStream ELSE stream[b]]
  /\ seen' = [b \in Browser |-> IF b \in bs THEN <<>> ELSE seen[b]]
  /\ since' = [b \in Browser |-> IF b \in bs THEN 0 ELSE since[b]]
  /\ missed' = missed \ bs

\* Nest is not told to listen to signals, so that onModuleDestroy does not run.
Crash(g) ==
  /\ Fault
  /\ serving[g] # "starting"
  /\ serving' = [serving EXCEPT ![g] = "starting"]
  /\ Disconnected(g)
  /\ pending' = [pending EXCEPT ![g] = {}]
  /\ outbox' = [outbox EXCEPT ![g] = {}]
  /\ http' = [r \in Request |-> IF r \in pending[g] THEN "cut" ELSE http[r]]
  /\ Closed(Streams(g))
  /\ UNCHANGED <<given, at, commands, copies, work, accounts, cookie, published>>

-------------------------------------------------------------------------------
(* POST /accounts: the RPC of the gate. *)

\* The header is missing or the body does not pass the validation pipe.
Reject(r) ==
  /\ Move(2)
  /\ http[r] = "none"
  /\ KeyOf[r] = NoKey
  /\ \E g \in Gate : serving[g] = "serving"
  /\ http' = [http EXCEPT ![r] = "BadRequest"]
  /\ UNCHANGED <<linkVars, pending, outbox, given, at, commands, copies, work,
                 replies, accounts, cookie, eventVars>>

\* sendRpc notes the request and hands its command to the channel.
SendRpc(r, g) ==
  /\ pending' = [pending EXCEPT ![g] = @ \cup {r}]
  /\ outbox' = [outbox EXCEPT ![g] = @ \cup {r}]

\* AccountService.create up to the promise of sendRpc.
Submit(r, g) ==
  /\ Move(2)
  /\ http[r] = "none"
  /\ KeyOf[r] # NoKey
  /\ serving[g] = "serving"
  /\ http' = [http EXCEPT ![r] = "waiting"]
  /\ at' = [at EXCEPT ![r] = g]
  /\ SendRpc(r, g)
  /\ UNCHANGED <<linkVars, given, commands, copies, work, replies, accounts,
                 cookie, eventVars>>

\* The channel is set up: the broker takes the command and confirms it.
Flush(g, r) ==
  /\ "rpc" \in channels[g]
  /\ r \in outbox[g]
  /\ outbox' = [outbox EXCEPT ![g] = @ \ {r}]
  /\ Enqueued({r})
  /\ UNCHANGED <<linkVars, pending, http, given, at, work, replies, accounts,
                 cookie, eventVars>> /\ Bounds

\* Mutant: the timer rejects the promise and leaves the entry of pendingRpc.
TimeOutLeaking(r) ==
  /\ http[r] = "waiting"
  /\ http' = [http EXCEPT ![r] = "InternalServerError"]
  /\ UNCHANGED <<linkVars, pending, outbox, given, at, commands, copies, work,
                 replies, accounts, cookie, eventVars>> /\ Bounds

\* The timer of sendRpc.  The command is not called back.
TimeOut(r) ==
  /\ http[r] = "waiting"
  /\ http' = [http EXCEPT ![r] = "InternalServerError"]
  /\ pending' = [pending EXCEPT ![at[r]] = @ \ {r}]
  /\ UNCHANGED <<linkVars, outbox, given, at, commands, copies, work, replies,
                 accounts, cookie, eventVars>> /\ Bounds

\* Mutant: any failure the switch does not name is taken for a success.
UnwrapLoose(result) ==
  IF result \in {"BadRequest", "Conflict"} THEN result ELSE "Created"

\* unwrapRpc: every other failure is a 502, that of status 500 too.
Unwrap(result) ==
  IF result \in {"Created", "BadRequest", "Conflict"} THEN result
                                                      ELSE "BadGateway"

\* The controller answers r with what was made of the reply, and sets a cookie
\* for the user of an account that was created.
Answered(r, reply) ==
  LET created == Unwrap(reply.result) = "Created" IN
  /\ http' = [http EXCEPT ![r] = Unwrap(reply.result)]
  /\ given' = IF created THEN [given EXCEPT ![r] = reply.user] ELSE given
  /\ cookie' = IF created THEN [cookie EXCEPT ![BrowserOf[r]] = reply.user]
                          ELSE cookie

\* Mutant: the reply resolves whoever waits.
OnRpcReplyToAnyone(g) ==
  LET r == CHOOSE any \in Request : any \in pending[g] \/ pending[g] = {} IN
  /\ replies[g] # <<>>
  /\ replies' = [replies EXCEPT ![g] = Tail(@)]
  /\ pending' = [pending EXCEPT ![g] = @ \ {r}]
  /\ IF pending[g] # {} THEN Answered(r, Head(replies[g]))
                        ELSE UNCHANGED <<http, given, cookie>>
  /\ UNCHANGED <<linkVars, outbox, at, commands, copies, work, accounts,
                 eventVars>> /\ Bounds

\* onRpcReply drops a reply nobody waits for.
OnRpcReply(g) ==
  LET r == Head(replies[g]).req IN
  /\ replies[g] # <<>>
  /\ replies' = [replies EXCEPT ![g] = Tail(@)]
  /\ pending' = [pending EXCEPT ![g] = @ \ {r}]
  /\ IF r \in pending[g] THEN Answered(r, Head(replies[g]))
                         ELSE UNCHANGED <<http, given, cookie>>
  /\ UNCHANGED <<linkVars, outbox, at, commands, copies, work, accounts,
                 eventVars>> /\ Bounds

-------------------------------------------------------------------------------
(* The bus of onboarding-service: onCommand, one step per await. *)

\* The connection of s is open and the set-up of its channel done: it consumes
\* commands.
ServerConnects(s) ==
  /\ s \notin connected
  /\ connected' = connected \cup {s}
  /\ UNCHANGED <<serving, channels, rpcVars, eventVars>> /\ Bounds

\* OnboardingService.create begins: a new key gets its row.
Deliver(s, cmd) ==
  LET k == KeyOf[cmd.req] IN
  /\ s \in connected
  /\ cmd \in commands
  /\ commands' = commands \ {cmd}
  /\ work' = work \cup {[cmd |-> cmd, server |-> s, live |-> TRUE,
                         stage |-> "run"]}
  /\ IF accounts[k] = Accounts!NoAccount
     THEN Accounts!Ask(k, PayloadOf[cmd.req]) ELSE UNCHANGED accounts
  /\ UNCHANGED <<linkVars, pending, outbox, http, given, at, copies, replies,
                 cookie, eventVars>> /\ Bounds

\* The service decides on an account, in the run of a command or in a recovery
\* pass of its own.
Decide(k) ==
  /\ \/ Accounts!Create(k, 1 + Cardinality({o \in Key : Accounts!Created(o)}))
     \/ Accounts!Refuse(k)
  /\ UNCHANGED <<work, linkVars, pending, outbox, http, given, at, commands,
                 copies, replies, cookie, eventVars>> /\ Bounds

\* The results handleCreateCommand may answer with: what the account has come
\* to (BadRequest stands for the problem of a refused one, whatever its status
\* below 500), that it is still being worked on or that the key is another
\* payload's (both 409), or that a service was out of reach (500 and above).
Outcomes(p, account) ==
  {"InternalServerError"} \cup
  IF account.payload # p \/ account.phase = "open" THEN {"Conflict"}
  ELSE IF account.phase = "refused" THEN {"BadRequest"} ELSE {"Created"}

\* publishResponse: to the reply queue of the gate that sent the command, if
\* there is one at this moment.
Routed(r, result, user) ==
  LET g == at[r] IN
  replies' = IF "rpc" \in channels[g]
             THEN [replies EXCEPT ![g] =
                     Append(@, [req |-> r, result |-> result, user |-> user])]
             ELSE replies

\* handleCreateCommand returns and its response is published, at once or when
\* the connection is back.  A service out of reach counts as a fault.
Respond(h, result) ==
  LET r == h.cmd.req
      account == accounts[KeyOf[r]]
  IN /\ h.stage = "run"
     /\ h.server \in connected
     /\ result \in Outcomes(PayloadOf[r], account)
     /\ Routed(r, result, IF result = "Created" THEN account.user ELSE NoUser)
     /\ work' = (work \ {h}) \cup {[h EXCEPT !.stage = "ack"]}
     /\ IF result = "InternalServerError" THEN Fault ELSE Bounds
     /\ UNCHANGED <<linkVars, pending, outbox, http, given, at, commands,
                    copies, accounts, cookie, eventVars>>

Acknowledge(h) ==
  /\ h.stage = "ack"
  /\ h.live
  /\ work' = work \ {h}
  /\ UNCHANGED <<linkVars, pending, outbox, http, given, at, commands, copies,
                 replies, accounts, cookie, eventVars>> /\ Bounds

\* The deliveries of s that are not acknowledged go back to their queue.
Unacknowledged(s) == {h.cmd : h \in {w \in work : w.server = s /\ w.live}}

\* The delivery came over a connection that is gone: ack throws, the catch
\* block publishes an internal error after the response and throws again, and
\* the rejection nobody handles ends the process.
AcknowledgeInVain(h) ==
  /\ h.stage = "ack"
  /\ ~h.live
  /\ h.server \in connected
  /\ Routed(h.cmd.req, "InternalServerError", NoUser)
  /\ commands' = commands \cup Unacknowledged(h.server)
  /\ work' = {w \in work : w.server # h.server}
  /\ connected' = connected \ {h.server}
  /\ UNCHANGED <<serving, channels, pending, outbox, http, given, at, copies,
                 accounts, cookie, eventVars>> /\ Bounds

\* The handlers of s run on, over deliveries that the broker gives out again.
ServerLosesConnection(s) ==
  /\ Fault
  /\ s \in connected
  /\ connected' = connected \ {s}
  /\ commands' = commands \cup Unacknowledged(s)
  /\ work' = {IF w.server = s THEN [w EXCEPT !.live = FALSE] ELSE w : w \in work}
  /\ UNCHANGED <<serving, channels, pending, outbox, http, given, at, copies,
                 replies, accounts, cookie, eventVars>>

-------------------------------------------------------------------------------
(* GET /events. *)

\* AuthGuard takes the cookie before the bearer token.
Subject(b, bearer) == IF cookie[b] # NoUser THEN cookie[b] ELSE bearer

Opened(b, g) ==
  /\ since' = [since EXCEPT ![b] = Len(published)]
  /\ missed' = IF "events" \in channels[g] THEN missed ELSE missed \cup {b}
  /\ UNCHANGED seen

\* Mutant: a request without a token is let through.
SubscribeAnyone(b, g, bearer) ==
  LET user == Subject(b, bearer) IN
  /\ serving[g] = "serving"
  /\ stream[b] = NoStream
  /\ stream' = [stream EXCEPT ![b] = [gate |-> g, user |-> user]]
  /\ Opened(b, g)
  /\ UNCHANGED <<linkVars, rpcVars, published, events>> /\ Bounds

\* The guard lets b in with the user of its token, and it is subscribed to the
\* one Subject of that user.
Subscribe(b, g, bearer) ==
  LET user == Subject(b, bearer) IN
  /\ serving[g] = "serving"
  /\ stream[b] = NoStream
  /\ user # NoUser
  /\ stream' = [stream EXCEPT ![b] = [gate |-> g, user |-> user]]
  /\ Opened(b, g)
  /\ UNCHANGED <<linkVars, rpcVars, published, events>> /\ Bounds

Leave(b) ==
  /\ stream[b] # NoStream
  /\ Closed({b})
  /\ UNCHANGED <<linkVars, rpcVars, published, events>> /\ Bounds

\* payment-service or membership-service publishes an event about user.
PublishEvent(user) ==
  /\ Move(1)
  /\ published' = Append(published, user)
  /\ events' = [g \in Gate |-> IF "events" \in channels[g]
                               THEN Append(events[g], Len(published'))
                               ELSE events[g]]
  /\ UNCHANGED <<linkVars, rpcVars, stream, seen, missed, since>>

\* The streams open for the user that event e names.
Listeners(g, e) == {b \in Streams(g) : stream[b].user = published[e]}

\* Mutant: an event goes to one of the streams of its user only.
OnEventOnce(g) ==
  LET e == Head(events[g]) IN
  /\ events[g] # <<>>
  /\ events' = [events EXCEPT ![g] = Tail(@)]
  /\ seen' = IF Listeners(g, e) = {} THEN seen
             ELSE [seen EXCEPT ![CHOOSE b \in Listeners(g, e) : TRUE] =
                     Append(@, e)]
  /\ UNCHANGED <<linkVars, rpcVars, stream, missed, since, published>>
  /\ Bounds

\* onEvent: next() of the Subject of the user; an event nobody listens to is
\* dropped.
OnEvent(g) ==
  LET e == Head(events[g]) IN
  /\ events[g] # <<>>
  /\ events' = [events EXCEPT ![g] = Tail(@)]
  /\ seen' = [b \in Browser |-> IF b \in Listeners(g, e) THEN Append(seen[b], e)
                                                        ELSE seen[b]]
  /\ UNCHANGED <<linkVars, rpcVars, stream, missed, since, published>>
  /\ Bounds

-------------------------------------------------------------------------------
Users == {accounts[k].user : k \in Key} \ {NoUser}

Next ==
  \/ \E g \in Gate :
       \/ \E channel \in Channel : SetUp(g, channel)
       \/ Connect(g) \/ Await(g) \/ LoseConnection(g) \/ Crash(g)
       \/ OnRpcReply(g) \/ OnEvent(g)
       \/ \E r \in Request : Submit(r, g) \/ Flush(g, r)
       \/ \E b \in Browser, bearer \in Users \cup {NoUser} :
            Subscribe(b, g, bearer)
  \/ \E r \in Request : Reject(r) \/ TimeOut(r)
  \/ \E s \in Server : \/ ServerConnects(s) \/ ServerLosesConnection(s)
                       \/ \E cmd \in commands : Deliver(s, cmd)
  \/ \E h \in work : \/ \E result \in Result : Respond(h, result)
                     \/ Acknowledge(h) \/ AcknowledgeInVain(h)
  \/ \E k \in Key : Decide(k)
  \/ \E b \in Browser : Leave(b)
  \/ \E user \in Users : PublishEvent(user)

Spec == Init /\ [][Next]_vars

-------------------------------------------------------------------------------
(* Properties. *)

TypeOK ==
  /\ serving \in [Gate -> {"starting", "awaiting", "serving"}]
  /\ connected \subseteq Gate \cup Server
  /\ channels \in [Gate -> SUBSET Channel]
  /\ pending \in [Gate -> SUBSET Request]
  /\ outbox \in [Gate -> SUBSET Request]
  /\ http \in [Request -> Answer]
  /\ given \in [Request -> Nat]
  /\ at \in [Request -> Gate \cup {NoGate}]
  /\ commands \subseteq Copy
  /\ copies \in [Request -> Nat]
  /\ work \subseteq Work
  /\ replies \in [Gate -> Seq(Reply)]
  /\ accounts \in [Key -> Accounts!Account]
  /\ cookie \in [Browser -> Nat]
  /\ stream \in [Browser -> {NoStream} \cup [gate : Gate, user : Nat \ {NoUser}]]
  /\ seen \in [Browser -> Seq(Nat)]
  /\ missed \subseteq Browser
  /\ since \in [Browser -> Nat]
  /\ published \in Seq(Nat)
  /\ events \in [Gate -> Seq(Nat)]
  /\ moves \in 0..MaxMoves
  /\ faults \in 0..MaxFaults

\* Whatever replies are late, lost, duplicated or followed by the internal
\* error of a failed acknowledgement: a browser told of success is given the
\* user of the account created for the key and the payload of its own request,
\* and one told of a bad request (with a key) has had its account refused.
AnswersMatch ==
  \A r \in Request : KeyOf[r] # NoKey =>
    LET account == accounts[KeyOf[r]] IN
    /\ http[r] = "Created" =>
         account = [phase |-> "created", payload |-> PayloadOf[r],
                    user |-> given[r]]
    /\ http[r] = "BadRequest" => account.phase = "refused"

\* pendingRpc holds exactly the requests that wait at this gate, so that it
\* cannot grow, and no second reply reaches a request that has been answered.
PendingIsAwaited ==
  \A g \in Gate : pending[g] = {r \in Request : http[r] = "waiting" /\ at[r] = g}

\* Event e is one b waits for: it was published after the stream of b was
\* opened, or after one that b has been or will be shown.
Due(b, line, e) == e > since[b] \/ \E i \in 1..Len(line) : line[i] < e

\* While its gate keeps its connection, a stream shows the events of its user
\* in the order they were published, each once, without a gap, and at the
\* latest from the first one that is published after the stream was opened.
\* What it has not shown yet waits in the queue of the gate.
StreamsHaveNoGaps ==
  \A b \in Browser : stream[b] # NoStream /\ b \notin missed =>
    LET line == seen[b] \o events[stream[b].gate] IN
    /\ \A i \in 1..Len(seen[b]) : /\ seen[b][i] \in 1..Len(published)
                                  /\ published[seen[b][i]] = stream[b].user
    /\ \A i, j \in 1..Len(line) : i < j => line[i] < line[j]
    /\ \A e \in 1..Len(published) :
         published[e] = stream[b].user /\ Due(b, line, e) =>
           \E i \in 1..Len(line) : line[i] = e

\* The browsers see AccountCreation: what they are told is true and stays so.
KeepsPromise == Accounts!Spec
================================================================================
