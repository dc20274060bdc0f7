----------------------------- MODULE GatewayProofs -----------------------------
(***************************************************************************)
(* Theorems about Gateway, for every set of gates, servers, browsers,      *)
(* requests and keys, and every bound on moves and faults, and their       *)
(* proofs.                                                                 *)
(*                                                                         *)
(* That a browser is told the truth about its account (AnswersMatch) is    *)
(* not inductive: the answer is written when a reply is consumed, long     *)
(* after the account was looked at.  RepliesMatch says the same of every   *)
(* reply still in a queue, and survives because the outcome of an account  *)
(* is final (OutcomesStay).                                                *)
(***************************************************************************)
EXTENDS Gateway, SequenceTheorems, FiniteSetTheorems, TLAPS

\* What result and user say about the account of r is true of these accounts.
Tells(book, r, result, user) ==
  /\ KeyOf[r] \in Key
  /\ result = "Created" =>
       book[KeyOf[r]] = [phase |-> "created", payload |-> PayloadOf[r],
                         user |-> user]
  /\ result = "BadRequest" => book[KeyOf[r]].phase = "refused"

\* The replies on their way tell the truth.
RepliesMatch ==
  \A g \in Gate : \A i \in 1..Len(replies[g]) :
    Tells(accounts, replies[g][i].req, replies[g][i].result, replies[g][i].user)

\* Only requests that have a key leave their gate.
Keyed ==
  /\ \A g \in Gate : \A r \in outbox[g] : KeyOf[r] \in Key
  /\ \A cmd \in commands : KeyOf[cmd.req] \in Key
  /\ \A h \in work : KeyOf[h.cmd.req] \in Key

\* An account nobody has asked for has no payload.
Unasked ==
  \A k \in Key : accounts[k].phase = "none" => accounts[k].payload = NoPayload

IInv == /\ TypeOK /\ Keyed /\ Unasked /\ PendingIsAwaited
        /\ RepliesMatch /\ AnswersMatch

\* Every proof below may use what is assumed of the constants.
USE RequestsAreTotal, SentinelsAreNoValues, BoundsAreNatural, KeysAreFinite

\* The actions that concern requests, commands, replies and accounts.
RpcStep ==
  \/ \E g \in Gate :
       \/ LoseConnection(g) \/ Crash(g) \/ OnRpcReply(g)
       \/ \E r \in Request : Submit(r, g) \/ Flush(g, r)
  \/ \E r \in Request : Reject(r) \/ TimeOut(r)
  \/ \E s \in Server : \/ ServerLosesConnection(s)
                       \/ \E cmd \in commands : Deliver(s, cmd)
  \/ \E h \in work : \/ \E result \in Result : Respond(h, result)
                     \/ Acknowledge(h) \/ AcknowledgeInVain(h)
  \/ \E k \in Key : Decide(k)

\* The others leave all of these alone.
LEMMA EveryRpcStep ==
  ASSUME [Next]_vars
  PROVE  RpcStep \/ UNCHANGED rpcVars
BY DEF Next, RpcStep, vars, Connect, SetUp, Await, OnEvent, Subscribe, Leave,
   PublishEvent, ServerConnects

-------------------------------------------------------------------------------
(* Type correctness. *)

\* Initially the types are right.
LEMMA InitType == Init => TypeOK
BY EmptySeq DEF Init, TypeOK, Answer, NoStream, NoUser, Accounts!Account, Accounts!NoAccount,
   Accounts!NoUser

\* The user that is next is a natural number above zero.
LEMMA NextUser ==
  1 + Cardinality({o \in Key : Accounts!Created(o)}) \in Nat \ {0}
  <1> DEFINE created == {o \in Key : Accounts!Created(o)}
  <1>1. IsFiniteSet(created)
    BY FS_Subset
  <1>2. Cardinality(created) \in Nat
    BY <1>1, FS_CardinalityType
  <1>3. QED
    BY <1>2

\* An account keeps its type, and its outcome.
LEMMA AccountsMove ==
  ASSUME TypeOK, RpcStep
  PROVE  /\ accounts' \in [Key -> Accounts!Account]
         /\ \A k \in Key : accounts[k].phase \in {"created", "refused"} =>
              accounts'[k] = accounts[k]
         /\ \A k \in Key : \/ accounts'[k] = accounts[k]
                          \/ accounts'[k].phase # "none"
  <1> USE DEF TypeOK
  <1>1. CASE UNCHANGED accounts
    BY <1>1
  <1>2. ASSUME NEW s \in Server, NEW cmd \in commands, Deliver(s, cmd)
        PROVE  /\ accounts' \in [Key -> Accounts!Account]
               /\ \A k \in Key : accounts[k].phase \in {"created", "refused"} =>
                    accounts'[k] = accounts[k]
               /\ \A k \in Key : \/ accounts'[k] = accounts[k]
                                \/ accounts'[k].phase # "none"
    <2>1. CASE UNCHANGED accounts
      BY <2>1
    <2>2. CASE Accounts!Ask(KeyOf[cmd.req], PayloadOf[cmd.req])
      <3>1. cmd.req \in Request
        BY DEF Copy
      <3>2. accounts' = [accounts EXCEPT ![KeyOf[cmd.req]] =
                           [phase |-> "open", payload |-> PayloadOf[cmd.req],
                            user |-> 0]]
        BY <2>2 DEF Accounts!Ask, Accounts!NoUser
      <3>3. accounts[KeyOf[cmd.req]].phase = "none"
        <4>1. accounts[KeyOf[cmd.req]] = Accounts!NoAccount
          BY <2>2 DEF Accounts!Ask
        <4>2. Accounts!NoAccount.phase = "none"
          BY DEF Accounts!NoAccount
        <4>3. QED
          BY <4>1, <4>2
      <3>4. [phase |-> "open", payload |-> PayloadOf[cmd.req], user |-> 0]
              \in Accounts!Account
        BY <3>1 DEF Accounts!Account
      <3>5. QED
        BY <3>2, <3>3, <3>4
    <2>3. QED
      BY <1>2, <2>1, <2>2 DEF Deliver
  <1>3. ASSUME NEW k \in Key, Decide(k)
        PROVE  /\ accounts' \in [Key -> Accounts!Account]
               /\ \A j \in Key : accounts[j].phase \in {"created", "refused"} =>
                    accounts'[j] = accounts[j]
               /\ \A j \in Key : \/ accounts'[j] = accounts[j]
                                \/ accounts'[j].phase # "none"
    <2>1. accounts[k] \in Accounts!Account
      OBVIOUS
    <2>2. PICK user \in Nat, phase \in {"created", "refused"} :
            /\ accounts[k].phase = "open"
            /\ accounts' = [accounts EXCEPT ![k] =
                 [phase |-> phase, payload |-> accounts[k].payload,
                  user |-> user]]
      <3>1. CASE Accounts!Refuse(k)
        <4>1. accounts[k].user \in Nat
          BY <2>1 DEF Accounts!Account
        <4>2. QED
          BY <3>1, <4>1 DEF Accounts!Refuse
      <3>2. CASE Accounts!Create(k, 1 + Cardinality({o \in Key : Accounts!Created(o)}))
        BY <3>2, NextUser DEF Accounts!Create
      <3>3. QED
        BY <1>3, <3>1, <3>2 DEF Decide
    <2>3. [phase |-> phase, payload |-> accounts[k].payload, user |-> user]
            \in Accounts!Account
      BY <2>1 DEF Accounts!Account
    <2>4. QED
      BY <2>2, <2>3
  <1>4. QED
    BY <1>1, <1>2, <1>3
       DEF RpcStep, LoseConnection, Crash, OnRpcReply, Submit, Flush, Reject,
           TimeOut, ServerLosesConnection, Respond, Acknowledge,
           AcknowledgeInVain

\* What is published to a queue of replies is a reply.
LEMMA RoutedReplies ==
  ASSUME replies \in [Gate -> Seq(Reply)],
         NEW r \in Request, NEW result \in Result, NEW user \in Nat,
         Routed(r, result, user)
  PROVE  replies' \in [Gate -> Seq(Reply)]
  <1>1. [req |-> r, result |-> result, user |-> user] \in Reply
    BY DEF Reply
  <1>2. \A g \in Gate :
          Append(replies[g], [req |-> r, result |-> result, user |-> user])
            \in Seq(Reply)
    BY <1>1, AppendProperties
  <1>3. QED
    BY <1>2 DEF Routed

\* A connection that is gone takes its queues with it.
LEMMA DisconnectedType ==
  ASSUME TypeOK, NEW g \in Gate, Disconnected(g)
  PROVE  /\ connected' \subseteq Gate \cup Server
         /\ channels' \in [Gate -> SUBSET Channel]
         /\ replies' \in [Gate -> Seq(Reply)]
         /\ events' \in [Gate -> Seq(Nat)]
  <1>1. <<>> \in Seq(Reply) /\ <<>> \in Seq(Nat)
    BY EmptySeq
  <1>2. QED
    BY <1>1 DEF TypeOK, Disconnected

\* A stream that is closed leaves nothing behind.
LEMMA ClosedType ==
  ASSUME TypeOK, NEW bs \in SUBSET Browser, Closed(bs)
  PROVE  /\ stream' \in [Browser ->
                {NoStream} \cup [gate : Gate, user : Nat \ {NoUser}]]
         /\ seen' \in [Browser -> Seq(Nat)]
         /\ missed' \subseteq Browser
         /\ since' \in [Browser -> Nat]
  <1>1. <<>> \in Seq(Nat)
    BY EmptySeq
  <1>2. QED
    BY <1>1 DEF TypeOK, Closed

\* A server that is gone gives its commands back.
LEMMA UnacknowledgedType ==
  ASSUME TypeOK, NEW s
  PROVE  Unacknowledged(s) \subseteq Copy
  <1>1. \A h \in Work : h.cmd \in Copy
    BY DEF Work
  <1>2. work \subseteq Work
    BY DEF TypeOK
  <1>3. QED
    BY <1>1, <1>2 DEF Unacknowledged

\* Its deliveries become those of a connection that is gone.
LEMMA CutType ==
  ASSUME NEW s, NEW works \in SUBSET Work
  PROVE  {IF w.server = s THEN [w EXCEPT !.live = FALSE] ELSE w : w \in works}
           \subseteq Work
  <1> DEFINE Cut(w) == IF w.server = s THEN [w EXCEPT !.live = FALSE] ELSE w
  <1>1. \A w \in Work : Cut(w) \in Work
    BY DEF Work
  <1> HIDE DEF Cut
  <1>2. {Cut(w) : w \in works} \subseteq Work
    BY <1>1
  <1>3. QED
    BY <1>2 DEF Cut

\* The users of accounts are numbers.
LEMMA UsersType ==
  ASSUME TypeOK
  PROVE  Users \subseteq Nat
  <1>1. \A k \in Key : accounts[k] \in Accounts!Account
    BY DEF TypeOK
  <1>2. \A k \in Key : accounts[k].user \in Nat
    BY <1>1 DEF Accounts!Account
  <1>3. QED
    BY <1>2 DEF Users

\* So is whoever opens a stream.
LEMMA SubjectType ==
  ASSUME TypeOK, NEW b \in Browser, NEW bearer, bearer \in Users \cup {NoUser}
  PROVE  Subject(b, bearer) \in Nat
  <1>1. bearer \in Nat
    BY UsersType DEF NoUser
  <1>2. cookie[b] \in Nat
    BY DEF TypeOK
  <1>3. QED
    BY <1>1, <1>2 DEF Subject

\* The copies of commands in their queue are known.
LEMMA EnqueuedCopies ==
  ASSUME commands \subseteq Copy, copies \in [Request -> Nat],
         NEW rs \in SUBSET Request, Enqueued(rs)
  PROVE  commands' \subseteq Copy /\ copies' \in [Request -> Nat]
BY DEF Enqueued, Copy

\* The counters of moves and faults stay within their bounds.
LEMMA Counted ==
  ASSUME moves \in 0..MaxMoves, faults \in 0..MaxFaults,
         Bounds \/ Fault \/ Move(1) \/ Move(2)
  PROVE  moves' \in 0..MaxMoves /\ faults' \in 0..MaxFaults
  <1>1. CASE Bounds
    BY <1>1 DEF Bounds
  <1>2. CASE Fault
    BY <1>2 DEF Fault
  <1>3. CASE Move(1)
    BY <1>3 DEF Move
  <1>4. CASE Move(2)
    BY <1>4 DEF Move
  <1>5. QED
    BY <1>1, <1>2, <1>3, <1>4

LEMMA StepCounted ==
  ASSUME TypeOK, Next
  PROVE  moves' \in 0..MaxMoves /\ faults' \in 0..MaxFaults
  <1>1. Bounds \/ Fault \/ Move(1) \/ Move(2)
    BY DEF Next, Connect, SetUp, Await, LoseConnection, Crash, OnRpcReply,
       OnEvent, Submit, Flush, Subscribe, Reject, TimeOut, ServerConnects,
       ServerLosesConnection, Deliver, Respond, Acknowledge, AcknowledgeInVain,
       Decide, Leave, PublishEvent
  <1>2. QED
    BY <1>1, Counted DEF TypeOK

\* Every step of a request, a command, a reply or an account keeps the types.
LEMMA RpcType ==
  ASSUME TypeOK, Keyed, RpcStep,
         moves' \in 0..MaxMoves, faults' \in 0..MaxFaults
  PROVE  TypeOK'
  <1> USE DEF TypeOK, linkVars, eventVars
  <1>1. accounts' \in [Key -> Accounts!Account]
    BY AccountsMove
  <1>2. ASSUME NEW g \in Gate, LoseConnection(g)
        PROVE  TypeOK'
    <2>1. PICK rs \in SUBSET outbox[g] : Enqueued(rs)
      BY <1>2 DEF LoseConnection
    <2>2. commands' \subseteq Copy /\ copies' \in [Request -> Nat]
      BY <2>1, EnqueuedCopies
    <2>3. /\ connected' \subseteq Gate \cup Server
          /\ channels' \in [Gate -> SUBSET Channel]
          /\ replies' \in [Gate -> Seq(Reply)]
          /\ events' \in [Gate -> Seq(Nat)]
      BY <1>2, DisconnectedType DEF LoseConnection
    <2>4. missed' \subseteq Browser
      BY <1>2 DEF LoseConnection, Streams
    <2>5. UNCHANGED <<serving, pending, outbox, http, given, at, work, accounts,
                      cookie, stream, seen, since, published>>
      BY <1>2 DEF LoseConnection
    <2>6. QED
      BY <2>2, <2>3, <2>4, <2>5
  <1>3. ASSUME NEW g \in Gate, Crash(g)
        PROVE  TypeOK'
    <2>1. /\ connected' \subseteq Gate \cup Server
          /\ channels' \in [Gate -> SUBSET Channel]
          /\ replies' \in [Gate -> Seq(Reply)]
          /\ events' \in [Gate -> Seq(Nat)]
      BY <1>3, DisconnectedType DEF Crash
    <2>2. Streams(g) \in SUBSET Browser
      BY DEF Streams
    <2>3. /\ stream' \in [Browser ->
                 {NoStream} \cup [gate : Gate, user : Nat \ {NoUser}]]
          /\ seen' \in [Browser -> Seq(Nat)]
          /\ missed' \subseteq Browser
          /\ since' \in [Browser -> Nat]
      BY <1>3, <2>2, ClosedType DEF Crash
    <2>4. http' \in [Request -> Answer]
      BY <1>3 DEF Crash, Answer
    <2>5. /\ serving' \in [Gate -> {"starting", "awaiting", "serving"}]
          /\ pending' \in [Gate -> SUBSET Request]
          /\ outbox' \in [Gate -> SUBSET Request]
      BY <1>3 DEF Crash
    <2>6. UNCHANGED <<given, at, commands, copies, work, accounts, cookie,
                      published>>
      BY <1>3 DEF Crash
    <2>7. QED
      BY <2>1, <2>3, <2>4, <2>5, <2>6
  <1>4. ASSUME NEW g \in Gate, OnRpcReply(g)
        PROVE  TypeOK'
    <2>1. /\ Head(replies[g]) \in Reply
          /\ Tail(replies[g]) \in Seq(Reply)
      <3>1. replies[g] \in Seq(Reply) /\ replies[g] # <<>>
        BY <1>4 DEF OnRpcReply
      <3>2. QED
        BY <3>1, HeadTailProperties
    <2>2. /\ http' \in [Request -> Answer]
          /\ given' \in [Request -> Nat]
          /\ cookie' \in [Browser -> Nat]
      BY <1>4, <2>1 DEF OnRpcReply, Answered, Unwrap, Answer, Result, Reply
    <2>3. QED
      BY <1>1, <1>4, <2>1, <2>2 DEF OnRpcReply
  <1>5. ASSUME NEW g \in Gate, NEW r \in Request, Submit(r, g)
        PROVE  TypeOK'
    BY <1>1, <1>5 DEF Submit, SendRpc, Answer
  <1>6. ASSUME NEW g \in Gate, NEW r \in Request, Flush(g, r)
        PROVE  TypeOK'
    <2>1. commands' \subseteq Copy /\ copies' \in [Request -> Nat]
      BY <1>6, EnqueuedCopies DEF Flush
    <2>2. QED
      BY <1>1, <1>6, <2>1 DEF Flush
  <1>7. ASSUME NEW r \in Request, Reject(r) \/ TimeOut(r)
        PROVE  TypeOK'
    <2>1. http' \in [Request -> Answer]
      BY <1>7 DEF Reject, TimeOut, Answer, Result
    <2>2. pending' \in [Gate -> SUBSET Request]
      <3>1. CASE Reject(r)
        BY <3>1 DEF Reject
      <3>2. CASE TimeOut(r)
        BY <3>2 DEF TimeOut
      <3>3. QED
        BY <1>7, <3>1, <3>2
    <2>3. UNCHANGED <<serving, connected, channels, outbox, given, at, commands,
                      copies, work, replies, accounts, cookie, stream, seen,
                      missed, since, published, events>>
      BY <1>7 DEF Reject, TimeOut
    <2>4. QED
      BY <2>1, <2>2, <2>3
  <1>8. ASSUME NEW s \in Server, ServerLosesConnection(s)
        PROVE  TypeOK'
    <2>1. commands' \subseteq Copy
      BY <1>8, UnacknowledgedType DEF ServerLosesConnection
    <2>2. work' \subseteq Work
      BY <1>8, CutType DEF ServerLosesConnection
    <2>3. connected' \subseteq Gate \cup Server
      BY <1>8 DEF ServerLosesConnection
    <2>4. UNCHANGED <<serving, channels, pending, outbox, http, given, at,
                      copies, replies, accounts, cookie, stream, seen, missed,
                      since, published, events>>
      BY <1>8 DEF ServerLosesConnection
    <2>5. QED
      BY <2>1, <2>2, <2>3, <2>4
  <1>9. ASSUME NEW s \in Server, NEW cmd \in commands, Deliver(s, cmd)
        PROVE  TypeOK'
    <2>1. [cmd |-> cmd, server |-> s, live |-> TRUE, stage |-> "run"] \in Work
      BY DEF Work
    <2>2. commands' \subseteq Copy /\ work' \subseteq Work
      BY <1>9, <2>1 DEF Deliver
    <2>3. UNCHANGED <<serving, connected, channels, pending, outbox, http,
                      given, at, copies, replies, cookie, stream, seen, missed,
                      since, published, events>>
      BY <1>9 DEF Deliver
    <2>4. QED
      BY <1>1, <2>2, <2>3
  <1>10. ASSUME NEW h \in work, NEW result \in Result, Respond(h, result)
         PROVE  TypeOK'
    <2>1. h.cmd.req \in Request /\ [h EXCEPT !.stage = "ack"] \in Work
      <3>1. h \in Work
        OBVIOUS
      <3>2. QED
        BY <3>1 DEF Work, Copy
    <2>2. accounts[KeyOf[h.cmd.req]].user \in Nat
      <3>1. KeyOf[h.cmd.req] \in Key
        BY DEF Keyed
      <3>2. accounts[KeyOf[h.cmd.req]] \in Accounts!Account
        BY <3>1
      <3>3. QED
        BY <3>2 DEF Accounts!Account
    <2>3. replies' \in [Gate -> Seq(Reply)]
      <3> DEFINE user == IF result = "Created"
                         THEN accounts[KeyOf[h.cmd.req]].user ELSE NoUser
      <3>1. user \in Nat
        BY <2>2 DEF NoUser
      <3>2. Routed(h.cmd.req, result, user)
        BY <1>10 DEF Respond
      <3>3. QED
        BY <2>1, <3>1, <3>2, RoutedReplies
    <2>4. work' \subseteq Work
      BY <1>10, <2>1 DEF Respond
    <2>5. UNCHANGED <<serving, connected, channels, pending, outbox, http,
                      given, at, commands, copies, accounts, cookie, stream,
                      seen, missed, since, published, events>>
      BY <1>10 DEF Respond
    <2>6. QED
      BY <2>3, <2>4, <2>5
  <1>11. ASSUME NEW h \in work, Acknowledge(h)
         PROVE  TypeOK'
    BY <1>1, <1>11 DEF Acknowledge
  <1>12. ASSUME NEW h \in work, AcknowledgeInVain(h)
         PROVE  TypeOK'
    <2>1. h.cmd.req \in Request
      BY DEF Work, Copy
    <2>2. replies' \in [Gate -> Seq(Reply)]
      BY <1>12, <2>1, RoutedReplies DEF AcknowledgeInVain, NoUser, Result
    <2>3. commands' \subseteq Copy
      BY <1>12, UnacknowledgedType DEF AcknowledgeInVain
    <2>4. connected' \subseteq Gate \cup Server /\ work' \subseteq Work
      BY <1>12 DEF AcknowledgeInVain
    <2>5. UNCHANGED <<serving, channels, pending, outbox, http, given, at,
                      copies, accounts, cookie, stream, seen, missed, since,
                      published, events>>
      BY <1>12 DEF AcknowledgeInVain
    <2>6. QED
      BY <2>2, <2>3, <2>4, <2>5
  <1>13. ASSUME NEW k \in Key, Decide(k)
         PROVE  TypeOK'
    BY <1>1, <1>13 DEF Decide
  <1>14. QED
    BY <1>2, <1>3, <1>4, <1>5, <1>6, <1>7, <1>8, <1>9, <1>10, <1>11, <1>12,
       <1>13 DEF RpcStep

\* So do the steps of connections and events.
LEMMA StepType ==
  ASSUME TypeOK, Keyed, [Next]_vars
  PROVE  TypeOK'
  <1>1. CASE UNCHANGED vars
    BY <1>1 DEF vars, TypeOK, linkVars, rpcVars, eventVars
  <1> SUFFICES ASSUME Next
               PROVE  TypeOK'
    BY <1>1
  <1>2. moves' \in 0..MaxMoves /\ faults' \in 0..MaxFaults
    BY StepCounted
  <1>3. CASE RpcStep
    BY <1>2, <1>3, RpcType
  <1> USE <1>2 DEF TypeOK, linkVars, rpcVars, eventVars
  <1>4. ASSUME NEW g \in Gate, Connect(g)
        PROVE  TypeOK'
    BY <1>4 DEF Connect
  <1>5. ASSUME NEW g \in Gate, Await(g)
        PROVE  TypeOK'
    BY <1>5 DEF Await
  <1>6. ASSUME NEW g \in Gate, NEW channel \in Channel, SetUp(g, channel)
        PROVE  TypeOK'
    BY <1>6 DEF SetUp
  <1>7. ASSUME NEW s \in Server, ServerConnects(s)
        PROVE  TypeOK'
    BY <1>7 DEF ServerConnects
  <1>8. ASSUME NEW g \in Gate, OnEvent(g)
        PROVE  TypeOK'
    <2>1. events[g] \in Seq(Nat) /\ events[g] # <<>>
      BY <1>8 DEF OnEvent
    <2>2. Head(events[g]) \in Nat /\ Tail(events[g]) \in Seq(Nat)
      BY <2>1, HeadTailProperties
    <2>3. events' \in [Gate -> Seq(Nat)]
      BY <1>8, <2>2 DEF OnEvent
    <2>4. \A b \in Browser : Append(seen[b], Head(events[g])) \in Seq(Nat)
      BY <2>2, AppendProperties
    <2>5. seen' \in [Browser -> Seq(Nat)]
      BY <1>8, <2>4 DEF OnEvent
    <2>6. UNCHANGED <<linkVars, rpcVars, stream, missed, since, published>>
      BY <1>8 DEF OnEvent
    <2>7. QED
      BY <2>3, <2>5, <2>6
  <1>9. ASSUME NEW g \in Gate, NEW b \in Browser,
               NEW bearer, bearer \in Users \cup {NoUser},
               Subscribe(b, g, bearer)
        PROVE  TypeOK'
    <2>2. Subject(b, bearer) \in Nat
      BY <1>9, SubjectType
    <2>3. [gate |-> g, user |-> Subject(b, bearer)]
            \in [gate : Gate, user : Nat \ {NoUser}]
      BY <1>9, <2>2 DEF Subscribe
    <2>4. stream' \in [Browser ->
                {NoStream} \cup [gate : Gate, user : Nat \ {NoUser}]]
      BY <1>9, <2>3 DEF Subscribe
    <2>5. Len(published) \in Nat
      BY LenProperties
    <2>6. /\ since' \in [Browser -> Nat]
          /\ missed' \subseteq Browser
      BY <1>9, <2>5 DEF Subscribe, Opened
    <2>7. UNCHANGED <<linkVars, rpcVars, seen, published, events>>
      BY <1>9 DEF Subscribe, Opened
    <2>8. QED
      BY <2>4, <2>6, <2>7
  <1>10. ASSUME NEW b \in Browser, Leave(b)
         PROVE  TypeOK'
    <2>1. /\ stream' \in [Browser ->
                 {NoStream} \cup [gate : Gate, user : Nat \ {NoUser}]]
          /\ seen' \in [Browser -> Seq(Nat)]
          /\ missed' \subseteq Browser
          /\ since' \in [Browser -> Nat]
      BY <1>10, ClosedType DEF Leave
    <2>2. UNCHANGED <<linkVars, rpcVars, published, events>>
      BY <1>10 DEF Leave
    <2>3. QED
      BY <2>1, <2>2
  <1>11. ASSUME NEW user \in Users, PublishEvent(user)
         PROVE  TypeOK'
    <2>1. user \in Nat
      BY UsersType
    <2>3. published' \in Seq(Nat)
      BY <1>11, <2>1, AppendProperties DEF PublishEvent
    <2>4. Len(published') \in Nat
      BY <2>3, LenProperties
    <2>5. \A g \in Gate : Append(events[g], Len(published')) \in Seq(Nat)
      BY <2>4, AppendProperties
    <2>6. events' \in [Gate -> Seq(Nat)]
      BY <1>11, <2>5 DEF PublishEvent
    <2>7. UNCHANGED <<linkVars, rpcVars, stream, seen, missed, since>>
      BY <1>11 DEF PublishEvent
    <2>8. QED
      BY <2>3, <2>6, <2>7
  <1>12. QED
    BY <1>3, <1>4, <1>5, <1>6, <1>7, <1>8, <1>9, <1>10, <1>11 DEF Next, RpcStep

-------------------------------------------------------------------------------
(* What is on its way, and who waits for it. *)

\* Initially nothing is on its way.
LEMMA InitInv == Init => IInv
  <1> SUFFICES ASSUME Init
               PROVE  IInv
    OBVIOUS
  <1>1. TypeOK
    BY InitType
  <1>2. Keyed /\ PendingIsAwaited
    BY DEF Init, Keyed, PendingIsAwaited
  <1>5. Unasked
    BY DEF Init, Unasked, Accounts!NoAccount
  <1>3. RepliesMatch
    BY DEF Init, RepliesMatch
  <1>4. AnswersMatch
    BY DEF Init, AnswersMatch
  <1>6. QED
    BY <1>1, <1>2, <1>3, <1>4, <1>5 DEF IInv

\* A request without a key is rejected at the gate.
LEMMA StepKeyed ==
  ASSUME TypeOK, Keyed, [Next]_vars
  PROVE  Keyed'
  <1> USE DEF Keyed
  <1>1. CASE UNCHANGED rpcVars
    BY <1>1 DEF rpcVars
  <1>2. ASSUME NEW g \in Gate, LoseConnection(g)
        PROVE  Keyed'
    BY <1>2 DEF LoseConnection, Enqueued
  <1>3. ASSUME NEW g \in Gate, NEW r \in Request, Flush(g, r)
        PROVE  Keyed'
    BY <1>3 DEF Flush, Enqueued, eventVars
  <1>4. ASSUME NEW g \in Gate, NEW r \in Request, Submit(r, g)
        PROVE  Keyed'
    BY <1>4 DEF Submit, SendRpc
  <1>5. ASSUME NEW s \in Server, NEW cmd \in commands, Deliver(s, cmd)
        PROVE  Keyed'
    BY <1>5 DEF Deliver
  <1>6. ASSUME NEW s \in Server, ServerLosesConnection(s)
        PROVE  Keyed'
    <2> DEFINE Cut(w) == IF w.server = s THEN [w EXCEPT !.live = FALSE] ELSE w
    <2>1. \A h \in Work : [h EXCEPT !.live = FALSE].cmd = h.cmd
      BY DEF Work
    <2>2. \A h \in work : Cut(h).cmd = h.cmd
      BY <2>1 DEF TypeOK
    <2>3. \A h \in work' : KeyOf[h.cmd.req] \in Key
      <3>1. work' = {Cut(h) : h \in work}
        BY <1>6 DEF ServerLosesConnection
      <3> HIDE DEF Cut
      <3>2. QED
        BY <2>2, <3>1
    <2>4. \A cmd \in commands' : KeyOf[cmd.req] \in Key
      BY <1>6 DEF ServerLosesConnection, Unacknowledged
    <2>5. QED
      BY <1>6, <2>3, <2>4 DEF ServerLosesConnection
  <1>7. ASSUME NEW h \in work, NEW result \in Result, Respond(h, result)
        PROVE  Keyed'
    <2>1. [h EXCEPT !.stage = "ack"].cmd = h.cmd
      <3>1. h \in Work
        BY DEF TypeOK
      <3>2. QED
        BY <3>1 DEF Work
    <2>2. QED
      BY <1>7, <2>1 DEF Respond
  <1>8. ASSUME NEW h \in work, Acknowledge(h) \/ AcknowledgeInVain(h)
        PROVE  Keyed'
    BY <1>8 DEF Acknowledge, AcknowledgeInVain, Unacknowledged
  <1>9. ASSUME NEW g \in Gate, Crash(g) \/ OnRpcReply(g)
        PROVE  Keyed'
    <2>1. CASE Crash(g)
      BY <2>1 DEF Crash
    <2>2. CASE OnRpcReply(g)
      BY <2>2 DEF OnRpcReply
    <2>3. QED
      BY <1>9, <2>1, <2>2
  <1>10. ASSUME NEW r \in Request, Reject(r) \/ TimeOut(r)
         PROVE  Keyed'
    BY <1>10 DEF Reject, TimeOut
  <1>11. ASSUME NEW k \in Key, Decide(k)
         PROVE  Keyed'
    BY <1>11 DEF Decide
  <1>12. QED
    BY <1>1, <1>2, <1>3, <1>4, <1>5, <1>6, <1>7, <1>8, <1>9, <1>10, <1>11,
       EveryRpcStep DEF RpcStep

\* Whoever is answered leaves pendingRpc, and nobody else does.
LEMMA StepPending ==
  ASSUME TypeOK, PendingIsAwaited, [Next]_vars
  PROVE  PendingIsAwaited'
  <1> USE DEF PendingIsAwaited
  <1>0. /\ pending \in [Gate -> SUBSET Request]
        /\ http \in [Request -> Answer]
        /\ at \in [Request -> Gate \cup {NoGate}]
    BY DEF TypeOK
  <1>1. CASE UNCHANGED <<pending, http, at>>
    BY <1>1
  <1>2. ASSUME NEW g \in Gate, Crash(g)
        PROVE  PendingIsAwaited'
    BY <1>2 DEF Crash, TypeOK
  <1>3. ASSUME NEW g \in Gate, OnRpcReply(g)
        PROVE  PendingIsAwaited'
    <2> DEFINE m == Head(replies[g])
    <2>1. pending' = [pending EXCEPT ![g] = @ \ {m.req}] /\ at' = at
      BY <1>3 DEF OnRpcReply
    <2>2. CASE m.req \in pending[g]
      <3>1. Unwrap(m.result) # "waiting"
        BY DEF Unwrap
      <3>2. http' = [http EXCEPT ![m.req] = Unwrap(m.result)]
        BY <1>3, <2>2 DEF OnRpcReply, Answered
      <3> HIDE DEF m
      <3>3. \A r \in Request : http'[r] = "waiting" <=>
                              http[r] = "waiting" /\ r # m.req
        BY <2>2, <3>1, <3>2, <1>0
      <3>4. ASSUME NEW o \in Gate, NEW r
            PROVE  r \in pending'[o] <=>
                     r \in {q \in Request : http'[q] = "waiting" /\ at'[q] = o}
        <4>1. at[m.req] = g
          BY <2>2
        <4>2. r \in pending'[o] <=> r \in pending[o] /\ r # m.req
          BY <2>1, <4>1, <1>0
        <4>3. QED
          BY <2>1, <3>3, <4>2
      <3>5. QED
        BY <3>4
    <2>3. CASE m.req \notin pending[g]
      <3>1. http' = http
        BY <1>3, <2>3 DEF OnRpcReply
      <3> HIDE DEF m
      <3>2. pending' = pending
        BY <2>1, <2>3, <1>0
      <3>3. QED
        BY <1>1, <2>1, <3>1, <3>2
    <2>4. QED
      BY <2>2, <2>3
  <1>4. ASSUME NEW g \in Gate, NEW r \in Request, Submit(r, g)
        PROVE  PendingIsAwaited'
    <2>1. /\ http' = [http EXCEPT ![r] = "waiting"]
          /\ at' = [at EXCEPT ![r] = g]
          /\ pending' = [pending EXCEPT ![g] = @ \cup {r}]
          /\ http[r] = "none"
      BY <1>4 DEF Submit, SendRpc
    <2>2. ASSUME NEW o \in Gate, NEW q
          PROVE  q \in pending'[o] <=>
                   q \in {p \in Request : http'[p] = "waiting" /\ at'[p] = o}
      <3>1. CASE q = r
        BY <2>1, <3>1, <1>0
      <3>2. CASE q # r
        BY <2>1, <3>2, <1>0
      <3>3. QED
        BY <3>1, <3>2
    <2>3. QED
      BY <2>2
  <1>5. ASSUME NEW r \in Request, Reject(r)
        PROVE  PendingIsAwaited'
    BY <1>5 DEF Reject, TypeOK
  <1>6. ASSUME NEW r \in Request, TimeOut(r)
        PROVE  PendingIsAwaited'
    <2>1. /\ http' = [http EXCEPT ![r] = "InternalServerError"]
          /\ pending' = [pending EXCEPT ![at[r]] = @ \ {r}]
          /\ http[r] = "waiting" /\ at' = at
      BY <1>6 DEF TimeOut
    <2>2. ASSUME NEW o \in Gate, NEW q
          PROVE  q \in pending'[o] <=>
                   q \in {p \in Request : http'[p] = "waiting" /\ at'[p] = o}
      <3>1. CASE q = r
        BY <2>1, <3>1, <1>0
      <3>2. CASE q # r
        BY <2>1, <3>2, <1>0
      <3>3. QED
        BY <3>1, <3>2
    <2>3. QED
      BY <2>2
  <1>7. QED
    <2>1. CASE UNCHANGED rpcVars
      BY <1>1, <2>1 DEF rpcVars
    <2>2. CASE RpcStep
      BY <1>1, <1>2, <1>3, <1>4, <1>5, <1>6, <2>2
         DEF RpcStep, LoseConnection, Flush, ServerLosesConnection, Deliver,
             Respond, Acknowledge, AcknowledgeInVain, Decide
    <2>3. QED
      BY <2>1, <2>2, EveryRpcStep

-------------------------------------------------------------------------------
(* What replies and answers tell of accounts stays true. *)

\* An outcome is final, a payload given with a request is never taken back.
LEMMA OutcomesStay ==
  ASSUME TypeOK, [Next]_vars
  PROVE  /\ \A k \in Key : accounts[k].phase \in {"created", "refused"} =>
              accounts'[k] = accounts[k]
         /\ \A k \in Key : \/ accounts'[k] = accounts[k]
                          \/ accounts'[k].phase # "none"
  <1>1. CASE RpcStep
    BY <1>1, AccountsMove
  <1>2. CASE UNCHANGED rpcVars
    BY <1>2 DEF rpcVars
  <1>3. QED
    BY <1>1, <1>2, EveryRpcStep

LEMMA StepUnasked ==
  ASSUME TypeOK, Unasked, [Next]_vars
  PROVE  Unasked'
BY OutcomesStay DEF Unasked

LEMMA TellsStays ==
  ASSUME TypeOK, [Next]_vars, NEW r, NEW result, NEW user,
         Tells(accounts, r, result, user)
  PROVE  Tells(accounts', r, result, user)
  <1>1. KeyOf[r] \in Key
    BY DEF Tells
  <1>2. ASSUME result = "Created"
        PROVE  accounts'[KeyOf[r]] = [phase |-> "created",
                                      payload |-> PayloadOf[r], user |-> user]
    <2>1. accounts[KeyOf[r]] = [phase |-> "created", payload |-> PayloadOf[r],
                                user |-> user]
      BY <1>2 DEF Tells
    <2>2. accounts[KeyOf[r]].phase = "created"
      BY <2>1
    <2>3. accounts'[KeyOf[r]] = accounts[KeyOf[r]]
      BY <1>1, <2>2, OutcomesStay
    <2>4. QED
      BY <2>1, <2>3
  <1>3. ASSUME result = "BadRequest"
        PROVE  accounts'[KeyOf[r]].phase = "refused"
    <2>1. accounts[KeyOf[r]].phase = "refused"
      BY <1>3 DEF Tells
    <2>2. QED
      BY <1>1, <2>1, OutcomesStay
  <1>4. QED
    BY <1>1, <1>2, <1>3 DEF Tells

\* What handleCreateCommand may answer with is true when it is answered.
LEMMA OutcomesTell ==
  ASSUME TypeOK, Unasked, NEW r \in Request, KeyOf[r] \in Key, NEW result,
         result \in Outcomes(PayloadOf[r], accounts[KeyOf[r]])
  PROVE  Tells(accounts, r, result,
               IF result = "Created" THEN accounts[KeyOf[r]].user ELSE NoUser)
  <1> DEFINE account == accounts[KeyOf[r]]
  <1>1. account \in Accounts!Account
    BY DEF TypeOK
  <1>2. ASSUME result = "Created"
        PROVE  account = [phase |-> "created", payload |-> PayloadOf[r],
                          user |-> account.user]
    <2>1. account.payload = PayloadOf[r] /\ account.phase \notin {"open", "refused"}
      BY <1>2 DEF Outcomes
    <2>2. account.phase # "none"
      BY <2>1 DEF Unasked
    <2>3. account.phase = "created"
      BY <1>1, <2>1, <2>2 DEF Accounts!Account
    <2>4. QED
      BY <1>1, <2>1, <2>3 DEF Accounts!Account
  <1>3. ASSUME result = "BadRequest"
        PROVE  account.phase = "refused"
    BY <1>3 DEF Outcomes
  <1>4. QED
    BY <1>2, <1>3 DEF Tells

\* A queue to which a true reply is added has true replies.
LEMMA RoutedMatches ==
  ASSUME TypeOK, RepliesMatch, accounts' = accounts,
         NEW r, NEW result, NEW user,
         Tells(accounts, r, result, user), Routed(r, result, user)
  PROVE  RepliesMatch'
  <1> DEFINE m == [req |-> r, result |-> result, user |-> user]
  <1> SUFFICES ASSUME NEW g \in Gate, NEW i \in 1..Len(replies'[g])
               PROVE  Tells(accounts, replies'[g][i].req,
                            replies'[g][i].result, replies'[g][i].user)
    BY DEF RepliesMatch
  <1>1. replies[g] \in Seq(Reply)
    BY DEF TypeOK
  <1>2. replies'[g] = replies[g] \/ replies'[g] = Append(replies[g], m)
    BY DEF Routed, TypeOK
  <1>3. CASE i \in 1..Len(replies[g])
    <2>1. replies'[g][i] = replies[g][i]
      BY <1>1, <1>2, <1>3
    <2>2. QED
      BY <1>3, <2>1 DEF RepliesMatch
  <1>4. CASE i \notin 1..Len(replies[g])
    <2>1. replies'[g][i] = m
      BY <1>1, <1>2, <1>4
    <2>2. m.req = r /\ m.result = result /\ m.user = user
      OBVIOUS
    <2>3. QED
      BY <2>1, <2>2
  <1>5. QED
    BY <1>3, <1>4

\* Replies stay true while they wait to be consumed.
LEMMA StepReplies ==
  ASSUME TypeOK, Keyed, Unasked, RepliesMatch, [Next]_vars
  PROVE  RepliesMatch'
  <1>1. ASSUME \A g \in Gate : \A i \in 1..Len(replies'[g]) :
                 \E j \in 1..Len(replies[g]) : replies'[g][i] = replies[g][j]
        PROVE  RepliesMatch'
    <2>1. ASSUME NEW g \in Gate, NEW i \in 1..Len(replies'[g])
          PROVE  Tells(accounts', replies'[g][i].req, replies'[g][i].result,
                       replies'[g][i].user)
      <3>1. PICK j \in 1..Len(replies[g]) : replies'[g][i] = replies[g][j]
        BY <1>1
      <3>2. PICK m : m = replies[g][j]
        OBVIOUS
      <3>3. Tells(accounts, m.req, m.result, m.user)
        BY <3>2 DEF RepliesMatch
      <3>4. Tells(accounts', m.req, m.result, m.user)
        BY <3>3, TellsStays
      <3>5. QED
        BY <3>1, <3>2, <3>4 DEF Tells
    <2>2. QED
      BY <2>1 DEF RepliesMatch, Tells
  <1>2. CASE UNCHANGED replies
    BY <1>1, <1>2
  <1>3. ASSUME NEW g \in Gate, Disconnected(g)
        PROVE  RepliesMatch'
    <2>1. \A o \in Gate : replies'[o] = replies[o] \/ replies'[o] = <<>>
      BY <1>3 DEF Disconnected, TypeOK
    <2>2. QED
      BY <1>1, <2>1
  <1>4. ASSUME NEW g \in Gate, OnRpcReply(g)
        PROVE  RepliesMatch'
    <2>1. replies' = [replies EXCEPT ![g] = Tail(@)] /\ replies[g] # <<>>
      BY <1>4 DEF OnRpcReply
    <2>2. replies \in [Gate -> Seq(Reply)]
      BY DEF TypeOK
    <2>3. ASSUME NEW o \in Gate, NEW i \in 1..Len(replies'[o])
          PROVE  \E j \in 1..Len(replies[o]) : replies'[o][i] = replies[o][j]
      <3>1. CASE o = g
        <4>1. replies'[g] = Tail(replies[g])
          BY <2>1, <2>2
        <4>2. i \in 1..(Len(replies[g]) - 1) /\ replies'[g][i] = replies[g][i + 1]
          BY <2>1, <2>2, <2>3, <3>1, <4>1
        <4>3. i + 1 \in 1..Len(replies[g])
          BY <2>2, <4>2
        <4>4. QED
          BY <3>1, <4>2, <4>3
      <3>2. CASE o # g
        <4>1. replies'[o] = replies[o]
          BY <2>1, <2>2, <3>2
        <4>2. QED
          BY <2>3, <4>1
      <3>3. QED
        BY <3>1, <3>2
    <2>4. QED
      BY <1>1, <2>3
  <1>5. ASSUME NEW h \in work, NEW result \in Result, Respond(h, result)
        PROVE  RepliesMatch'
    <2>1. PICK r : r = h.cmd.req
      OBVIOUS
    <2>2. PICK user : user = IF result = "Created" THEN accounts[KeyOf[r]].user
                                                  ELSE NoUser
      OBVIOUS
    <2>3. r \in Request /\ KeyOf[r] \in Key
      BY <2>1 DEF TypeOK, Keyed, Work, Copy
    <2>4. /\ result \in Outcomes(PayloadOf[r], accounts[KeyOf[r]])
          /\ Routed(r, result, user)
          /\ accounts' = accounts
      BY <1>5, <2>1, <2>2 DEF Respond
    <2>5. Tells(accounts, r, result, user)
      BY <2>2, <2>3, <2>4, OutcomesTell
    <2>6. QED
      BY <2>4, <2>5, RoutedMatches
  <1>6. ASSUME NEW h \in work, AcknowledgeInVain(h)
        PROVE  RepliesMatch'
    <2>1. PICK r : r = h.cmd.req
      OBVIOUS
    <2>2. KeyOf[r] \in Key
      BY <2>1 DEF Keyed
    <2>3. /\ Routed(r, "InternalServerError", NoUser)
          /\ accounts' = accounts
      BY <1>6, <2>1 DEF AcknowledgeInVain
    <2>4. Tells(accounts, r, "InternalServerError", NoUser)
      BY <2>2 DEF Tells
    <2>5. QED
      BY <2>3, <2>4, RoutedMatches
  <1>7. QED
    <2>1. CASE UNCHANGED rpcVars
      BY <1>2, <2>1 DEF rpcVars
    <2>2. CASE RpcStep
      BY <1>2, <1>3, <1>4, <1>5, <1>6, <2>2
         DEF RpcStep, LoseConnection, Crash, Submit, Flush, Reject, TimeOut,
             ServerLosesConnection, Deliver, Acknowledge, Decide
    <2>3. QED
      BY <2>1, <2>2, EveryRpcStep

\* A reply is read from the head of its queue.
LEMMA FirstReply ==
  ASSUME NEW queue \in Seq(Reply), queue # <<>>
  PROVE  Head(queue) = queue[1] /\ 1 \in 1..Len(queue)
  <1>1. Len(queue) \in Nat /\ Len(queue) # 0
    BY EmptySeq, LenProperties
  <1>2. Head(queue) = queue[1]
    OBVIOUS
  <1>3. QED
    BY <1>1, <1>2

\* So do answers, once they are given.
LEMMA StepAnswers ==
  ASSUME TypeOK, Keyed, RepliesMatch, AnswersMatch, [Next]_vars
  PROVE  AnswersMatch'
  <1> USE DEF TypeOK
  <1>1. ASSUME NEW r \in Request, KeyOf[r] # NoKey
        PROVE  Tells(accounts, r, http[r], given[r])
    BY <1>1 DEF AnswersMatch, Tells
  <1>2. ASSUME NEW r \in Request, KeyOf[r] # NoKey,
               \/ http'[r] = http[r] /\ given'[r] = given[r]
               \/ http'[r] \notin {"Created", "BadRequest"}
               \/ Tells(accounts, r, http'[r], given'[r])
        PROVE  Tells(accounts', r, http'[r], given'[r])
    <2>1. PICK result, user : result = http'[r] /\ user = given'[r]
      OBVIOUS
    <2>2. KeyOf[r] \in Key
      BY <1>2
    <2>3. CASE result \notin {"Created", "BadRequest"}
      BY <2>1, <2>2, <2>3 DEF Tells
    <2>4. CASE Tells(accounts, r, result, user)
      <3>1. Tells(accounts', r, result, user)
        BY <2>4, TellsStays
      <3>2. QED
        BY <2>1, <3>1 DEF Tells
    <2>5. QED
      BY <1>1, <1>2, <2>1, <2>3, <2>4
  <1>3. ASSUME NEW r \in Request, KeyOf[r] # NoKey
        PROVE  \/ http'[r] = http[r] /\ given'[r] = given[r]
               \/ http'[r] \notin {"Created", "BadRequest"}
               \/ Tells(accounts, r, http'[r], given'[r])
    <2>1. CASE UNCHANGED <<http, given>>
      BY <2>1
    <2>2. ASSUME NEW g \in Gate, Crash(g)
          PROVE  http'[r] \in {http[r], "cut"} /\ given' = given
      BY <2>2 DEF Crash
    <2>3. ASSUME NEW g \in Gate, OnRpcReply(g)
          PROVE  \/ http'[r] = http[r] /\ given'[r] = given[r]
                 \/ http'[r] \notin {"Created", "BadRequest"}
                 \/ Tells(accounts, r, http'[r], given'[r])
      <3>1. PICK m : m = Head(replies[g])
        OBVIOUS
      <3>2. replies[g] \in Seq(Reply) /\ replies[g] # <<>>
        BY <2>3 DEF OnRpcReply
      <3>3. m = replies[g][1] /\ 1 \in 1..Len(replies[g])
        BY <3>1, <3>2, FirstReply
      <3>4. Tells(accounts, m.req, m.result, m.user)
        BY <3>3 DEF RepliesMatch
      <3>5. CASE r = m.req /\ m.req \in pending[g]
        <4>1. /\ http' = [http EXCEPT ![m.req] = Unwrap(m.result)]
              /\ given' = IF Unwrap(m.result) = "Created"
                          THEN [given EXCEPT ![m.req] = m.user] ELSE given
          BY <2>3, <3>1, <3>5 DEF OnRpcReply, Answered
        <4>2. http'[r] = Unwrap(m.result)
          BY <3>5, <4>1
        <4>3. CASE m.result = "Created"
          <5>1. http'[r] = "Created" /\ given'[r] = m.user
            BY <3>5, <4>1, <4>2, <4>3 DEF Unwrap
          <5>2. QED
            BY <3>4, <3>5, <4>3, <5>1
        <4>4. CASE m.result # "Created"
          <5>1. /\ http'[r] # "Created"
                /\ http'[r] = "BadRequest" => m.result = "BadRequest"
            BY <4>2, <4>4 DEF Unwrap
          <5>2. QED
            BY <3>4, <3>5, <5>1 DEF Tells
        <4>5. QED
          BY <4>3, <4>4
      <3>6. CASE r # m.req \/ m.req \notin pending[g]
        BY <2>3, <3>1, <3>6 DEF OnRpcReply, Answered
      <3>7. QED
        BY <3>5, <3>6
    <2>4. ASSUME NEW g \in Gate, NEW q \in Request, Submit(q, g)
          PROVE  http'[r] \in {http[r], "waiting"} /\ given' = given
      BY <2>4 DEF Submit
    <2>5. ASSUME NEW q \in Request, Reject(q)
          PROVE  http'[r] = http[r] /\ given' = given
      BY <1>3, <2>5 DEF Reject
    <2>6. ASSUME NEW q \in Request, TimeOut(q)
          PROVE  http'[r] \in {http[r], "InternalServerError"} /\ given' = given
      BY <2>6 DEF TimeOut
    <2>7. CASE UNCHANGED rpcVars
      BY <2>1, <2>7 DEF rpcVars
    <2>8. CASE RpcStep
      BY <2>1, <2>2, <2>3, <2>4, <2>5, <2>6, <2>8
         DEF RpcStep, LoseConnection, Flush, ServerLosesConnection, Deliver,
             Respond, Acknowledge, AcknowledgeInVain, Decide
    <2>9. QED
      BY <2>7, <2>8, EveryRpcStep
  <1>4. QED
    BY <1>2, <1>3 DEF AnswersMatch, Tells

LEMMA StepInv == IInv /\ [Next]_vars => IInv'
BY StepType, StepKeyed, StepUnasked, StepPending, StepReplies, StepAnswers
   DEF IInv

-------------------------------------------------------------------------------
(* The theorems. *)

LEMMA Invariant == Spec => []IInv
BY InitInv, StepInv, PTL DEF Spec

\* Type correctness of the gateway and of the bus it talks to.
THEOREM TypeCorrect == Spec => []TypeOK
  <1>1. IInv => TypeOK
    BY DEF IInv
  <1>2. QED
    BY <1>1, Invariant, PTL

\* A browser is told the truth about the account of its own request, for every
\* number of gates and requests, whatever is lost, late, repeated or cut.
THEOREM AnswersAreTrue == Spec => []AnswersMatch
  <1>1. IInv => AnswersMatch
    BY DEF IInv
  <1>2. QED
    BY <1>1, Invariant, PTL

\* pendingRpc never holds a request that nobody waits for.
THEOREM PendingIsBounded == Spec => []PendingIsAwaited
  <1>1. IInv => PendingIsAwaited
    BY DEF IInv
  <1>2. QED
    BY <1>1, Invariant, PTL

-------------------------------------------------------------------------------
(* The streams of events. *)

\* The events that gate g has taken from its queue, or never had in it.
Read(g) == Len(published) - Len(events[g])

\* The queue of a gate holds the last events published, while it has one.
QueuesFollow ==
  \A g \in Gate :
    /\ Len(events[g]) <= Len(published)
    /\ \A i \in 1..Len(events[g]) : events[g][i] = Read(g) + i
    /\ "events" \notin channels[g] => events[g] = <<>>

\* Stream b has been shown what it waits for among the events its gate has read.
Follows(b) ==
  LET g == stream[b].gate IN
  /\ "events" \in channels[g]
  /\ \A i \in 1..Len(seen[b]) : /\ seen[b][i] \in 1..Read(g)
                                /\ published[seen[b][i]] = stream[b].user
  /\ \A i, j \in 1..Len(seen[b]) : i < j => seen[b][i] < seen[b][j]
  /\ \A e \in 1..Read(g) :
       published[e] = stream[b].user /\ Due(b, seen[b], e) =>
         \E i \in 1..Len(seen[b]) : seen[b][i] = e

StreamsFollow ==
  \A b \in Browser :
    /\ since[b] <= Len(published)
    /\ stream[b] = NoStream => seen[b] = <<>>
    /\ stream[b] # NoStream /\ b \notin missed => Follows(b)

EventInv == QueuesFollow /\ StreamsFollow

\* An open stream is at a gate.
LEMMA StreamGate ==
  ASSUME TypeOK, NEW b \in Browser, stream[b] # NoStream
  PROVE  stream[b].gate \in Gate
BY DEF TypeOK

\* What two sequences joined consist of.
LEMMA Joined ==
  ASSUME NEW s \in Seq(Nat), NEW t \in Seq(Nat)
  PROVE  /\ Len(s \o t) = Len(s) + Len(t)
         /\ \A i \in 1..(Len(s) + Len(t)) :
              (s \o t)[i] = IF i <= Len(s) THEN s[i] ELSE t[i - Len(s)]
BY ConcatProperties, Zenon

\* What is shown and what is queued together leave no gaps.
LEMMA FollowingHasNoGaps ==
  ASSUME TypeOK, EventInv
  PROVE  StreamsHaveNoGaps
  <1> SUFFICES ASSUME NEW b \in Browser, stream[b] # NoStream, b \notin missed
               PROVE  LET line == seen[b] \o events[stream[b].gate] IN
                 /\ \A i \in 1..Len(seen[b]) :
                      /\ seen[b][i] \in 1..Len(published)
                      /\ published[seen[b][i]] = stream[b].user
                 /\ \A i, j \in 1..Len(line) : i < j => line[i] < line[j]
                 /\ \A e \in 1..Len(published) :
                      published[e] = stream[b].user /\ Due(b, line, e) =>
                        \E i \in 1..Len(line) : line[i] = e
    BY DEF StreamsHaveNoGaps
  <1> DEFINE g == stream[b].gate
             shown == seen[b]
             queue == events[g]
             line == shown \o queue
             m == Len(shown)
             n == Len(queue)
             p == Len(published)
  <1>1. g \in Gate
    BY StreamGate
  <1>2. /\ shown \in Seq(Nat) /\ queue \in Seq(Nat) /\ m \in Nat /\ n \in Nat
        /\ p \in Nat /\ since[b] \in Nat
    BY <1>1 DEF TypeOK
  <1>3. /\ Len(line) = m + n
        /\ \A i \in 1..m : line[i] = shown[i]
        /\ \A i \in (m + 1)..(m + n) : line[i] = queue[i - m]
    <2> HIDE DEF shown, queue
    <2>1. /\ Len(line) = m + n
          /\ \A i \in 1..(m + n) :
               line[i] = IF i <= m THEN shown[i] ELSE queue[i - m]
      BY <1>2, Joined, Zenon
    <2> HIDE DEF line, m, n
    <2>2. QED
      BY <1>2, <2>1
  <1>4. /\ n <= p
        /\ \A i \in 1..n : queue[i] = (p - n) + i
        /\ Read(g) = p - n
    BY <1>1 DEF EventInv, QueuesFollow, Read
  <1>5. /\ \A i \in 1..m : /\ shown[i] \in 1..(p - n)
                           /\ published[shown[i]] = stream[b].user
        /\ \A i, j \in 1..m : i < j => shown[i] < shown[j]
        /\ \A e \in 1..(p - n) :
             published[e] = stream[b].user /\ Due(b, shown, e) =>
               \E i \in 1..m : shown[i] = e
    BY <1>4 DEF EventInv, StreamsFollow, Follows
  <1>6. m = Len(shown)
    OBVIOUS
  <1> HIDE DEF g, shown, queue, line, m, n, p
  <1>7. \A i \in (m + 1)..(m + n) : line[i] = (p - n) + (i - m)
    <2> SUFFICES ASSUME NEW i \in (m + 1)..(m + n)
                 PROVE  line[i] = (p - n) + (i - m)
      OBVIOUS
    <2>1. i - m \in 1..n
      BY <1>2
    <2>2. line[i] = queue[i - m]
      BY <1>3
    <2>3. QED
      BY <1>4, <2>1, <2>2
  <1>8. \A i, j \in 1..Len(line) : i < j => line[i] < line[j]
    <2> SUFFICES ASSUME NEW i \in 1..Len(line), NEW j \in 1..Len(line), i < j
                 PROVE  line[i] < line[j]
      OBVIOUS
    <2>1. CASE j <= m
      <3>1. i \in 1..m /\ j \in 1..m
        BY <1>2, <1>3, <2>1
      <3>2. line[i] = shown[i] /\ line[j] = shown[j]
        BY <1>3, <3>1
      <3>3. shown[i] < shown[j]
        BY <1>5, <3>1
      <3>4. QED
        BY <3>2, <3>3
    <2>2. CASE i <= m /\ j > m
      <3>1. i \in 1..m /\ j \in (m + 1)..(m + n)
        BY <1>2, <1>3, <2>2
      <3>2. line[i] <= p - n /\ line[i] \in Nat
        <4>1. line[i] = shown[i]
          BY <1>3, <3>1
        <4>2. shown[i] \in 1..(p - n)
          BY <1>5, <3>1
        <4>3. QED
          BY <1>2, <4>1, <4>2
      <3>3. line[j] > p - n
        BY <1>2, <1>4, <1>7, <3>1
      <3>4. QED
        BY <1>2, <1>4, <1>7, <3>1, <3>2, <3>3
    <2>3. CASE i > m
      <3>1. i \in (m + 1)..(m + n) /\ j \in (m + 1)..(m + n)
        BY <1>2, <1>3, <2>3
      <3>2. QED
        BY <1>2, <1>4, <1>7, <3>1
    <2>4. QED
      BY <1>2, <1>3, <2>1, <2>2, <2>3
  <1>9. ASSUME NEW e \in 1..p, published[e] = stream[b].user, Due(b, line, e)
        PROVE  \E i \in 1..Len(line) : line[i] = e
    <2>1. CASE e > p - n
      <3>1. (e - (p - n)) + m \in (m + 1)..(m + n)
        BY <1>2, <1>4, <2>1
      <3>2. line[(e - (p - n)) + m] = e
        BY <1>2, <1>4, <1>7, <3>1
      <3>3. (e - (p - n)) + m \in 1..Len(line)
        BY <1>2, <1>3, <3>1
      <3>4. QED
        BY <3>2, <3>3
    <2>2. CASE e <= p - n
      <3>1. e \in 1..(p - n)
        BY <1>2, <1>4, <2>2
      <3>2. Due(b, shown, e)
        <4>1. CASE e > since[b]
          BY <4>1 DEF Due
        <4>2. ASSUME NEW i \in 1..Len(line), line[i] < e
              PROVE  Due(b, shown, e)
          <5>1. i \in 1..m
            <6>1. CASE i > m
              <7>1. i \in (m + 1)..(m + n)
                BY <1>2, <1>3, <6>1
              <7>2. line[i] > p - n
                BY <1>2, <1>4, <1>7, <7>1
              <7>3. QED
                BY <1>2, <1>4, <2>2, <4>2, <7>2, <1>7, <7>1
            <6>2. QED
              BY <1>2, <1>3, <6>1
          <5>2. shown[i] < e
            BY <1>3, <4>2, <5>1
          <5>3. QED
            BY <1>6, <5>1, <5>2 DEF Due
        <4>3. QED
          BY <1>9, <4>1, <4>2 DEF Due
      <3>3. PICK i \in 1..m : shown[i] = e
        BY <1>5, <1>9, <3>1, <3>2
      <3>4. line[i] = e
        BY <1>3, <3>3
      <3>5. i \in 1..Len(line)
        BY <1>2, <1>3
      <3>6. QED
        BY <3>4, <3>5
    <2>3. QED
      BY <1>2, <1>4, <2>1, <2>2
  <1>10. \A i \in 1..m : shown[i] \in 1..p /\ published[shown[i]] = stream[b].user
    BY <1>2, <1>4, <1>5
  <1>11. QED
    BY <1>8, <1>9, <1>10 DEF line, shown, queue, g, m, p

\* Initially nobody has a stream and nothing is queued.
LEMMA InitEvents == Init => EventInv
  <1> SUFFICES ASSUME Init
               PROVE  EventInv
    OBVIOUS
  <1>1. QueuesFollow
    BY DEF Init, QueuesFollow
  <1>2. StreamsFollow
    BY DEF Init, StreamsFollow
  <1>3. QED
    BY <1>1, <1>2 DEF EventInv

\* A stream whose gate neither reads nor loses an event follows as before.
LEMMA FollowsStays ==
  ASSUME TypeOK, NEW b \in Browser, Follows(b), stream[b] # NoStream,
         stream'[b] = stream[b], seen'[b] = seen[b], since'[b] = since[b],
         "events" \in channels'[stream[b].gate],
         Read(stream[b].gate)' = Read(stream[b].gate),
         \A e \in 1..Read(stream[b].gate) : published'[e] = published[e]
  PROVE  Follows(b)'
BY DEF Follows, Due, TypeOK

\* A queue that is not touched while nothing is published follows as before.
LEMMA QueuesStay ==
  ASSUME QueuesFollow, UNCHANGED <<events, published>>,
         \A g \in Gate : "events" \in channels[g] => "events" \in channels'[g]
  PROVE  QueuesFollow'
BY DEF QueuesFollow, Read

\* A step that leaves queue, history and stream alone and takes no channel away.
LEMMA QuietFollow ==
  ASSUME TypeOK, EventInv, UNCHANGED <<stream, seen, missed, since, published,
                                       events>>,
         \A g \in Gate : "events" \in channels[g] => "events" \in channels'[g]
  PROVE  EventInv'
  <1>1. QueuesFollow'
    BY QueuesStay DEF EventInv
  <1>2. ASSUME NEW b \in Browser
        PROVE  /\ since'[b] <= Len(published')
               /\ stream'[b] = NoStream => seen'[b] = <<>>
               /\ stream'[b] # NoStream /\ b \notin missed' => Follows(b)'
    <2>1. ASSUME stream[b] # NoStream, b \notin missed
          PROVE  Follows(b)'
      <3>1. Follows(b)
        BY <2>1 DEF EventInv, StreamsFollow
      <3>2. "events" \in channels[stream[b].gate] /\ stream[b].gate \in Gate
        BY <2>1, <3>1, StreamGate DEF Follows
      <3>3. Read(stream[b].gate)' = Read(stream[b].gate)
        BY DEF Read
      <3>4. QED
        BY <2>1, <3>1, <3>2, <3>3, FollowsStays
    <2>2. QED
      BY <2>1 DEF EventInv, StreamsFollow
  <1>3. QED
    BY <1>1, <1>2 DEF EventInv, StreamsFollow

\* The connection of a gate is gone, with its queue: the queues of the other
\* gates are what they were.
LEMMA DisconnectedQueues ==
  ASSUME TypeOK, QueuesFollow, NEW g \in Gate, Disconnected(g),
         UNCHANGED published
  PROVE  /\ QueuesFollow'
         /\ \A o \in Gate \ {g} : Read(o)' = Read(o) /\ channels'[o] = channels[o]
  <1>1. events' = [events EXCEPT ![g] = <<>>]
    BY DEF Disconnected
  <1>2. channels' = [channels EXCEPT ![g] = {}]
    BY DEF Disconnected
  <1>3. \A o \in Gate \ {g} : Read(o)' = Read(o) /\ channels'[o] = channels[o]
    BY <1>1, <1>2 DEF Read, TypeOK
  <1>4. ASSUME NEW o \in Gate
        PROVE  /\ Len(events'[o]) <= Len(published')
               /\ \A i \in 1..Len(events'[o]) : events'[o][i] = Read(o)' + i
               /\ "events" \notin channels'[o] => events'[o] = <<>>
    <2>1. CASE o = g
      <3>1. events'[o] = <<>> /\ Len(events'[o]) = 0 /\ Len(published') \in Nat
        BY <1>1, <2>1 DEF TypeOK
      <3>2. QED
        BY <3>1
    <2>2. CASE o # g
      <3>1. events'[o] = events[o]
        BY <1>1, <2>2 DEF TypeOK
      <3>2. QED
        BY <1>3, <2>2, <3>1 DEF QueuesFollow
    <2>3. QED
      BY <2>1, <2>2
  <1>5. QED
    BY <1>3, <1>4 DEF QueuesFollow

\* Streams at other gates follow on while one gate is disconnected.
LEMMA FollowsElsewhere ==
  ASSUME TypeOK, EventInv, NEW g \in Gate, Disconnected(g),
         UNCHANGED published,
         NEW b \in Browser, b \notin Streams(g), b \notin missed,
         stream[b] # NoStream,
         stream'[b] = stream[b], seen'[b] = seen[b], since'[b] = since[b]
  PROVE  Follows(b)'
  <1>1. Follows(b)
    BY DEF EventInv, StreamsFollow
  <1>2. stream[b].gate \in Gate \ {g}
    BY StreamGate DEF Streams
  <1>3. Read(stream[b].gate)' = Read(stream[b].gate)
    BY <1>2, DisconnectedQueues DEF EventInv
  <1>4. "events" \in channels'[stream[b].gate]
    BY <1>1, <1>2, DisconnectedQueues DEF EventInv, Follows
  <1>5. QED
    BY <1>1, <1>3, <1>4, FollowsStays

\* Its gate loses its connection: the stream has missed what is published next.
LEMMA LoseConnectionFollow ==
  ASSUME TypeOK, EventInv, NEW g \in Gate, LoseConnection(g)
  PROVE  EventInv'
  <1>1. /\ Disconnected(g)
        /\ missed' = missed \cup Streams(g)
        /\ UNCHANGED <<stream, seen, since, published>>
    BY DEF LoseConnection
  <1>2. QueuesFollow'
    BY <1>1, DisconnectedQueues DEF EventInv
  <1>3. ASSUME NEW b \in Browser, stream'[b] # NoStream, b \notin missed'
        PROVE  Follows(b)'
    BY <1>1, <1>3, FollowsElsewhere
  <1>4. \A b \in Browser : /\ since'[b] <= Len(published')
                           /\ stream'[b] = NoStream => seen'[b] = <<>>
    BY <1>1 DEF EventInv, StreamsFollow
  <1>5. QED
    BY <1>2, <1>3, <1>4 DEF EventInv, StreamsFollow

\* What closing some streams makes of the stream of b.
LEMMA ClosedOne ==
  ASSUME TypeOK, NEW bs \in SUBSET Browser, Closed(bs), NEW b \in Browser
  PROVE  /\ b \in bs => /\ stream'[b] = NoStream /\ seen'[b] = <<>>
                        /\ since'[b] = 0
         /\ b \notin bs => /\ stream'[b] = stream[b] /\ seen'[b] = seen[b]
                           /\ since'[b] = since[b]
                           /\ b \in missed' <=> b \in missed
BY DEF Closed

\* The process of a gate ends: its streams are closed.
LEMMA CrashFollow ==
  ASSUME TypeOK, EventInv, NEW g \in Gate, Crash(g)
  PROVE  EventInv'
  <1>1. /\ Disconnected(g)
        /\ Closed(Streams(g))
        /\ UNCHANGED published
        /\ Streams(g) \in SUBSET Browser
    BY DEF Crash, Streams
  <1>2. QueuesFollow'
    BY <1>1, DisconnectedQueues DEF EventInv
  <1>3. ASSUME NEW b \in Browser
        PROVE  /\ since'[b] <= Len(published')
               /\ stream'[b] = NoStream => seen'[b] = <<>>
               /\ stream'[b] # NoStream /\ b \notin missed' => Follows(b)'
    <2>1. CASE b \in Streams(g)
      <3>1. stream'[b] = NoStream /\ seen'[b] = <<>> /\ since'[b] = 0
        BY <1>1, <2>1, ClosedOne
      <3>2. Len(published') \in Nat
        BY <1>1 DEF TypeOK
      <3>3. QED
        BY <3>1, <3>2
    <2>2. CASE b \notin Streams(g)
      <3>1. /\ stream'[b] = stream[b] /\ seen'[b] = seen[b] /\ since'[b] = since[b]
            /\ b \in missed' <=> b \in missed
        BY <1>1, <2>2, ClosedOne
      <3>2. /\ since'[b] <= Len(published')
            /\ stream'[b] = NoStream => seen'[b] = <<>>
        BY <1>1, <3>1 DEF EventInv, StreamsFollow
      <3>3. ASSUME stream'[b] # NoStream, b \notin missed'
            PROVE  Follows(b)'
        BY <1>1, <2>2, <3>1, <3>3, FollowsElsewhere
      <3>4. QED
        BY <3>2, <3>3
    <2>3. QED
      BY <2>1, <2>2
  <1>4. QED
    BY <1>2, <1>3 DEF EventInv, StreamsFollow

\* A browser leaves.
LEMMA LeaveFollow ==
  ASSUME TypeOK, EventInv, NEW b \in Browser, Leave(b)
  PROVE  EventInv'
  <1>1. Closed({b}) /\ UNCHANGED <<channels, published, events>>
    BY DEF Leave, linkVars
  <1>2. QueuesFollow'
    BY <1>1, QueuesStay DEF EventInv
  <1>3. ASSUME NEW o \in Browser
        PROVE  /\ since'[o] <= Len(published')
               /\ stream'[o] = NoStream => seen'[o] = <<>>
               /\ stream'[o] # NoStream /\ o \notin missed' => Follows(o)'
    <2>1. CASE o = b
      <3>1. stream'[o] = NoStream /\ seen'[o] = <<>> /\ since'[o] = 0
        BY <1>1, <2>1, ClosedOne
      <3>2. Len(published') \in Nat
        BY <1>1 DEF TypeOK
      <3>3. QED
        BY <3>1, <3>2
    <2>2. CASE o # b
      <3>1. /\ stream'[o] = stream[o] /\ seen'[o] = seen[o] /\ since'[o] = since[o]
            /\ o \in missed' <=> o \in missed
        BY <1>1, <2>2, ClosedOne
      <3>2. ASSUME stream'[o] # NoStream, o \notin missed'
            PROVE  Follows(o)'
        <4>1. Follows(o)
          BY <3>1, <3>2 DEF EventInv, StreamsFollow
        <4>2. "events" \in channels'[stream[o].gate]
          BY <1>1, <4>1 DEF Follows
        <4>3. Read(stream[o].gate)' = Read(stream[o].gate)
          BY <1>1, <3>1 DEF Read
        <4>4. QED
          BY <1>1, <3>1, <3>2, <4>1, <4>2, <4>3, FollowsStays
      <3>3. QED
        BY <1>1, <3>1, <3>2 DEF EventInv, StreamsFollow
    <2>3. QED
      BY <2>1, <2>2
  <1>4. QED
    BY <1>2, <1>3 DEF EventInv, StreamsFollow

\* A browser opens a stream: of what was published before, it waits for nothing.
LEMMA SubscribeFollow ==
  ASSUME TypeOK, EventInv, NEW b \in Browser, NEW g \in Gate, NEW bearer,
         Subscribe(b, g, bearer)
  PROVE  EventInv'
  <1> DEFINE user == Subject(b, bearer)
  <1>1. /\ stream[b] = NoStream
        /\ stream' = [stream EXCEPT ![b] = [gate |-> g, user |-> user]]
        /\ since' = [since EXCEPT ![b] = Len(published)]
        /\ missed' = IF "events" \in channels[g] THEN missed ELSE missed \cup {b}
        /\ UNCHANGED <<seen, channels, published, events>>
    BY DEF Subscribe, Opened, linkVars
  <1>2. QueuesFollow'
    BY <1>1, QueuesStay DEF EventInv
  <1> HIDE DEF user
  <1>3. ASSUME NEW o \in Browser
        PROVE  /\ since'[o] <= Len(published')
               /\ stream'[o] = NoStream => seen'[o] = <<>>
               /\ stream'[o] # NoStream /\ o \notin missed' => Follows(o)'
    <2>1. CASE o = b
      <3>1. /\ stream'[o].gate = g /\ since'[o] = Len(published)
            /\ seen'[o] = <<>> /\ Len(published) \in Nat
        BY <1>1, <2>1 DEF TypeOK, EventInv, StreamsFollow
      <3>2. ASSUME o \notin missed'
            PROVE  Follows(o)'
        <4>1. "events" \in channels'[g]
          BY <1>1, <2>1, <3>2
        <4>2. Len(seen'[o]) = 0
          BY <3>1
        <4>3. Read(g)' <= Len(published) /\ Read(g)' \in Int
          <5>1. Len(events[g]) \in Nat
            BY DEF TypeOK
          <5>2. QED
            BY <1>1, <3>1, <5>1 DEF Read
        <4>4. \A e \in 1..Read(g)' : ~ Due(o, seen[o], e)'
          BY <1>1, <3>1, <4>2, <4>3 DEF Due
        <4>5. QED
          BY <3>1, <4>1, <4>2, <4>4, <1>1 DEF Follows
      <3>3. QED
        BY <1>1, <3>1, <3>2
    <2>2. CASE o # b
      <3>1. /\ stream'[o] = stream[o] /\ seen'[o] = seen[o] /\ since'[o] = since[o]
            /\ o \in missed' <=> o \in missed
        BY <1>1, <2>2 DEF TypeOK
      <3>2. ASSUME stream'[o] # NoStream, o \notin missed'
            PROVE  Follows(o)'
        <4>1. Follows(o)
          BY <3>1, <3>2 DEF EventInv, StreamsFollow
        <4>2. "events" \in channels'[stream[o].gate]
          BY <1>1, <4>1 DEF Follows
        <4>3. Read(stream[o].gate)' = Read(stream[o].gate)
          BY <1>1, <3>1 DEF Read
        <4>4. QED
          BY <1>1, <3>1, <3>2, <4>1, <4>2, <4>3, FollowsStays
      <3>3. QED
        BY <1>1, <3>1, <3>2 DEF EventInv, StreamsFollow
    <2>3. QED
      BY <2>1, <2>2
  <1>4. QED
    BY <1>2, <1>3 DEF EventInv, StreamsFollow

\* An event is published: every queue there is holds it last, unread.
LEMMA PublishFollow ==
  ASSUME TypeOK, EventInv, NEW user \in Users, PublishEvent(user)
  PROVE  EventInv'
  <1> DEFINE p == Len(published)
  <1>1. /\ published' = Append(published, user)
        /\ events' = [g \in Gate |-> IF "events" \in channels[g]
                                     THEN Append(events[g], Len(published'))
                                     ELSE events[g]]
        /\ UNCHANGED <<channels, stream, seen, missed, since>>
    BY DEF PublishEvent, linkVars
  <1>2. /\ p \in Nat /\ Len(published') = p + 1
        /\ \A e \in 1..p : published'[e] = published[e]
    <2>1. user \in Nat /\ published \in Seq(Nat)
      BY UsersType DEF TypeOK
    <2>2. QED
      BY <1>1, <2>1
  <1> HIDE DEF p
  <1>3. ASSUME NEW g \in Gate, "events" \in channels[g]
        PROVE  /\ Len(events'[g]) = Len(events[g]) + 1
               /\ \A i \in 1..Len(events[g]) : events'[g][i] = events[g][i]
               /\ events'[g][Len(events[g]) + 1] = p + 1
               /\ Read(g)' = Read(g) /\ Len(events[g]) \in Nat
    <2>1. events[g] \in Seq(Nat) /\ p + 1 \in Nat
      BY <1>2 DEF TypeOK
    <2>2. events'[g] = Append(events[g], p + 1)
      BY <1>1, <1>2, <1>3
    <2>3. /\ Len(events'[g]) = Len(events[g]) + 1
          /\ \A i \in 1..Len(events[g]) : events'[g][i] = events[g][i]
          /\ events'[g][Len(events[g]) + 1] = p + 1
          /\ Len(events[g]) \in Nat
      BY <2>1, <2>2
    <2>4. Read(g)' = Read(g)
      BY <1>2, <2>3 DEF Read, p
    <2>5. QED
      BY <2>3, <2>4
  <1>4. QueuesFollow'
    <2> SUFFICES ASSUME NEW g \in Gate
                 PROVE  /\ Len(events'[g]) <= Len(published')
                        /\ \A i \in 1..Len(events'[g]) :
                             events'[g][i] = Read(g)' + i
                        /\ "events" \notin channels'[g] => events'[g] = <<>>
      BY DEF QueuesFollow
    <2>1. CASE "events" \in channels[g]
      <3>1. /\ Len(events[g]) <= p /\ Len(events[g]) \in Nat
            /\ Read(g) = p - Len(events[g])
            /\ \A i \in 1..Len(events[g]) : events[g][i] = Read(g) + i
        BY <1>3, <2>1 DEF EventInv, QueuesFollow, Read, p
      <3>2. \A i \in 1..Len(events'[g]) :
              i \in 1..Len(events[g]) \/ i = Len(events[g]) + 1
        BY <1>3, <2>1
      <3>3. ASSUME NEW i \in 1..Len(events'[g])
            PROVE  events'[g][i] = Read(g) + i
        <4>1. CASE i \in 1..Len(events[g])
          <5>1. events'[g][i] = events[g][i]
            BY <1>3, <2>1, <4>1
          <5>2. QED
            BY <3>1, <4>1, <5>1
        <4>2. CASE i = Len(events[g]) + 1
          <5>1. events'[g][i] = p + 1
            BY <1>3, <2>1, <4>2
          <5>2. p \in Nat /\ Len(events[g]) \in Nat /\ Read(g) = p - Len(events[g])
            BY <1>2, <3>1
          <5>3. QED
            BY <4>2, <5>1, <5>2
        <4>3. QED
          BY <3>2, <4>1, <4>2
      <3>4. Len(events'[g]) <= Len(published')
        BY <1>2, <1>3, <2>1, <3>1
      <3>5. Read(g)' = Read(g)
        BY <1>3, <2>1
      <3>6. QED
        BY <1>1, <2>1, <3>3, <3>4, <3>5
    <2>2. CASE "events" \notin channels[g]
      <3>1. events'[g] = <<>> /\ Len(events'[g]) = 0
        BY <1>1, <2>2 DEF EventInv, QueuesFollow
      <3>2. QED
        BY <1>2, <3>1
    <2>3. QED
      BY <2>1, <2>2
  <1>5. ASSUME NEW b \in Browser, stream'[b] # NoStream, b \notin missed'
        PROVE  Follows(b)'
    <2>1. Follows(b) /\ stream[b].gate \in Gate /\ stream[b] # NoStream
      BY <1>1, <1>5, StreamGate DEF EventInv, StreamsFollow
    <2>2. "events" \in channels[stream[b].gate]
      BY <2>1 DEF Follows
    <2>3. Read(stream[b].gate)' = Read(stream[b].gate)
      <3>1. PICK g \in Gate : g = stream[b].gate
        BY <2>1
      <3>2. Read(g)' = Read(g) /\ g = stream'[b].gate
        BY <1>1, <1>3, <2>2, <3>1
      <3>3. QED
        BY <3>1, <3>2 DEF Read
    <2>4. \A e \in 1..Read(stream[b].gate) : published'[e] = published[e]
      <3>1. Read(stream[b].gate) <= p /\ Read(stream[b].gate) \in Int
        BY <1>2, <1>3, <2>1, <2>2 DEF Read, p
      <3>2. QED
        BY <1>2, <3>1
    <2>5. QED
      BY <1>1, <2>1, <2>2, <2>3, <2>4, FollowsStays
  <1>6. \A b \in Browser : /\ since'[b] <= Len(published')
                           /\ stream'[b] = NoStream => seen'[b] = <<>>
    <2>1. \A b \in Browser : since[b] <= p /\ since[b] \in Nat
      BY DEF EventInv, StreamsFollow, TypeOK, p
    <2>2. QED
      BY <1>1, <1>2, <2>1 DEF EventInv, StreamsFollow
  <1>7. QED
    BY <1>4, <1>5, <1>6 DEF EventInv, StreamsFollow

\* What is left of a sequence without its first element.
LEMMA Shortened ==
  ASSUME NEW s \in Seq(Nat), s # <<>>
  PROVE  /\ Len(Tail(s)) = Len(s) - 1
         /\ \A i \in 1..(Len(s) - 1) : Tail(s)[i] = s[i + 1]
  <1>1. /\ Len(Tail(s)) = Len(s) - 1
        /\ \A i \in 1..Len(Tail(s)) : Tail(s)[i] = s[i + 1]
    BY HeadTailProperties, Zenon
  <1>2. QED
    BY <1>1, Zenon

\* A gate takes the next event from its queue and pushes it into the streams of
\* its user.
LEMMA OnEventFollow ==
  ASSUME TypeOK, EventInv, NEW g \in Gate, OnEvent(g)
  PROVE  EventInv'
  <1> DEFINE e == Head(events[g])
             queue == events[g]
             p == Len(published)
             n == Len(queue)
  <1>1. /\ queue # <<>>
        /\ events' = [events EXCEPT ![g] = Tail(queue)]
        /\ seen' = [b \in Browser |-> IF b \in Listeners(g, e)
                                     THEN Append(seen[b], e) ELSE seen[b]]
        /\ UNCHANGED <<channels, stream, missed, since, published>>
    BY DEF OnEvent, linkVars
  <1>2. /\ queue \in Seq(Nat) /\ n \in Nat /\ p \in Nat /\ events[g] = queue
        /\ \A o \in Gate \ {g} : events'[o] = events[o]
        /\ events'[g] = Tail(queue)
    BY <1>1 DEF TypeOK
  <1>3. /\ n <= p /\ Read(g) = p - n
        /\ \A i \in 1..n : queue[i] = (p - n) + i
    BY DEF EventInv, QueuesFollow, Read
  <1>4. e = queue[1]
    BY <1>1, <1>2
  <1>5. n > 0
    BY <1>1, <1>2
  <1>6. /\ Len(events'[g]) = n - 1
        /\ \A i \in 1..(n - 1) : events'[g][i] = queue[i + 1]
    BY <1>1, <1>2, Shortened, Zenon
  <1>7. Len(published') = p
    BY <1>1
  <1>8. \A o \in Gate \ {g} : Read(o)' = Read(o)
    BY <1>1, <1>2 DEF Read
  <1>9. "events" \in channels[g]
    BY <1>1 DEF EventInv, QueuesFollow
  <1> HIDE DEF e, queue, p, n
  <1>10. Read(g)' = (p - n) + 1
    <2>1. n \in Nat /\ p \in Nat
      BY <1>2
    <2>2. Read(g)' = p - (n - 1)
      BY <1>6, <1>7 DEF Read
    <2>3. QED
      BY <2>1, <2>2
  <1>11. e = (p - n) + 1 /\ e \in Nat
    <2>1. 1 \in 1..n
      BY <1>2, <1>5
    <2>2. queue[1] = (p - n) + 1
      BY <1>3, <2>1
    <2>3. QED
      BY <1>2, <1>3, <1>4, <2>2
  <1>12. QueuesFollow'
    <2> SUFFICES ASSUME NEW o \in Gate
                 PROVE  /\ Len(events'[o]) <= Len(published')
                        /\ \A i \in 1..Len(events'[o]) :
                             events'[o][i] = Read(o)' + i
                        /\ "events" \notin channels'[o] => events'[o] = <<>>
      BY DEF QueuesFollow
    <2>1. CASE o = g
      <3>1. ASSUME NEW i \in 1..(n - 1)
            PROVE  events'[g][i] = ((p - n) + 1) + i
        <4>1. i + 1 \in 1..n
          BY <1>2
        <4>2. queue[i + 1] = (p - n) + (i + 1)
          BY <1>3, <4>1
        <4>3. events'[g][i] = queue[i + 1]
          BY <1>6
        <4>4. n \in Nat /\ p \in Nat
          BY <1>2
        <4>5. QED
          BY <4>2, <4>3, <4>4
      <3>2. Len(events'[g]) <= Len(published')
        BY <1>2, <1>3, <1>6, <1>7
      <3>3. \A i \in 1..Len(events'[g]) : events'[g][i] = Read(g)' + i
        BY <1>6, <1>10, <3>1
      <3>4. QED
        BY <1>1, <1>9, <2>1, <3>2, <3>3
    <2>2. CASE o # g
      <3>1. events'[o] = events[o] /\ Read(o)' = Read(o)
        BY <1>2, <1>8, <2>2
      <3>2. QED
        BY <1>1, <3>1 DEF EventInv, QueuesFollow
    <2>3. QED
      BY <2>1, <2>2
  <1>13. ASSUME NEW b \in Browser, stream'[b] # NoStream, b \notin missed'
         PROVE  Follows(b)'
    <2> DEFINE at_ == stream[b].gate
               user == stream[b].user
               shown == seen[b]
               m == Len(shown)
    <2>1. Follows(b) /\ at_ \in Gate /\ stream[b] # NoStream
      BY <1>1, <1>13, StreamGate DEF EventInv, StreamsFollow
    <2>2. CASE at_ # g
      <3>1. b \notin Listeners(g, e)
        BY <2>2 DEF Listeners, Streams
      <3>2. seen'[b] = seen[b]
        BY <1>1, <3>1
      <3>3. "events" \in channels'[at_] /\ Read(at_)' = Read(at_)
        BY <1>1, <1>8, <2>1, <2>2 DEF Follows
      <3>4. QED
        BY <1>1, <2>1, <3>2, <3>3, FollowsStays
    <2>3. ASSUME at_ = g
          PROVE  Follows(b)'
      <3>1. shown \in Seq(Nat) /\ m \in Nat /\ since[b] \in Nat
        BY DEF TypeOK
      <3>2. /\ \A i \in 1..m : shown[i] \in 1..(p - n) /\ published[shown[i]] = user
            /\ \A i, j \in 1..m : i < j => shown[i] < shown[j]
            /\ \A d \in 1..(p - n) : published[d] = user /\ Due(b, shown, d) =>
                 \E i \in 1..m : shown[i] = d
        BY <1>3, <2>1, <2>3 DEF Follows
      <3>3. b \in Listeners(g, e) <=> published[e] = user
        BY <2>3 DEF Listeners, Streams
      <3>4. UNCHANGED <<stream, since, published, channels>>
        BY <1>1
      <3>5. CASE published[e] # user
        <4>1. seen'[b] = shown
          BY <1>1, <3>3, <3>5
        <4>2. \A d \in 1..((p - n) + 1) : published[d] = user => d \in 1..(p - n)
          BY <1>2, <1>3, <1>11, <3>5
        <4>3. 1..(p - n) \subseteq 1..((p - n) + 1)
          BY <1>2, <1>3
        <4>4. \A d : Due(b, seen[b], d)' <=> Due(b, shown, d)
          BY <3>4, <4>1 DEF Due
        <4> HIDE DEF shown, user, m
        <4>5. /\ \A i \in 1..m : /\ shown[i] \in 1..((p - n) + 1)
                                 /\ published[shown[i]] = user
              /\ \A d \in 1..((p - n) + 1) :
                   published[d] = user /\ Due(b, shown, d) =>
                     \E i \in 1..m : shown[i] = d
          BY <3>2, <4>2, <4>3
        <4>6. QED
          BY <1>9, <1>10, <2>3, <3>2, <3>4, <4>1, <4>4, <4>5
             DEF Follows, shown, user, m
      <3>6. CASE published[e] = user
        <4>1. seen'[b] = Append(shown, e)
          BY <1>1, <3>3, <3>6
        <4> DEFINE line == seen'[b]
        <4>2. /\ Len(line) = m + 1
              /\ \A i \in 1..m : line[i] = shown[i]
              /\ line[m + 1] = e
          BY <1>11, <3>1, <4>1
        <4> HIDE DEF shown, user, m, line
        <4>3. \A i \in 1..(m + 1) : i \in 1..m \/ i = m + 1
          BY <3>1
        <4>4. \A i \in 1..(m + 1) : /\ line[i] \in 1..((p - n) + 1)
                                    /\ published[line[i]] = user
          BY <1>2, <1>3, <1>11, <3>2, <3>6, <4>2, <4>3
        <4>5. \A i, j \in 1..(m + 1) : i < j => line[i] < line[j]
          <5> SUFFICES ASSUME NEW i \in 1..(m + 1), NEW j \in 1..(m + 1), i < j
                       PROVE  line[i] < line[j]
            OBVIOUS
          <5>1. i \in 1..m
            BY <3>1
          <5>2. CASE j \in 1..m
            BY <3>2, <4>2, <5>1, <5>2
          <5>3. CASE j = m + 1
            <6>1. line[i] \in 1..(p - n)
              BY <3>2, <4>2, <5>1
            <6>2. QED
              BY <1>2, <1>3, <1>11, <4>2, <5>3, <6>1
          <5>4. QED
            BY <4>3, <5>2, <5>3
        <4>6. ASSUME NEW d \in 1..((p - n) + 1), published[d] = user,
                     Due(b, seen[b], d)'
              PROVE  \E i \in 1..(m + 1) : line[i] = d
          <5>1. CASE d = e
            <6>1. m + 1 \in 1..(m + 1)
              BY <3>1
            <6>2. QED
              BY <4>2, <5>1, <6>1
          <5>2. CASE d # e
            <6>1. d \in 1..(p - n)
              BY <1>2, <1>3, <1>11, <5>2
            <6>2. Due(b, shown, d)
              <7>1. CASE d > since[b]
                BY <7>1 DEF Due
              <7>2. ASSUME NEW i \in 1..Len(line), line[i] < d
                    PROVE  Due(b, shown, d)
                <8>1. i \in 1..m
                  <9>1. i # m + 1
                    BY <1>2, <1>3, <1>11, <4>2, <6>1, <7>2
                  <9>2. QED
                    BY <4>2, <4>3, <9>1
                <8>2. shown[i] < d
                  BY <4>2, <7>2, <8>1
                <8>3. QED
                  BY <8>1, <8>2 DEF Due, m
              <7>3. QED
                BY <3>4, <4>6, <7>1, <7>2 DEF Due, line
            <6>3. PICK i \in 1..m : shown[i] = d
              BY <3>2, <4>6, <6>1, <6>2
            <6>4. i \in 1..(m + 1) /\ line[i] = d
              BY <3>1, <4>2, <6>3
            <6>5. QED
              BY <6>4
          <5>3. QED
            BY <5>1, <5>2
        <4>7. QED
          BY <1>9, <1>10, <2>3, <3>4, <4>2, <4>4, <4>5, <4>6
             DEF Follows, user, line
      <3>7. QED
        BY <3>5, <3>6
    <2>4. QED
      BY <2>2, <2>3
  <1>14. ASSUME NEW b \in Browser
         PROVE  /\ since'[b] <= Len(published')
                /\ stream'[b] = NoStream => seen'[b] = <<>>
    <2>1. stream[b] = NoStream => b \notin Listeners(g, e)
      BY DEF Listeners, Streams, NoStream
    <2>2. stream[b] = NoStream => seen'[b] = seen[b]
      BY <1>1, <2>1
    <2>3. QED
      BY <1>1, <2>2 DEF EventInv, StreamsFollow
  <1>15. QED
    BY <1>12, <1>13, <1>14 DEF EventInv, StreamsFollow

\* Every step keeps what the streams and the queues are.
LEMMA StepEvents == TypeOK /\ EventInv /\ [Next]_vars => EventInv'
  <1> SUFFICES ASSUME TypeOK, EventInv, [Next]_vars
               PROVE  EventInv'
    OBVIOUS
  <1>1. CASE UNCHANGED <<eventVars, channels>>
    BY <1>1, QuietFollow DEF eventVars
  <1>2. ASSUME NEW g \in Gate, NEW channel \in Channel, SetUp(g, channel)
        PROVE  EventInv'
    <2>1. /\ channels' = [channels EXCEPT ![g] = @ \cup {channel}]
          /\ UNCHANGED <<stream, seen, missed, since, published, events>>
      BY <1>2 DEF SetUp, eventVars
    <2>2. \A o \in Gate : "events" \in channels[o] => "events" \in channels'[o]
      BY <2>1 DEF TypeOK
    <2>3. QED
      BY <2>1, <2>2, QuietFollow
  <1>3. ASSUME NEW g \in Gate, Connect(g) \/ Await(g) \/ OnRpcReply(g)
        PROVE  UNCHANGED <<eventVars, channels>>
    BY <1>3 DEF Connect, Await, OnRpcReply, linkVars
  <1>4. ASSUME NEW g \in Gate, NEW r \in Request, Submit(r, g) \/ Flush(g, r)
        PROVE  UNCHANGED <<eventVars, channels>>
    BY <1>4 DEF Submit, Flush, linkVars
  <1>5. ASSUME NEW r \in Request, Reject(r) \/ TimeOut(r)
        PROVE  UNCHANGED <<eventVars, channels>>
    BY <1>5 DEF Reject, TimeOut, linkVars
  <1>6. ASSUME NEW s \in Server,
               \/ ServerConnects(s) \/ ServerLosesConnection(s)
               \/ \E cmd \in commands : Deliver(s, cmd)
        PROVE  UNCHANGED <<eventVars, channels>>
    BY <1>6 DEF ServerConnects, ServerLosesConnection, Deliver, linkVars
  <1>7. ASSUME NEW h \in work,
               \/ \E result \in Result : Respond(h, result)
               \/ Acknowledge(h) \/ AcknowledgeInVain(h)
        PROVE  UNCHANGED <<eventVars, channels>>
    BY <1>7 DEF Respond, Acknowledge, AcknowledgeInVain, linkVars
  <1>8. ASSUME NEW k \in Key, Decide(k)
        PROVE  UNCHANGED <<eventVars, channels>>
    BY <1>8 DEF Decide, linkVars
  <1>9. CASE UNCHANGED vars
    BY <1>1, <1>9 DEF vars, linkVars
  <1>10. CASE Next
    BY <1>1, <1>2, <1>3, <1>4, <1>5, <1>6, <1>7, <1>8, <1>10,
       LoseConnectionFollow, CrashFollow, LeaveFollow, SubscribeFollow,
       PublishFollow, OnEventFollow
       DEF Next
  <1>11. QED
    BY <1>9, <1>10

\* A stream whose gate keeps its connection shows the events of its user in
\* order, each once and without a gap, for every number of gates, browsers and
\* events, and however publishing, pushing, opening and closing interleave.
THEOREM StreamsAreComplete == Spec => []StreamsHaveNoGaps
  <1>1. Spec => []EventInv
    BY TypeCorrect, InitEvents, StepEvents, PTL DEF Spec
  <1>2. TypeOK /\ EventInv => StreamsHaveNoGaps
    BY FollowingHasNoGaps
  <1>3. QED
    BY <1>1, <1>2, TypeCorrect, PTL

-------------------------------------------------------------------------------
(* The gateway implements AccountCreation. *)

Told(r) == IF http[r] = "Created" THEN KeyOf[r] ELSE NoKey

\* A request that is told of success is told of an account that is created.
LEMMA PromisedAnswers ==
  ASSUME TypeOK', AnswersMatch'
  PROVE  Accounts!Tell
  <1>1. ASSUME NEW r \in Request
        PROVE  \/ Told(r)' = NoKey
               \/ Told(r)' \in Key /\ accounts'[Told(r)'].phase = "created"
    <2>1. CASE http'[r] = "Created" /\ KeyOf[r] # NoKey
      <3>1. Told(r)' = KeyOf[r] /\ KeyOf[r] \in Key
        BY <2>1 DEF Told
      <3>2. accounts'[KeyOf[r]] = [phase |-> "created", payload |-> PayloadOf[r],
                                   user |-> given'[r]]
        BY <2>1 DEF AnswersMatch
      <3>3. accounts'[KeyOf[r]].phase = "created"
        BY <3>2
      <3>4. QED
        BY <3>1, <3>3
    <2>2. CASE ~(http'[r] = "Created" /\ KeyOf[r] # NoKey)
      BY <2>2 DEF Told
    <2>3. QED
      BY <2>1, <2>2
  <1>2. QED
    BY <1>1 DEF Accounts!Tell, Told

\* Accounts are asked for, created and refused as AccountCreation has it.
LEMMA PromisedAccounts ==
  ASSUME TypeOK, Keyed, [Next]_vars
  PROVE  \/ UNCHANGED accounts
         \/ \E k \in Key : \/ \E p \in Payload : Accounts!Ask(k, p)
                           \/ Accounts!Create(k, accounts'[k].user)
                           \/ Accounts!Refuse(k)
  <1>1. ASSUME NEW s \in Server, NEW cmd \in commands, Deliver(s, cmd)
        PROVE  \/ UNCHANGED accounts
               \/ \E k \in Key : \E p \in Payload : Accounts!Ask(k, p)
    <2>1. cmd.req \in Request
      BY DEF TypeOK, Copy
    <2>2. KeyOf[cmd.req] \in Key /\ PayloadOf[cmd.req] \in Payload
      BY <2>1 DEF Keyed
    <2>3. QED
      BY <1>1, <2>2 DEF Deliver
  <1>2. ASSUME NEW k \in Key, Decide(k)
        PROVE  Accounts!Create(k, accounts'[k].user) \/ Accounts!Refuse(k)
    <2>1. ASSUME NEW user, Accounts!Create(k, user)
          PROVE  Accounts!Create(k, accounts'[k].user)
      <3>1. accounts' = [accounts EXCEPT ![k] =
                           [phase |-> "created", payload |-> accounts[k].payload,
                            user |-> user]]
        BY <2>1 DEF Accounts!Create
      <3>2. accounts'[k] = [phase |-> "created", payload |-> accounts[k].payload,
                            user |-> user]
        BY <3>1 DEF TypeOK
      <3>3. accounts'[k].user = user
        BY <3>2
      <3>4. QED
        BY <2>1, <3>3
    <2>2. QED
      BY <1>2, <2>1 DEF Decide
  <1>3. CASE UNCHANGED rpcVars
    BY <1>3 DEF rpcVars
  <1>4. CASE RpcStep
    BY <1>1, <1>2, <1>4
       DEF RpcStep, LoseConnection, Crash, OnRpcReply, Submit, Flush, Reject,
           TimeOut, ServerLosesConnection, Respond, Acknowledge,
           AcknowledgeInVain
  <1>5. QED
    BY <1>3, <1>4, EveryRpcStep

\* The browsers see AccountCreation: one account for a key, of the payload that
\* came first, an outcome that stays, and nobody told of an account before it
\* is created, whatever the gates, the connections and the replies go through.
THEOREM GatewayKeepsThePromise == Spec => KeepsPromise
  <1>1. Init => Accounts!Init
    <2> SUFFICES ASSUME Init
                 PROVE  Accounts!Init
      OBVIOUS
    <2>1. accounts = [k \in Key |-> Accounts!NoAccount]
      BY DEF Init
    <2>2. \A r \in Request : http[r] = "none"
      BY DEF Init
    <2>3. QED
      BY <2>1, <2>2 DEF Accounts!Init
  <1>2. IInv /\ IInv' /\ [Next]_vars =>
          [Accounts!Next]_<<accounts, [r \in Request |-> Told(r)]>>
    BY PromisedAccounts, PromisedAnswers DEF IInv, Accounts!Next
  <1>3. QED
    BY <1>1, <1>2, Invariant, PTL DEF Spec, KeepsPromise, Accounts!Spec, Told
================================================================================
