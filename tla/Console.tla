-------------------------------- MODULE Console --------------------------------
(***************************************************************************)
(* The console page for manual tests of the API                            *)
(* (manual-api-console.runtime.js).  A click starts a handler, which runs  *)
(* up to its next answer from the network or from crypto.subtle; the       *)
(* handlers of other clicks run in between.  A job is a handler that has   *)
(* started, known by the number of its click.  What runs on in the         *)
(* microtasks of a click is part of the click.                             *)
(*                                                                         *)
(* A user and a payment are known by the idempotency key that made their   *)
(* account.  The screen is a copy of the state, renewed by the render*     *)
(* functions when a handler calls them: flow, strip, board and the drawer  *)
(* are what the screen shows.                                              *)
(***************************************************************************)
EXTENDS Naturals

CONSTANTS Key, None,
          Restored,     \* controls that local storage may hold at the start
          Generated,    \* keys that crypto.randomUUID may return
          Service,      \* 1..n, in the order a sweep visits them
          MaxClicks,
          MaxLog        \* bound on the log while events arrive

ASSUME NoneIsNoKey == None \notin Key
ASSUME ServicesAreNumbered ==
         1 \in Service /\ \A s \in Service : s \in Nat \ {0} /\ 1..s \subseteq Service
ASSUME ClicksAreBounded == MaxClicks \in Nat \ {0} /\ None \notin 1..MaxClicks
ASSUME KeysAreKeys == Generated \subseteq Key
ASSUME LogIsBounded == MaxLog \in Nat

VARIABLES controls,     \* the controls that are kept in local storage
          saved,        \* what local storage holds
          key,          \* the idempotency key of the account form
          form,         \* the webhook form
          account,      \* lastAccount
          accepted,     \* lastWebhookAcceptedAt is set
          types,        \* eventTypes
          announced,    \* payments in notificationDedupe
          notified,     \* lastNotification
          status,       \* streamStatus
          handle,       \* activeEventStream, by its job
          pulse,        \* healthPulse
          view,         \* resultCache, activeResultId, the log, the drawer
          flow, strip, board,   \* shown of the state: progress, context, health
          jobs, clicks

inputs == <<controls, saved, key, form>>
facts == <<account, accepted, types, announced, notified>>
link == <<status, handle>>
health == <<pulse, board>>
vars == <<inputs, facts, link, health, view, flow, strip, jobs, clicks>>

Job == 1..MaxClicks
ResultId == {"accounts", "events", "webhook", "tools"}
EventType == {"payment", "premium"}
Mode == {"confirmed", "unsupported", "invalid", "expired"}

\* base: the base URL is one; headers: the global headers are JSON.
Controls == [base : BOOLEAN, headers : BOOLEAN, credentials : BOOLEAN,
             token : Key \cup {None}, user : Key \cup {None}]

ASSUME RestoredAreControls == Restored \subseteq Controls

Body == [of : Key \cup {None}, confirmed : BOOLEAN]

\* What is signed: whether the timestamp is 15 minutes old, and the body.
Signature == [old : BOOLEAN, body : Body, valid : BOOLEAN]
Sign(isOld, body) == [old |-> isOld, body |-> body, valid |-> TRUE]

Form == [old : BOOLEAN, body : Body, signature : Signature \cup {None}]

Shown == [job : Job, ok : BOOLEAN, log : Nat]

ASSUME NoneIsNoResult == None \notin Shown

Idle == [kind |-> "idle"]
Task ==
  {Idle} \cup [kind : {"account"}, key : Key \cup {None}]
  \cup [kind : {"request"}, result : ResultId]
  \cup [kind : {"jwt"}, user : Key, connects : BOOLEAN]
  \cup [kind : {"stream"}, at : {"fetch", "read", "thrown"}]
  \cup [kind : {"refresh"}, old : BOOLEAN, body : Body, sends : BOOLEAN]
  \cup [kind : {"webhook"}, at : {"sign", "fetch", "accepted"}, mode : Mode,
        old : BOOLEAN, body : Body, signature : Signature \cup {None}]
  \cup [kind : {"sweep"}, next : Service \cup {None}]

-------------------------------------------------------------------------------
(* The screen. *)

\* renderFlowProgress.
Flow ==
  [edge |-> IF pulse[1] = "up" THEN "done"
            ELSE IF pulse[1] = "checking" THEN "live"
            ELSE IF pulse[1] = "down" THEN "warn" ELSE "idle",
   account |-> IF account # None THEN "done" ELSE "idle",
   auth |-> IF controls.token # None \/ (controls.credentials /\ account # None)
            THEN "done" ELSE IF account # None THEN "warn" ELSE "idle",
   stream |-> CASE status = "connected" -> "done" [] status = "opening" -> "live"
                [] status = "error" -> "warn" [] OTHER -> "idle",
   webhook |-> IF accepted THEN "done"
               ELSE IF account # None THEN "warn" ELSE "idle",
   payment |-> IF "payment" \in types THEN "done"
               ELSE IF accepted THEN "live" ELSE "idle",
   premium |-> IF "premium" \in types THEN "done"
               ELSE IF "payment" \in types THEN "live" ELSE "idle"]

\* renderContextStrip.
Strip == [base |-> controls.base, credentials |-> controls.credentials,
          auth |-> controls.token # None, stream |-> status]

\* In an action these come after the state that they show.
RenderFlow == flow' = Flow'
RenderStrip == strip' = Strip'
RenderStackPulse == board' = pulse'
SavePersistedControls == saved' = controls'

\* openResultDrawer, syncResultDrawer.
Drawn(v, r) == [v EXCEPT !.active = r, !.drawer = v.cache[r]]

\* renderResult: the result of job i goes to the cache, that of the events
\* route with the log of its stream, and the drawer opens on it.
Rendered(v, r, i, ok) ==
  Drawn([v EXCEPT !.cache[r] = [job |-> i, ok |-> ok,
                                log |-> IF r = "events" THEN v.log ELSE 0]], r)

\* The log is now n lines long, in the cached result too if there is one, and
\* in the drawer if that is the one it shows.
Logged(v, n) ==
  LET w == [v EXCEPT !.log = n]
      x == IF v.cache["events"] = None THEN w
           ELSE [w EXCEPT !.cache["events"].log = n]
  IN IF v.active = "events" THEN Drawn(x, "events") ELSE x

\* Mutant: an open drawer is not renewed.
AppendedUnseen(v, n) ==
  [v EXCEPT !.log = @ + n,
            !.cache["events"] = IF @ = None THEN None
                                ELSE [@ EXCEPT !.log = v.log + n]]

\* n calls of appendStreamLog.
Appended(v, n) == Logged(v, v.log + n)

\* closeResultDrawer.
Closed(v) == [v EXCEPT !.active = None, !.drawer = None]

-------------------------------------------------------------------------------
\* The page has loaded, with controls restored, and its first sweep is done.
Init ==
  /\ controls \in Restored
  /\ saved = controls
  /\ key \in Generated
  /\ form = [old |-> FALSE, body |-> [of |-> None, confirmed |-> TRUE],
             signature |-> Sign(FALSE, [of |-> None, confirmed |-> TRUE])]
  /\ account = None
  /\ accepted = FALSE
  /\ types = {}
  /\ announced = {}
  /\ notified = None
  /\ status = "idle"
  /\ handle = None
  /\ pulse = [s \in Service |-> "up"]
  /\ view = [cache |-> [r \in ResultId |-> None], active |-> None, log |-> 0,
             drawer |-> None]
  /\ flow = Flow
  /\ strip = Strip
  /\ board = pulse
  /\ jobs = [i \in Job |-> Idle]
  /\ clicks = 0

Click == clicks < MaxClicks /\ clicks' = clicks + 1

\* The job of the click that is under way.
This == clicks + 1

Begins(task) == jobs' = [jobs EXCEPT ![This] = task]
Becomes(i, task) == jobs' = [jobs EXCEPT ![i] = task]

Shows(v) == view' = v

-------------------------------------------------------------------------------
(* Controls. *)

\* The listener of input events saves the controls and renews the screen, but
\* not for the global headers.
Input(f, x) ==
  /\ Click
  /\ x # controls[f]
  /\ controls' = [controls EXCEPT ![f] = x]
  /\ SavePersistedControls
  /\ UNCHANGED <<key, form, facts, link, health, view, jobs>>
  /\ IF f = "headers" THEN UNCHANGED <<flow, strip>> ELSE RenderFlow /\ RenderStrip

\* One control at a time.
TypeControl ==
  \/ \E f \in {"base", "headers", "credentials"}, x \in BOOLEAN : Input(f, x)
  \/ \E f \in {"token", "user"}, k \in Key : Input(f, k)

ClearToken ==
  /\ Click
  /\ controls' = [controls EXCEPT !.token = None]
  /\ SavePersistedControls
  /\ UNCHANGED <<key, form, facts, link, health, view, jobs>>
  /\ RenderStrip /\ RenderFlow

UseLatestUserId ==
  /\ Click
  /\ account # None
  /\ controls' = [controls EXCEPT !.user = account.user]
  /\ SavePersistedControls
  /\ UNCHANGED <<key, form, facts, link, health, view, flow, jobs>>
  /\ RenderStrip

\* Mutant: the progress shown is not renewed.
ClearStateUnseen ==
  /\ Click
  /\ account' = None
  /\ accepted' = FALSE
  /\ types' = {}
  /\ UNCHANGED <<inputs, announced, notified, link, health, view, flow, strip,
                 jobs>>

\* "Clear state": requests under way are not called back.
ClearState ==
  /\ Click
  /\ account' = None
  /\ accepted' = FALSE
  /\ types' = {}
  /\ UNCHANGED <<inputs, announced, notified, link, health, view, strip, jobs>>
  /\ RenderFlow

ClearBanner ==
  /\ Click
  /\ notified' = None
  /\ UNCHANGED <<inputs, account, accepted, types, announced, link, health, view,
                 flow, strip, jobs>>

\* Another key than a generated one is typed, or the key removed.
TypeKey(k) ==
  /\ Click
  /\ k # key
  /\ key' = k
  /\ UNCHANGED <<controls, saved, form, facts, link, health, view, flow, strip,
                 jobs>>

\* ensureAccountKey: a key of its own if the form has none.
EnsuredKey(k) == IF key = None THEN k ELSE key

GenerateKey(k) ==
  /\ Click
  /\ key' = EnsuredKey(k)
  /\ UNCHANGED <<controls, saved, form, facts, link, health, view, flow, strip,
                 jobs>>

-------------------------------------------------------------------------------
(* Requests. *)

\* What buildHeaders and buildUrl make of the controls: the error of unreadable
\* headers is rendered; an unusable URL throws outside the try block.
HeadersFail(r, i) == ~controls.headers /\ Shows(Rendered(view, r, i, FALSE))
UrlThrows == controls.headers /\ ~controls.base /\ UNCHANGED view
Sends(task) == controls.headers /\ controls.base /\ Begins(task) /\ UNCHANGED view

\* Health probe, custom request, probe of /events.
Ask(r) ==
  /\ Click
  /\ \/ (HeadersFail(r, This) \/ UrlThrows) /\ UNCHANGED jobs
     \/ Sends([kind |-> "request", result |-> r])
  /\ UNCHANGED <<inputs, facts, link, health, flow, strip>>

\* runSimpleRequest ends in a result or in a rendered error.
Answered(i) ==
  /\ jobs[i].kind = "request"
  /\ \E ok \in BOOLEAN : Shows(Rendered(view, jobs[i].result, i, ok))
  /\ Becomes(i, Idle)
  /\ UNCHANGED <<inputs, facts, link, health, flow, strip, clicks>>

\* runAccountScenario, with the key of the form, a new one or none at all.
CreateAccount(keyless, k) ==
  /\ Click
  /\ key' = IF keyless THEN key ELSE EnsuredKey(k)
  /\ \/ (HeadersFail("accounts", This) \/ UrlThrows) /\ UNCHANGED jobs
     \/ Sends([kind |-> "account", key |-> IF keyless THEN None ELSE key'])
  /\ UNCHANGED <<controls, saved, form, facts, link, health, flow, strip>>

\* Mutant: the key is read from the form again.
AccountAnsweredLate(i) ==
  /\ jobs[i].kind = "account"
  /\ jobs[i].key # None /\ key # None
  /\ account' = [key |-> key, user |-> jobs[i].key]
  /\ controls' = [controls EXCEPT !.user = jobs[i].key]
  /\ SavePersistedControls
  /\ Shows(Rendered(view, "accounts", i, TRUE))
  /\ Becomes(i, Idle)
  /\ UNCHANGED <<key, form, accepted, types, announced, notified, link, health,
                 clicks>>
  /\ RenderFlow /\ RenderStrip

\* A success answers with the user of the key that was sent.
AccountAnswered(i) ==
  /\ jobs[i].kind = "account"
  /\ Becomes(i, Idle)
  /\ UNCHANGED <<key, form, accepted, types, announced, notified, link, health,
                 clicks>>
  /\ \/ /\ jobs[i].key # None
        /\ account' = [key |-> jobs[i].key, user |-> jobs[i].key]
        /\ controls' = [controls EXCEPT !.user = jobs[i].key]
        /\ SavePersistedControls
        /\ Shows(Rendered(view, "accounts", i, TRUE))
        /\ RenderFlow /\ RenderStrip
     \/ /\ Shows(Rendered(view, "accounts", i, FALSE))
        /\ UNCHANGED <<controls, saved, account, flow, strip>>

-------------------------------------------------------------------------------
(* The event stream. *)

\* The stream of the handle, if it has not ended: to abort it makes its loop
\* end with "disconnected", once the handler that aborts it first awaits.
Aborted == {i \in Job : i = handle /\ jobs[i].kind = "stream"
                        /\ jobs[i].at \in {"fetch", "read"}}
Without(tasks, is) == [i \in Job |-> IF i \in is THEN Idle ELSE tasks[i]]

\* connectEvents as job i, from view v on.  The finally block of an aborted
\* stream clears the handle of the new one.
Connects(i, v) ==
  LET gone == Aborted
      opened == Appended(v, 1)
      told(w) == IF gone = {} THEN w ELSE Appended(w, 1)
      proceeds(at) ==
        /\ Shows(told(opened))
        /\ status' = IF gone = {} THEN "opening" ELSE "closed"
        /\ handle' = IF gone = {} THEN i ELSE None
        /\ jobs' = [Without(jobs, gone) EXCEPT ![i] = [kind |-> "stream",
                                                      at |-> at]]
  IN \/ /\ ~controls.headers
        /\ Shows(told(Rendered(opened, "events", i, FALSE)))
        /\ status' = "error"
        /\ handle' = None
        /\ jobs' = Without(jobs, gone \cup {i})
     \/ controls.headers /\ controls.base /\ proceeds("fetch")
     \/ controls.headers /\ ~controls.base /\ proceeds("thrown")

ConnectEvents ==
  /\ Click
  /\ Connects(This, view)
  /\ UNCHANGED <<inputs, facts, health>>
  /\ RenderStrip /\ RenderFlow

DisconnectEvents ==
  /\ Click
  /\ Shows(IF Aborted = {} THEN view ELSE Appended(view, 1))
  /\ jobs' = Without(jobs, Aborted)
  /\ status' = "closed"
  /\ handle' = None
  /\ UNCHANGED <<inputs, facts, health>>
  /\ RenderStrip /\ RenderFlow

ClearEventsLog ==
  /\ Click
  /\ Shows(Logged(view, 0))
  /\ UNCHANGED <<inputs, facts, link, health, flow, strip, jobs>>

IsStream(i, at) == jobs[i].kind = "stream" /\ jobs[i].at = at

\* The answer to GET /events: the loop begins, or the response is an error.
StreamAnswered(i) ==
  /\ IsStream(i, "fetch")
  /\ \/ /\ Shows(Rendered(view, "events", i, TRUE))
        /\ status' = "connected"
        /\ UNCHANGED handle
        /\ Becomes(i, [kind |-> "stream", at |-> "read"])
     \/ /\ Shows(Rendered(view, "events", i, FALSE))
        /\ status' = "error"
        /\ handle' = None
        /\ Becomes(i, Idle)
  /\ UNCHANGED <<inputs, facts, health, clicks>>
  /\ RenderStrip /\ RenderFlow

\* The network fails, before or after the answer.
StreamFails(i) ==
  /\ IsStream(i, "fetch") \/ IsStream(i, "read")
  /\ Shows(Rendered(Appended(view, 1), "events", i, FALSE))
  /\ status' = "error"
  /\ handle' = None
  /\ Becomes(i, Idle)
  /\ UNCHANGED <<inputs, facts, health, clicks>>
  /\ RenderStrip /\ RenderFlow

\* Mutant: the status is left.
StreamEndsUnsaid(i) ==
  /\ IsStream(i, "read")
  /\ Shows(Appended(view, 1))
  /\ handle' = None
  /\ Becomes(i, Idle)
  /\ UNCHANGED <<inputs, facts, health, status, flow, strip, clicks>>

\* Mutant: the handle is left.
StreamEndsHeld(i) ==
  /\ IsStream(i, "read")
  /\ Shows(Appended(view, 1))
  /\ status' = "closed"
  /\ Becomes(i, Idle)
  /\ UNCHANGED <<inputs, facts, health, handle, clicks>>
  /\ RenderStrip /\ RenderFlow

\* The server has closed the stream.
StreamEnds(i) ==
  /\ IsStream(i, "read")
  /\ Shows(Appended(view, 1))
  /\ status' = "closed"
  /\ handle' = None
  /\ Becomes(i, Idle)
  /\ UNCHANGED <<inputs, facts, health, clicks>>
  /\ RenderStrip /\ RenderFlow

\* consumeSseBuffer has a whole event.
StreamEvent(i, type) ==
  /\ IsStream(i, "read")
  /\ view.log < MaxLog
  /\ types' = types \cup {type}
  /\ Shows(Appended(view, 1))
  /\ UNCHANGED <<inputs, account, accepted, announced, notified, link, health,
                 strip, jobs, clicks>>
  /\ RenderFlow

-------------------------------------------------------------------------------
(* Tokens. *)

NoUserId == Rendered(view, "events", This, FALSE)

\* generateLocalJwt up to the signature.
GenerateLocalJwt ==
  /\ Click
  /\ \/ /\ controls.user = None
        /\ Shows(NoUserId)
        /\ UNCHANGED jobs
     \/ /\ controls.user # None
        /\ Begins([kind |-> "jwt", user |-> controls.user, connects |-> FALSE])
        /\ UNCHANGED view
  /\ UNCHANGED <<inputs, facts, link, health, flow, strip>>

\* The playbook takes the latest user for an empty field, and does not save it.
ArmStream ==
  LET user == IF controls.user = None /\ account # None THEN account.user
                                                       ELSE controls.user
  IN /\ Click
     /\ controls' = [controls EXCEPT !.user = user]
     /\ UNCHANGED <<saved, key, form, facts, health>>
     /\ \/ /\ user # None
           /\ Begins([kind |-> "jwt", user |-> user, connects |-> TRUE])
           /\ UNCHANGED <<view, link, flow, strip>>
        \/ /\ user = None /\ controls.token # None
           /\ Connects(This, NoUserId)
           /\ RenderStrip /\ RenderFlow
        \/ /\ user = None /\ controls.token = None
           /\ Shows(NoUserId)
           /\ UNCHANGED <<link, flow, strip, jobs>>

\* Mutant: the token is not saved.
JwtSignedUnsaved(i) ==
  /\ jobs[i].kind = "jwt"
  /\ ~jobs[i].connects
  /\ controls' = [controls EXCEPT !.token = jobs[i].user]
  /\ UNCHANGED <<view, link>>
  /\ Becomes(i, Idle)
  /\ UNCHANGED <<saved, key, form, facts, health, clicks>>
  /\ RenderStrip /\ RenderFlow

\* The playbook goes on to connect.
JwtSigned(i) ==
  /\ jobs[i].kind = "jwt"
  /\ controls' = [controls EXCEPT !.token = jobs[i].user]
  /\ SavePersistedControls
  /\ IF jobs[i].connects THEN Connects(i, view)
     ELSE Becomes(i, Idle) /\ UNCHANGED <<view, link>>
  /\ UNCHANGED <<key, form, facts, health, clicks>>
  /\ RenderStrip /\ RenderFlow

\* crypto.subtle refuses (an empty secret); the playbook goes on with the token
\* there is.
JwtFails(i) ==
  LET shown == Rendered(view, "events", i, FALSE) IN
  /\ jobs[i].kind = "jwt"
  /\ UNCHANGED <<inputs, facts, health, clicks>>
  /\ IF jobs[i].connects /\ controls.token # None
     THEN Connects(i, shown) /\ RenderStrip /\ RenderFlow
     ELSE Shows(shown) /\ Becomes(i, Idle) /\ UNCHANGED <<link, flow, strip>>

-------------------------------------------------------------------------------
(* The webhook form. *)

\* loadLatestPayment: the form is about the payment of the latest account, and
\* its signature is under way; the playbook will send it.
LoadLatestPayment(sends) ==
  LET body == [of |-> account.key, confirmed |-> TRUE] IN
  /\ Click
  /\ \/ /\ account = None
        /\ Shows(Rendered(view, "webhook", This, FALSE))
        /\ UNCHANGED <<form, jobs>>
     \/ /\ account # None
        /\ form' = [form EXCEPT !.old = FALSE, !.body = body]
        /\ Begins([kind |-> "refresh", old |-> FALSE, body |-> body,
                   sends |-> sends])
        /\ UNCHANGED view
  /\ UNCHANGED <<controls, saved, key, facts, link, health, flow, strip>>

\* refreshWebhookSignature up to the signature, with a new timestamp or not.
RefreshSignature(anew) ==
  /\ Click
  /\ form' = [form EXCEPT !.old = @ /\ ~anew]
  /\ Begins([kind |-> "refresh", old |-> form'.old, body |-> form.body,
             sends |-> FALSE])
  /\ UNCHANGED <<controls, saved, key, facts, link, health, view, flow, strip>>

\* sendWebhookVariant as job i up to the signature: the payload and, for an
\* expired one, the timestamp are written back to the form.
SendsWebhook(i, mode, f) ==
  LET isOld == f.old \/ mode = "expired"
      body == [f.body EXCEPT !.confirmed = mode # "unsupported"]
  IN /\ form' = [f EXCEPT !.old = isOld, !.body = body]
     /\ Becomes(i, [kind |-> "webhook", at |-> "sign", mode |-> mode,
                    old |-> isOld, body |-> body, signature |-> None])

SendWebhook(mode) ==
  /\ Click
  /\ SendsWebhook(This, mode, form)
  /\ UNCHANGED <<controls, saved, key, facts, link, health, view, flow, strip>>

\* A signature that was asked for reaches the form, or its error the screen.
Refreshed(i) ==
  /\ jobs[i].kind = "refresh"
  /\ \E signs \in BOOLEAN :
       LET f == IF signs THEN [form EXCEPT !.signature =
                                 Sign(jobs[i].old, jobs[i].body)] ELSE form
       IN /\ IF signs THEN UNCHANGED view
             ELSE Shows(Rendered(view, "webhook", i, FALSE))
          /\ IF jobs[i].sends THEN SendsWebhook(i, "confirmed", f)
             ELSE form' = f /\ Becomes(i, Idle)
  /\ UNCHANGED <<controls, saved, key, facts, link, health, flow, strip, clicks>>

\* The signature of a job, its last digit changed for an invalid one.
SignatureOf(job) == [Sign(job.old, job.body) EXCEPT !.valid = job.mode # "invalid"]

\* Mutant: what is sent is read from the form after the signature.
WebhookSignedLate(i) ==
  LET job == jobs[i] IN
  /\ job.kind = "webhook" /\ job.at = "sign"
  /\ controls.headers /\ controls.base
  /\ form' = [form EXCEPT !.signature = SignatureOf(job)]
  /\ Becomes(i, [job EXCEPT !.at = "fetch", !.body = form.body,
                           !.signature = SignatureOf(job)])
  /\ UNCHANGED <<controls, saved, key, facts, link, health, view, flow, strip,
                 clicks>>

\* crypto.subtle has answered, or thrown, which nobody catches.
WebhookSigned(i) ==
  LET job == jobs[i] IN
  /\ job.kind = "webhook" /\ job.at = "sign"
  /\ \/ Becomes(i, Idle) /\ UNCHANGED <<view, form>>
     \/ /\ form' = [form EXCEPT !.signature = SignatureOf(job)]
        /\ \/ /\ HeadersFail("webhook", i) \/ UrlThrows
              /\ Becomes(i, Idle)
           \/ /\ controls.headers /\ controls.base
              /\ Becomes(i, [job EXCEPT !.at = "fetch",
                                       !.signature = SignatureOf(job)])
              /\ UNCHANGED view
  /\ UNCHANGED <<controls, saved, key, facts, link, health, flow, strip, clicks>>

\* Mutant: one payment is taken for another of the same status.
EmitPaymentNotificationOnce(payment) ==
  \/ announced = {} /\ announced' = {payment} /\ notified' = payment
  \/ announced # {} /\ UNCHANGED <<announced, notified>>

\* emitPaymentNotification: not again within 2.5 seconds.
EmitPaymentNotification(payment) ==
  \/ announced' = announced \cup {payment} /\ notified' = payment
  \/ payment \in announced /\ UNCHANGED <<announced, notified>>

\* webhook-service takes no invalid and no old signature.
WebhookAnswered(i) ==
  LET job == jobs[i] IN
  /\ job.kind = "webhook" /\ job.at = "fetch"
  /\ UNCHANGED <<inputs, account, types, link, health, strip, clicks>>
  /\ \/ /\ job.mode = "confirmed" /\ ~job.old
        /\ Shows(Rendered(view, "webhook", i, TRUE))
        /\ accepted' = TRUE
        /\ EmitPaymentNotification(job.body.of)
        /\ Becomes(i, [job EXCEPT !.at = "accepted"])
        /\ RenderFlow
     \/ /\ Shows(Rendered(view, "webhook", i, FALSE))
        /\ Becomes(i, Idle)
        /\ UNCHANGED <<accepted, announced, notified, flow>>

-------------------------------------------------------------------------------
(* Health. *)

\* runHealthSweep up to its first fetch.
HealthSweep ==
  /\ Click
  /\ pulse' = [s \in Service |-> "checking"]
  /\ Begins([kind |-> "sweep", next |-> IF controls.base THEN 1 ELSE None])
  /\ UNCHANGED <<inputs, facts, link, view, flow, strip>>
  /\ RenderStackPulse

\* The end of a sweep.
Swept(i) == Becomes(i, Idle) /\ RenderStackPulse /\ RenderFlow

\* Mutant: the sweep stops at a service that is down.
SweepServiceUntilDown(i) ==
  LET s == jobs[i].next IN
  /\ jobs[i].kind = "sweep"
  /\ s # None
  /\ UNCHANGED <<inputs, facts, link, view, strip, clicks>>
  /\ \E answer \in {"up", "down"} :
       /\ pulse' = [pulse EXCEPT ![s] = answer]
       /\ IF answer = "down" \/ s + 1 \notin Service THEN Swept(i)
          ELSE Becomes(i, [jobs[i] EXCEPT !.next = s + 1])
               /\ UNCHANGED <<board, flow>>

\* Mutant: the sweep goes on past the last service.
SweepServiceOn(i) ==
  LET s == jobs[i].next IN
  /\ jobs[i].kind = "sweep"
  /\ s \in Service
  /\ pulse' = [pulse EXCEPT ![s] = "up"]
  /\ Becomes(i, [jobs[i] EXCEPT !.next = s + 1])
  /\ UNCHANGED <<inputs, facts, link, view, strip, board, flow, clicks>>

\* The two fetches of a service: answered, refused or timed out.  A base URL
\* that has become unusable throws, and the sweep never ends.
SweepService(i) ==
  LET s == jobs[i].next IN
  /\ jobs[i].kind = "sweep"
  /\ s # None
  /\ UNCHANGED <<inputs, facts, link, view, strip, clicks>>
  /\ \/ /\ controls.base
        /\ \E answer \in {"up", "degraded", "down"} :
             pulse' = [pulse EXCEPT ![s] = answer]
        /\ IF s + 1 \notin Service THEN Swept(i)
           ELSE Becomes(i, [jobs[i] EXCEPT !.next = s + 1])
                /\ UNCHANGED <<board, flow>>
     \/ /\ ~controls.base
        /\ Becomes(i, [jobs[i] EXCEPT !.next = None])
        /\ UNCHANGED <<pulse, board, flow>>

-------------------------------------------------------------------------------
(* The result drawer. *)

OpenResult(r) ==
  /\ Click
  /\ view.cache[r] # None
  /\ Shows(Drawn(view, r))
  /\ UNCHANGED <<inputs, facts, link, health, flow, strip, jobs>>

ClearResult(r) ==
  LET cleared == [view EXCEPT !.cache[r] = None] IN
  /\ Click
  /\ Shows(IF view.active = r THEN Closed(cleared) ELSE cleared)
  /\ UNCHANGED <<inputs, facts, link, health, flow, strip, jobs>>

CloseResultDrawer ==
  /\ Click
  /\ view.active # None
  /\ Shows(Closed(view))
  /\ UNCHANGED <<inputs, facts, link, health, flow, strip, jobs>>

-------------------------------------------------------------------------------
Clicks ==
  \/ TypeControl \/ ClearToken \/ UseLatestUserId \/ ClearState \/ ClearBanner
  \/ \E k \in (Key \ Generated) \cup {None} : TypeKey(k)
  \/ \E k \in Generated : GenerateKey(k)
                         \/ \E keyless \in BOOLEAN : CreateAccount(keyless, k)
  \/ \E r \in {"events", "tools"} : Ask(r)
  \/ ConnectEvents \/ DisconnectEvents \/ ClearEventsLog
  \/ GenerateLocalJwt \/ ArmStream
  \/ \E sends \in BOOLEAN : LoadLatestPayment(sends)
  \/ \E anew \in BOOLEAN : RefreshSignature(anew)
  \/ \E mode \in Mode : SendWebhook(mode)
  \/ HealthSweep
  \/ \E r \in ResultId : OpenResult(r) \/ ClearResult(r)
  \/ CloseResultDrawer

Continues(i) ==
  \/ Answered(i) \/ AccountAnswered(i)
  \/ StreamAnswered(i) \/ StreamFails(i) \/ StreamEnds(i)
  \/ \E type \in EventType : StreamEvent(i, type)
  \/ JwtSigned(i) \/ JwtFails(i)
  \/ Refreshed(i) \/ WebhookSigned(i) \/ WebhookAnswered(i)
  \/ SweepService(i)

Next == Clicks \/ \E i \in Job : Continues(i)

Spec == Init /\ [][Next]_vars

-------------------------------------------------------------------------------
(* Properties. *)

TypeOK ==
  /\ controls \in Controls /\ saved \in Controls
  /\ key \in Key \cup {None}
  /\ form \in Form
  /\ account \in [key : Key, user : Key] \cup {None}
  /\ accepted \in BOOLEAN
  /\ types \subseteq EventType
  /\ announced \subseteq Key \cup {None}
  /\ notified \in Key \cup {None}
  /\ status \in {"idle", "opening", "connected", "closed", "error"}
  /\ handle \in Job \cup {None}
  /\ pulse \in [Service -> {"checking", "up", "degraded", "down"}]
  /\ board \in [Service -> {"checking", "up", "degraded", "down"}]
  /\ view \in [cache : [ResultId -> Shown \cup {None}],
               active : ResultId \cup {None}, log : Nat,
               drawer : Shown \cup {None}]
  /\ jobs \in [Job -> Task]
  /\ clicks \in 0..MaxClicks

\* However many requests are under way and whatever is typed meanwhile, the
\* latest account is the one of the key it is shown with.
AccountIsOfItsKey == account # None => account.key = account.user

\* The payments announced are those whose confirmation was accepted: a second
\* one within the 2.5 seconds of the first is not taken for it.
AnnouncedIsAccepted ==
  /\ announced = {jobs[i].body.of : i \in {j \in Job :
                     jobs[j].kind = "webhook" /\ jobs[j].at = "accepted"}}
  /\ notified \in announced \cup {None}

\* What the console says of accounts and payments is so.
FactsAreTrue == AccountIsOfItsKey /\ AnnouncedIsAccepted

\* A webhook is sent with the signature of its own timestamp and body, whatever
\* has become of the form since it was signed.
SentIsSigned ==
  \A i \in Job : jobs[i].kind = "webhook" /\ jobs[i].at = "fetch" =>
    jobs[i].signature = SignatureOf(jobs[i])

\* An open drawer shows the cached result of its route, and the cached result
\* of the events route carries the log as it is, however streams, answers and
\* clicks on clear and open follow each other.
DrawerShowsCache ==
  /\ view.active # None => /\ view.cache[view.active] # None
                           /\ view.drawer = view.cache[view.active]
  /\ view.cache["events"] # None => view.cache["events"].log = view.log

\* The progress and the context strip are always those of the state, health when
\* no sweep is unfinished.
PanelsAreCurrent ==
  /\ \A step \in DOMAIN Flow \ {"edge"} : flow[step] = Flow[step]
  /\ strip = Strip
  /\ (\A i \in Job : jobs[i].kind # "sweep") =>
       board = pulse /\ flow.edge = Flow.edge

\* What a reload restores: all the controls, but for a user id that the playbook
\* has filled in and made no token for.
ReloadRestores ==
  /\ saved = [controls EXCEPT !.user = saved.user]
  /\ saved.user \in {controls.user, None}

\* No handler forgets to renew what it has changed, in the drawer, the panels or
\* local storage, whatever has run since it started.
CopiesAreCurrent == DrawerShowsCache /\ PanelsAreCurrent /\ ReloadRestores

\* The status says opening or connected only of a stream that is: a stream is
\* being fetched (or its URL was unusable, and it says opening for ever), or one
\* is being read.
StreamStatusIsTrue ==
  /\ status = "opening" =>
       \E i \in Job : IsStream(i, "fetch") \/ IsStream(i, "thrown")
  /\ status = "connected" => \E i \in Job : IsStream(i, "read")

\* Close has something to close: the handle is that of a stream under way (or
\* of one whose URL was unusable).
HandleIsLive == handle # None => jobs[handle].kind = "stream"

\* A service is shown as being checked only while a sweep will still visit it,
\* or for ever after the URL was unusable; overlapping sweeps included.
CheckingIsUnderWay ==
  \A s \in Service : pulse[s] = "checking" =>
    \E i \in Job : jobs[i].kind = "sweep" /\ (jobs[i].next = None
                                             \/ jobs[i].next \in 1..s)

\* No status outlives the handlers it is about.
StatusIsTrue == StreamStatusIsTrue /\ HandleIsLive /\ CheckingIsUnderWay
================================================================================
