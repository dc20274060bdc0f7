----------------------------- MODULE ConsoleProofs -----------------------------
(***************************************************************************)
(* Theorems about Console, for every number of clicks, of services and of  *)
(* keys.                                                                   *)
(*                                                                         *)
(* The properties are inductive together with TypeOK and Fresh: a click    *)
(* takes a job that no handler has had, so that it overwrites none.  The   *)
(* proof first says what a step does to the jobs (JobsOfClicks,            *)
(* JobsOfAnswers), and then, for each part of the state, which steps touch *)
(* it and which leave it alone (Renewed, StreamsLeft, Accepted).           *)
(***************************************************************************)
EXTENDS Console, TLAPS

\* What renderResult, the log and the drawer work on.
View == [cache : [ResultId -> Shown \cup {None}], active : ResultId \cup {None},
         log : Nat, drawer : Shown \cup {None}]

\* DrawerShowsCache, of a view on its way.
DrawerOK(v) ==
  /\ v.active # None => v.cache[v.active] # None /\ v.drawer = v.cache[v.active]
  /\ v.cache["events"] # None => v.cache["events"].log = v.log

ViewOK(v) == v \in View /\ DrawerOK(v)

\* A click takes a job that no handler has had.
Fresh == \A i \in Job : i > clicks => jobs[i] = Idle

IInv == TypeOK /\ Fresh /\ FactsAreTrue /\ SentIsSigned /\ CopiesAreCurrent
        /\ StatusIsTrue

-------------------------------------------------------------------------------
(* The screen. *)

\* A cached result is drawn.
LEMMA DrawnIs ==
  ASSUME NEW v, ViewOK(v), NEW r \in ResultId, v.cache[r] # None
  PROVE  ViewOK(Drawn(v, r))
BY DEF ViewOK, View, DrawerOK, Drawn

\* A result that is rendered is cached and drawn.
LEMMA RenderedIs ==
  ASSUME NEW v, ViewOK(v), NEW r \in ResultId, NEW i \in Job, NEW ok \in BOOLEAN
  PROVE  ViewOK(Rendered(v, r, i, ok))
<1> DEFINE n == IF r = "events" THEN v.log ELSE 0
           x == [job |-> i, ok |-> ok, log |-> n]
           w == [v EXCEPT !.cache[r] = x]
<1>1. n \in Nat /\ (r = "events" => n = v.log)
  BY DEF ViewOK, View
<1>2. x \in Shown /\ x # None /\ x.log = n
  BY <1>1, NoneIsNoResult DEF Shown
<1>3. Rendered(v, r, i, ok) = Drawn(w, r)
  BY DEF Rendered
<1> HIDE DEF n, x
<1>4. /\ w \in View /\ w.cache[r] = x /\ w.log = v.log
      /\ w.active = v.active
      /\ \A q \in ResultId \ {r} : w.cache[q] = v.cache[q]
  BY <1>2 DEF ViewOK, View
<1> HIDE DEF w
<1>5. w.cache["events"] # None => w.cache["events"].log = w.log
  BY <1>1, <1>2, <1>4 DEF ViewOK, DrawerOK, ResultId
<1>6. /\ Drawn(w, r) \in View /\ Drawn(w, r).active = r
      /\ Drawn(w, r).drawer = w.cache[r]
      /\ Drawn(w, r).cache = w.cache /\ Drawn(w, r).log = w.log
  BY <1>2, <1>4 DEF Drawn, View
<1> QED BY <1>2, <1>3, <1>4, <1>5, <1>6 DEF ViewOK, DrawerOK

\* The log and its result grow together.
LEMMA LoggedIs ==
  ASSUME NEW v, ViewOK(v), NEW n \in Nat
  PROVE  ViewOK(Logged(v, n)) /\ Logged(v, n).log = n
<1> DEFINE w == [v EXCEPT !.log = n]
           x == IF v.cache["events"] = None THEN w
                ELSE [w EXCEPT !.cache["events"].log = n]
<1>1. v \in View /\ "events" \in ResultId /\ v.cache \in [ResultId -> Shown \cup {None}]
  BY DEF ViewOK, View, ResultId
<1>2. Logged(v, n) = IF v.active = "events" THEN Drawn(x, "events") ELSE x
  BY DEF Logged
<1>3. /\ x \in View /\ x.log = n /\ x.active = v.active /\ x.drawer = v.drawer
      /\ \A q \in ResultId \ {"events"} : x.cache[q] = v.cache[q]
      /\ x.cache["events"] # None <=> v.cache["events"] # None
      /\ x.cache["events"] # None => x.cache["events"].log = n
  <2>1. CASE v.cache["events"] = None
    BY <1>1, <2>1 DEF View
  <2>2. CASE v.cache["events"] # None
    <3> DEFINE y == [v.cache["events"] EXCEPT !.log = n]
    <3>1. y \in Shown /\ y.log = n /\ y # None
      BY <1>1, <2>2, NoneIsNoResult DEF Shown
    <3>2. x = [w EXCEPT !.cache["events"] = y]
      BY <1>1, <2>2 DEF View
    <3>3. /\ w \in View /\ w.log = n /\ w.active = v.active
          /\ w.drawer = v.drawer /\ w.cache = v.cache
      BY <1>1 DEF View
    <3> HIDE DEF x, y, w
    <3>4. x.cache = [w.cache EXCEPT !["events"] = y] /\ x \in View
      BY <1>1, <3>1, <3>2, <3>3 DEF View
    <3>5. x.log = n /\ x.active = v.active /\ x.drawer = v.drawer
      BY <1>1, <3>2, <3>3 DEF View
    <3> QED BY <1>1, <2>2, <3>1, <3>3, <3>4, <3>5
  <2> QED BY <2>1, <2>2
<1> HIDE DEF x
<1>4. CASE v.active = "events"
  <2>1. v.active # None => x.cache["events"] # None
    BY <1>3, <1>4 DEF ViewOK, DrawerOK
  <2>2. /\ Drawn(x, "events") \in View /\ Drawn(x, "events").active = "events"
        /\ Drawn(x, "events").drawer = x.cache["events"]
        /\ Drawn(x, "events").cache = x.cache /\ Drawn(x, "events").log = x.log
    BY <1>1, <1>3 DEF Drawn, View
  <2> QED BY <1>2, <1>3, <1>4, <2>1, <2>2 DEF ViewOK, DrawerOK
<1>5. CASE v.active # "events"
  <2>1. v.active # None => v.active \in ResultId \ {"events"}
    BY <1>1, <1>5 DEF View
  <2> QED BY <1>2, <1>3, <1>5, <2>1 DEF ViewOK, DrawerOK
<1> QED BY <1>4, <1>5

\* Lines are appended to the log.
LEMMA AppendedIs ==
  ASSUME NEW v, ViewOK(v), NEW n \in Nat
  PROVE  ViewOK(Appended(v, n))
<1>1. v.log + n \in Nat
  BY DEF ViewOK, View
<1> QED BY <1>1, LoggedIs DEF Appended

\* Nothing is drawn when the drawer is closed.
LEMMA ClosedIs ==
  ASSUME NEW v \in View, v.cache["events"] # None => v.cache["events"].log = v.log
  PROVE  ViewOK(Closed(v))
BY DEF ViewOK, View, DrawerOK, Closed

\* A result is cleared, and the drawer closed if it is the one drawn.
LEMMA ClearedIs ==
  ASSUME NEW v, ViewOK(v), NEW r \in ResultId
  PROVE  LET w == [v EXCEPT !.cache[r] = None]
         IN ViewOK(IF v.active = r THEN Closed(w) ELSE w)
<1> DEFINE w == [v EXCEPT !.cache[r] = None]
<1>1. /\ w \in View /\ w.cache[r] = None /\ w.log = v.log
      /\ w.active = v.active /\ w.drawer = v.drawer
      /\ \A q \in ResultId \ {r} : w.cache[q] = v.cache[q]
  BY DEF ViewOK, View
<1> HIDE DEF w
<1>2. w.cache["events"] # None => w.cache["events"].log = w.log
  BY <1>1 DEF ViewOK, DrawerOK, ResultId
<1>3. v.active # r => DrawerOK(w)
  BY <1>1, <1>2 DEF ViewOK, DrawerOK, View
<1>4. ViewOK(Closed(w))
  BY <1>1, <1>2, ClosedIs
<1> QED BY <1>1, <1>3, <1>4 DEF ViewOK, w

-------------------------------------------------------------------------------
(* Every step renews the drawer. *)

\* The job of a click is a job, and no handler's.
LEMMA ThisIsFresh ==
  ASSUME IInv, Click
  PROVE  This \in Job /\ jobs[This] = Idle /\ jobs[This].kind = "idle"
BY ClicksAreBounded DEF IInv, TypeOK, Fresh, Click, This, Job, Idle

\* The view is so in every state of the invariant.
LEMMA ViewIs ==
  ASSUME IInv
  PROVE  ViewOK(view)
BY DEF IInv, TypeOK, CopiesAreCurrent, DrawerShowsCache, ViewOK, DrawerOK, View

\* Connecting appends to the log, and renders the error of unreadable headers.
LEMMA ConnectsView ==
  ASSUME NEW i \in Job, NEW v, ViewOK(v), Connects(i, v)
  PROVE  ViewOK(view')
<1>1. 1 \in Nat /\ "events" \in ResultId /\ FALSE \in BOOLEAN
  BY DEF ResultId
<1>2. ViewOK(Appended(v, 1))
  BY <1>1, AppendedIs
<1>3. ViewOK(Rendered(Appended(v, 1), "events", i, FALSE))
  BY <1>1, <1>2, RenderedIs
<1>4. /\ ViewOK(Appended(Appended(v, 1), 1))
      /\ ViewOK(Appended(Rendered(Appended(v, 1), "events", i, FALSE), 1))
  BY <1>1, <1>2, <1>3, AppendedIs
<1> QED BY <1>2, <1>3, <1>4 DEF Connects, Shows

\* A click leaves the drawer current.
LEMMA ViewOfClicks ==
  ASSUME IInv, Clicks
  PROVE  ViewOK(view')
<1>1. ViewOK(view)
  BY ViewIs
<1>2. ResultId = {"accounts", "events", "webhook", "tools"} /\ 1 \in Nat
      /\ 0 \in Nat /\ FALSE \in BOOLEAN
  BY DEF ResultId
<1>3. ASSUME TypeControl \/ ClearToken \/ UseLatestUserId \/ ClearState
             \/ ClearBanner \/ HealthSweep
      PROVE  UNCHANGED view
  BY <1>3 DEF TypeControl, Input, ClearToken, UseLatestUserId, ClearState,
     ClearBanner, HealthSweep
<1>4. ASSUME NEW k \in Key \cup {None}, TypeKey(k) \/ GenerateKey(k)
      PROVE  UNCHANGED view
  BY <1>4 DEF TypeKey, GenerateKey
<1>5. ASSUME NEW anew \in BOOLEAN, RefreshSignature(anew)
      PROVE  UNCHANGED view
  BY <1>5 DEF RefreshSignature
<1>6. ASSUME NEW mode \in Mode, SendWebhook(mode)
      PROVE  UNCHANGED view
  BY <1>6 DEF SendWebhook
<1>7. ASSUME NEW keyless \in BOOLEAN, NEW k, CreateAccount(keyless, k)
      PROVE  ViewOK(view')
  <2>1. This \in Job
    BY <1>7, ThisIsFresh DEF CreateAccount
  <2>2. ViewOK(Rendered(view, "accounts", This, FALSE))
    BY <1>1, <1>2, <2>1, RenderedIs
  <2> QED BY <1>1, <1>7, <2>2 DEF CreateAccount, HeadersFail, UrlThrows, Sends, Shows
<1>8. ASSUME NEW r \in ResultId, Ask(r)
      PROVE  ViewOK(view')
  <2>1. This \in Job
    BY <1>8, ThisIsFresh DEF Ask
  <2>2. ViewOK(Rendered(view, r, This, FALSE))
    BY <1>1, <1>2, <2>1, RenderedIs
  <2> QED BY <1>1, <1>8, <2>2 DEF Ask, HeadersFail, UrlThrows, Sends, Shows
<1>9. ASSUME ConnectEvents PROVE ViewOK(view')
  BY <1>1, <1>9, ThisIsFresh, ConnectsView DEF ConnectEvents
<1>10. ASSUME DisconnectEvents PROVE ViewOK(view')
  BY <1>1, <1>2, <1>10, AppendedIs DEF DisconnectEvents, Shows
<1>11. ASSUME ClearEventsLog PROVE ViewOK(view')
  BY <1>1, <1>2, <1>11, LoggedIs DEF ClearEventsLog, Shows
<1>12. ASSUME GenerateLocalJwt PROVE ViewOK(view')
  <2>1. This \in Job
    BY <1>12, ThisIsFresh DEF GenerateLocalJwt
  <2>2. ViewOK(NoUserId)
    BY <1>1, <1>2, <2>1, RenderedIs DEF NoUserId
  <2> QED BY <1>1, <1>12, <2>2 DEF GenerateLocalJwt, Shows
<1>13. ASSUME ArmStream PROVE ViewOK(view')
  <2>1. This \in Job
    BY <1>13, ThisIsFresh DEF ArmStream
  <2>2. ViewOK(NoUserId)
    BY <1>1, <1>2, <2>1, RenderedIs DEF NoUserId
  <2>3. Connects(This, NoUserId) => ViewOK(view')
    BY <2>1, <2>2, ConnectsView
  <2> QED BY <1>1, <1>13, <2>2, <2>3 DEF ArmStream, Shows
<1>14. ASSUME NEW sends \in BOOLEAN, LoadLatestPayment(sends)
       PROVE  ViewOK(view')
  <2>1. This \in Job
    BY <1>14, ThisIsFresh DEF LoadLatestPayment
  <2>2. ViewOK(Rendered(view, "webhook", This, FALSE))
    BY <1>1, <1>2, <2>1, RenderedIs
  <2> QED BY <1>1, <1>14, <2>2 DEF LoadLatestPayment, Shows
<1>15. ASSUME NEW r \in ResultId, OpenResult(r) PROVE ViewOK(view')
  BY <1>1, <1>15, DrawnIs DEF OpenResult, Shows
<1>16. ASSUME NEW r \in ResultId, ClearResult(r) PROVE ViewOK(view')
  BY <1>1, <1>16, ClearedIs DEF ClearResult, Shows
<1>17. ASSUME CloseResultDrawer PROVE ViewOK(view')
  BY <1>1, <1>17, ClosedIs DEF CloseResultDrawer, Shows, ViewOK, DrawerOK
<1> QED BY <1>1, <1>2, <1>3, <1>4, <1>5, <1>6, <1>7, <1>8, <1>9, <1>10, <1>11,
        <1>12, <1>13, <1>14, <1>15, <1>16, <1>17, KeysAreKeys DEF Clicks

\* So does a handler that goes on.
LEMMA ViewOfAnswers ==
  ASSUME IInv, NEW i \in Job, Continues(i)
  PROVE  ViewOK(view')
<1>1. ViewOK(view)
  BY ViewIs
<1>2. ResultId = {"accounts", "events", "webhook", "tools"} /\ 1 \in Nat
      /\ BOOLEAN = {TRUE, FALSE}
  BY DEF ResultId
<1>3. \A r \in ResultId, ok \in BOOLEAN : ViewOK(Rendered(view, r, i, ok))
  BY <1>1, RenderedIs
<1>4. ViewOK(Appended(view, 1))
  BY <1>1, <1>2, AppendedIs
<1>5. ASSUME Answered(i) PROVE ViewOK(view')
  <2>1. jobs[i].result \in ResultId
    BY <1>5 DEF Answered, IInv, TypeOK, Task, Idle
  <2> QED BY <1>3, <1>5, <2>1 DEF Answered, Shows
<1>6. ASSUME AccountAnswered(i) PROVE ViewOK(view')
  BY <1>2, <1>3, <1>6 DEF AccountAnswered, Shows
<1>7. ASSUME StreamAnswered(i) PROVE ViewOK(view')
  BY <1>2, <1>3, <1>7 DEF StreamAnswered, Shows
<1>8. ASSUME StreamFails(i) PROVE ViewOK(view')
  <2>1. ViewOK(Rendered(Appended(view, 1), "events", i, FALSE))
    BY <1>2, <1>4, RenderedIs
  <2> QED BY <1>8, <2>1 DEF StreamFails, Shows
<1>9. ASSUME StreamEnds(i) PROVE ViewOK(view')
  BY <1>4, <1>9 DEF StreamEnds, Shows
<1>10. ASSUME NEW type, StreamEvent(i, type) PROVE ViewOK(view')
  BY <1>4, <1>10 DEF StreamEvent, Shows
<1>11. ASSUME JwtSigned(i) PROVE ViewOK(view')
  BY <1>1, <1>11, ConnectsView DEF JwtSigned
<1>12. ASSUME JwtFails(i) PROVE ViewOK(view')
  <2>1. ViewOK(Rendered(view, "events", i, FALSE))
    BY <1>2, <1>3
  <2> QED BY <1>12, <2>1, ConnectsView DEF JwtFails, Shows
<1>13. ASSUME Refreshed(i) PROVE ViewOK(view')
  BY <1>1, <1>2, <1>3, <1>13 DEF Refreshed, Shows
<1>14. ASSUME WebhookSigned(i) PROVE ViewOK(view')
  BY <1>1, <1>2, <1>3, <1>14 DEF WebhookSigned, HeadersFail, UrlThrows, Shows
<1>15. ASSUME WebhookAnswered(i) PROVE ViewOK(view')
  BY <1>2, <1>3, <1>15 DEF WebhookAnswered, Shows
<1>16. ASSUME SweepService(i) PROVE ViewOK(view')
  BY <1>1, <1>16 DEF SweepService
<1> QED BY <1>5, <1>6, <1>7, <1>8, <1>9, <1>10, <1>11, <1>12, <1>13, <1>14,
        <1>15, <1>16 DEF Continues

-------------------------------------------------------------------------------
(* What steps do to the jobs. *)

\* A step of job i leaves the others alone, but for a stream that it aborts.
Others(i) == \A j \in Job \ {i} : \/ jobs'[j] = jobs[j]
                                  \/ j \in Aborted /\ jobs'[j] = Idle

\* Connecting makes the job a stream or nothing, and ends an aborted stream.
LEMMA ConnectsJobs ==
  ASSUME IInv, NEW i \in Job, i \notin Aborted, NEW v, Connects(i, v)
  PROVE  /\ jobs' \in [Job -> Task] /\ Others(i)
         /\ jobs'[i].kind \in {"stream", "idle"}
<1>1. /\ Idle \in Task /\ [kind |-> "stream", at |-> "fetch"] \in Task
      /\ [kind |-> "stream", at |-> "thrown"] \in Task
  BY DEF Task, Idle
<1>2. jobs \in [Job -> Task]
  BY DEF IInv, TypeOK
<1>3. \/ jobs' = Without(jobs, Aborted \cup {i})
      \/ \E t \in Task : /\ t.kind = "stream"
                        /\ jobs' = [Without(jobs, Aborted) EXCEPT ![i] = t]
  <2>1. \/ jobs' = Without(jobs, Aborted \cup {i})
        \/ jobs' = [Without(jobs, Aborted) EXCEPT ![i] = [kind |-> "stream", at |-> "fetch"]]
        \/ jobs' = [Without(jobs, Aborted) EXCEPT ![i] = [kind |-> "stream", at |-> "thrown"]]
    BY DEF Connects
  <2> QED BY <1>1, <2>1
<1>4. Idle.kind = "idle"
  BY DEF Idle
<1> QED BY <1>1, <1>2, <1>3, <1>4 DEF Without, Others

\* The job of i becomes a task.
LEMMA BecomesIs ==
  ASSUME IInv, NEW i \in Job, NEW t \in Task, Becomes(i, t)
  PROVE  /\ jobs' \in [Job -> Task] /\ Others(i) /\ jobs'[i] = t
BY DEF IInv, TypeOK, Becomes, Others

\* A step without an effect on the jobs.
LEMMA NothingBecomes ==
  ASSUME IInv, NEW i \in Job, UNCHANGED jobs
  PROVE  /\ jobs' \in [Job -> Task] /\ Others(i) /\ jobs'[i] = jobs[i]
BY DEF IInv, TypeOK, Others

\* A click begins at most its own job, a webhook at its signature.
LEMMA JobsOfClicks ==
  ASSUME IInv, Clicks
  PROVE  /\ Click /\ jobs' \in [Job -> Task] /\ Others(This)
         /\ jobs'[This].kind = "webhook" => jobs'[This].at = "sign"
<1> DEFINE Done == /\ jobs' \in [Job -> Task] /\ Others(This)
                   /\ jobs'[This].kind = "webhook" => jobs'[This].at = "sign"
<1>1. Click => This \in Job /\ jobs[This].kind = "idle" /\ This \notin Aborted
  BY ThisIsFresh DEF Aborted
<1>2. Click /\ UNCHANGED jobs => Done
  BY <1>1, NothingBecomes
<1>3. ASSUME Click, NEW t \in Task, Begins(t), t.kind # "webhook" \/ t.at = "sign"
      PROVE  Done
  BY <1>1, <1>3, BecomesIs DEF Begins, Becomes
<1>4. ASSUME Click, NEW v, Connects(This, v) PROVE Done
  BY <1>1, <1>4, ConnectsJobs
<1> HIDE DEF Done
<1>5. ASSUME TypeControl \/ ClearToken \/ UseLatestUserId \/ ClearState
             \/ ClearBanner \/ ClearEventsLog \/ CloseResultDrawer
      PROVE  Click /\ Done
  BY <1>2, <1>5 DEF TypeControl, Input, ClearToken, UseLatestUserId, ClearState,
     ClearBanner, ClearEventsLog, CloseResultDrawer
<1>6. ASSUME NEW k \in Key \cup {None}, TypeKey(k) \/ GenerateKey(k)
      PROVE  Click /\ Done
  BY <1>2, <1>6 DEF TypeKey, GenerateKey
<1>7. ASSUME NEW r \in ResultId, OpenResult(r) \/ ClearResult(r)
      PROVE  Click /\ Done
  BY <1>2, <1>7 DEF OpenResult, ClearResult
<1>8. ASSUME NEW keyless \in BOOLEAN, NEW k \in Generated, CreateAccount(keyless, k)
      PROVE  Click /\ Done
  <2> DEFINE t == [kind |-> "account", key |-> IF keyless THEN None ELSE key']
  <2>1. key' \in Key \cup {None}
    BY <1>8, KeysAreKeys DEF CreateAccount, EnsuredKey, IInv, TypeOK
  <2>2. t \in Task /\ t.kind # "webhook"
    BY <2>1 DEF Task
  <2> HIDE DEF t
  <2>3. Click /\ (UNCHANGED jobs \/ Begins(t))
    BY <1>8 DEF CreateAccount, Sends, t
  <2> QED BY <1>2, <1>3, <2>2, <2>3
<1>9. ASSUME NEW r \in ResultId, Ask(r) PROVE Click /\ Done
  <2> DEFINE t == [kind |-> "request", result |-> r]
  <2>1. t \in Task /\ t.kind # "webhook"
    BY DEF Task
  <2> HIDE DEF t
  <2>2. Click /\ (UNCHANGED jobs \/ Begins(t))
    BY <1>9 DEF Ask, Sends, t
  <2> QED BY <1>2, <1>3, <2>1, <2>2
<1>10. ASSUME ConnectEvents PROVE Click /\ Done
  BY <1>4, <1>10 DEF ConnectEvents
<1>11. ASSUME DisconnectEvents PROVE Click /\ Done
  <2>1. Click /\ jobs' = Without(jobs, Aborted)
    BY <1>11 DEF DisconnectEvents
  <2>2. Idle \in Task /\ jobs \in [Job -> Task]
    BY DEF Task, IInv, TypeOK
  <2> QED BY <1>1, <2>1, <2>2 DEF Without, Others, Done
<1>12. ASSUME GenerateLocalJwt PROVE Click /\ Done
  <2> DEFINE t == [kind |-> "jwt", user |-> controls.user, connects |-> FALSE]
  <2>1. controls.user # None => t \in Task /\ t.kind # "webhook"
    BY DEF IInv, TypeOK, Controls, Task
  <2> HIDE DEF t
  <2>2. Click /\ (UNCHANGED jobs \/ (controls.user # None /\ Begins(t)))
    BY <1>12 DEF GenerateLocalJwt, t
  <2> QED BY <1>2, <1>3, <2>1, <2>2
<1>13. ASSUME ArmStream PROVE Click /\ Done
  <2> DEFINE user == IF controls.user = None /\ account # None THEN account.user
                                                              ELSE controls.user
             t == [kind |-> "jwt", user |-> user, connects |-> TRUE]
  <2>1. user \in Key \cup {None}
    BY DEF IInv, TypeOK, Controls
  <2>2. /\ Click
        /\ \/ user # None /\ Begins(t)
           \/ Connects(This, NoUserId)
           \/ UNCHANGED jobs
    BY <1>13 DEF ArmStream
  <2> HIDE DEF user
  <2>3. user # None => t \in Task /\ t.kind # "webhook"
    BY <2>1 DEF Task
  <2> HIDE DEF t
  <2> QED BY <1>2, <1>3, <1>4, <2>2, <2>3
<1>14. ASSUME NEW sends \in BOOLEAN, LoadLatestPayment(sends)
       PROVE  Click /\ Done
  <2> DEFINE body == [of |-> account.key, confirmed |-> TRUE]
             t == [kind |-> "refresh", old |-> FALSE, body |-> body, sends |-> sends]
  <2>1. account # None => body \in Body
    BY DEF IInv, TypeOK, Body
  <2>2. Click /\ (UNCHANGED jobs \/ (account # None /\ Begins(t)))
    BY <1>14 DEF LoadLatestPayment
  <2> HIDE DEF body
  <2>3. account # None => t \in Task /\ t.kind # "webhook"
    BY <2>1 DEF Task
  <2> HIDE DEF t
  <2> QED BY <1>2, <1>3, <2>2, <2>3
<1>15. ASSUME NEW anew \in BOOLEAN, RefreshSignature(anew) PROVE Click /\ Done
  <2> DEFINE t == [kind |-> "refresh", old |-> form'.old, body |-> form.body,
                   sends |-> FALSE]
  <2>1. form'.old \in BOOLEAN /\ form.body \in Body
    BY <1>15 DEF RefreshSignature, IInv, TypeOK, Form
  <2>2. t \in Task /\ t.kind # "webhook"
    BY <2>1 DEF Task
  <2>3. Click /\ Begins(t)
    BY <1>15 DEF RefreshSignature
  <2> HIDE DEF t
  <2> QED BY <1>3, <2>2, <2>3
<1>16. ASSUME NEW mode \in Mode, SendWebhook(mode) PROVE Click /\ Done
  <2> DEFINE isOld == form.old \/ mode = "expired"
             body == [form.body EXCEPT !.confirmed = mode # "unsupported"]
             t == [kind |-> "webhook", at |-> "sign", mode |-> mode,
                   old |-> isOld, body |-> body, signature |-> None]
  <2>1. body \in Body
    BY DEF IInv, TypeOK, Form, Body
  <2>2. isOld \in BOOLEAN
    BY DEF IInv, TypeOK, Form
  <2>3. Click /\ Begins(t)
    BY <1>16 DEF SendWebhook, SendsWebhook, Begins, Becomes
  <2> HIDE DEF isOld, body
  <2>4. t \in Task /\ t.at = "sign"
    BY <2>1, <2>2 DEF Task
  <2> HIDE DEF t
  <2> QED BY <1>3, <2>3, <2>4
<1>17. ASSUME HealthSweep PROVE Click /\ Done
  <2> DEFINE t == [kind |-> "sweep", next |-> IF controls.base THEN 1 ELSE None]
  <2>1. t \in Task /\ t.kind # "webhook"
    BY ServicesAreNumbered DEF Task
  <2> HIDE DEF t
  <2>2. Click /\ Begins(t)
    BY <1>17 DEF HealthSweep, t
  <2> QED BY <1>3, <2>1, <2>2
<1>18. ResultId = {"accounts", "events", "webhook", "tools"}
  BY DEF ResultId
<1> QED BY <1>5, <1>6, <1>7, <1>8, <1>9, <1>10, <1>11, <1>12, <1>13, <1>14,
        <1>15, <1>16, <1>17, <1>18, KeysAreKeys DEF Clicks, Done

\* The tasks with fields that a step changes.
LEMMA TasksOf ==
  ASSUME IInv, NEW i \in Job
  PROVE  /\ jobs[i].kind = "jwt" => jobs[i].user \in Key
         /\ jobs[i].kind = "account" => jobs[i].key \in Key \cup {None}
         /\ jobs[i].kind = "refresh" =>
              jobs[i] \in [kind : {"refresh"}, old : BOOLEAN, body : Body,
                           sends : BOOLEAN]
         /\ jobs[i].kind = "webhook" =>
              jobs[i] \in [kind : {"webhook"}, at : {"sign", "fetch", "accepted"},
                           mode : Mode, old : BOOLEAN, body : Body,
                           signature : Signature \cup {None}]
         /\ jobs[i].kind = "sweep" =>
              jobs[i] \in [kind : {"sweep"}, next : Service \cup {None}]
<1>1. jobs[i] \in Task
  BY DEF IInv, TypeOK
<1> QED BY <1>1 DEF Task, Idle

\* What a webhook is signed with.
LEMMA SignaturesAre ==
  ASSUME IInv, NEW i \in Job, jobs[i].kind = "webhook"
  PROVE  SignatureOf(jobs[i]) \in Signature
<1>1. jobs[i].old \in BOOLEAN /\ jobs[i].body \in Body
  BY TasksOf
<1> QED BY <1>1 DEF SignatureOf, Sign, Signature

\* The form and the task that sendWebhookVariant makes.
LEMMA SendsWebhookIs ==
  ASSUME IInv, NEW i \in Job, NEW mode \in Mode, NEW f \in Form,
         SendsWebhook(i, mode, f)
  PROVE  /\ form' \in Form
         /\ \E t \in Task : t.kind = "webhook" /\ t.at = "sign" /\ Becomes(i, t)
<1> DEFINE isOld == f.old \/ mode = "expired"
           body == [f.body EXCEPT !.confirmed = mode # "unsupported"]
           t == [kind |-> "webhook", at |-> "sign", mode |-> mode,
                 old |-> isOld, body |-> body, signature |-> None]
<1>1. body \in Body
  BY DEF Form, Body
<1>2. isOld \in BOOLEAN
  BY DEF Form
<1>3. Becomes(i, t) /\ form' = [f EXCEPT !.old = isOld, !.body = body]
  BY DEF SendsWebhook
<1> HIDE DEF isOld, body
<1>4. t \in Task /\ t.kind = "webhook" /\ t.at = "sign"
  BY <1>1, <1>2 DEF Task
<1>5. form' \in Form
  BY <1>1, <1>2, <1>3 DEF Form
<1> HIDE DEF t
<1> QED BY <1>3, <1>4, <1>5

\* A handler that goes on is under way, and only its own job changes with it.
LEMMA JobsOfAnswers ==
  ASSUME IInv, NEW i \in Job, Continues(i)
  PROVE  /\ clicks' = clicks /\ jobs' \in [Job -> Task] /\ Others(i)
         /\ jobs[i].kind # "idle"
         /\ jobs[i].kind = "webhook" => jobs[i].at # "accepted"
         /\ jobs[i].kind = "sweep" => SweepService(i)
         /\ jobs'[i].kind = "webhook" =>
              jobs'[i].at = "sign" \/ WebhookSigned(i) \/ WebhookAnswered(i)
<1> DEFINE Done ==
      /\ jobs' \in [Job -> Task] /\ Others(i)
      /\ jobs'[i].kind = "webhook" =>
           jobs'[i].at = "sign" \/ WebhookSigned(i) \/ WebhookAnswered(i)
           Goal ==
      /\ clicks' = clicks /\ Done
      /\ jobs[i].kind # "idle"
      /\ jobs[i].kind = "webhook" => jobs[i].at # "accepted"
      /\ jobs[i].kind = "sweep" => SweepService(i)
<1>1. Idle \in Task /\ Idle.kind = "idle"
  BY DEF Task, Idle
<1>2. ASSUME NEW t \in Task, Becomes(i, t),
             t.kind # "webhook" \/ t.at = "sign" \/ WebhookSigned(i) \/ WebhookAnswered(i)
      PROVE  Done
  BY <1>2, BecomesIs
<1>3. Becomes(i, Idle) => Done
  BY <1>1, <1>2
<1>4. ASSUME jobs[i].kind # "stream", NEW v, Connects(i, v)
      PROVE  Done
  <2>1. i \notin Aborted
    BY <1>4 DEF Aborted
  <2> QED BY <1>4, <2>1, ConnectsJobs
<1> HIDE DEF Done
<1>5. ASSUME Answered(i) PROVE Goal
  BY <1>3, <1>5 DEF Answered
<1>6. ASSUME AccountAnswered(i) PROVE Goal
  BY <1>3, <1>6 DEF AccountAnswered
<1>7. ASSUME StreamAnswered(i) PROVE Goal
  <2> DEFINE t == [kind |-> "stream", at |-> "read"]
  <2>1. t \in Task /\ t.kind # "webhook"
    BY DEF Task
  <2> HIDE DEF t
  <2>2. /\ clicks' = clicks /\ jobs[i].kind = "stream"
        /\ Becomes(i, t) \/ Becomes(i, Idle)
    BY <1>7 DEF StreamAnswered, IsStream, t
  <2> QED BY <1>2, <1>3, <2>1, <2>2
<1>8. ASSUME StreamFails(i) PROVE Goal
  BY <1>3, <1>8 DEF StreamFails, IsStream
<1>9. ASSUME StreamEnds(i) PROVE Goal
  BY <1>3, <1>9 DEF StreamEnds, IsStream
<1>10. ASSUME NEW type, StreamEvent(i, type) PROVE Goal
  BY <1>10, NothingBecomes DEF StreamEvent, IsStream, Done
<1>11. ASSUME JwtSigned(i) PROVE Goal
  BY <1>3, <1>4, <1>11 DEF JwtSigned
<1>12. ASSUME JwtFails(i) PROVE Goal
  BY <1>3, <1>4, <1>12 DEF JwtFails
<1>13. ASSUME Refreshed(i) PROVE Goal
  <2>1. form \in Form /\ jobs[i].old \in BOOLEAN /\ jobs[i].body \in Body
    BY <1>13, TasksOf DEF Refreshed, IInv, TypeOK
  <2>2. [form EXCEPT !.signature = Sign(jobs[i].old, jobs[i].body)] \in Form
    BY <2>1 DEF Form, Signature, Sign
  <2>3. \/ Becomes(i, Idle)
        \/ \E f \in Form : SendsWebhook(i, "confirmed", f)
    BY <1>13, <2>1, <2>2 DEF Refreshed
  <2>4. \A f \in Form : SendsWebhook(i, "confirmed", f) => Done
    BY <1>2, SendsWebhookIs DEF Mode
  <2>5. clicks' = clicks /\ jobs[i].kind = "refresh"
    BY <1>13 DEF Refreshed
  <2> QED BY <1>3, <2>3, <2>4, <2>5
<1>14. ASSUME WebhookSigned(i) PROVE Goal
  <2> DEFINE t == [jobs[i] EXCEPT !.at = "fetch", !.signature = SignatureOf(jobs[i])]
  <2>1. jobs[i].kind = "webhook" /\ jobs[i].at = "sign" /\ clicks' = clicks
    BY <1>14 DEF WebhookSigned
  <2>2. t \in Task
    BY <2>1, TasksOf, SignaturesAre DEF Task
  <2>3. Becomes(i, t) \/ Becomes(i, Idle)
    BY <1>14 DEF WebhookSigned
  <2> HIDE DEF t
  <2> QED BY <1>2, <1>3, <1>14, <2>1, <2>2, <2>3
<1>15. ASSUME WebhookAnswered(i) PROVE Goal
  <2> DEFINE t == [jobs[i] EXCEPT !.at = "accepted"]
  <2>1. jobs[i].kind = "webhook" /\ jobs[i].at = "fetch" /\ clicks' = clicks
    BY <1>15 DEF WebhookAnswered
  <2>2. t \in Task
    BY <2>1, TasksOf DEF Task
  <2>3. Becomes(i, t) \/ Becomes(i, Idle)
    BY <1>15 DEF WebhookAnswered
  <2> HIDE DEF t
  <2> QED BY <1>2, <1>3, <1>15, <2>1, <2>2, <2>3
<1>16. ASSUME SweepService(i) PROVE Goal
  <2> DEFINE t(n) == [jobs[i] EXCEPT !.next = n]
  <2>1. jobs[i].kind = "sweep" /\ clicks' = clicks
    BY <1>16 DEF SweepService
  <2>2. \A n \in Service \cup {None} : t(n) \in Task /\ t(n).kind = "sweep"
    BY <2>1, TasksOf DEF Task
  <2>3. \/ Becomes(i, Idle)
        \/ \E n \in Service \cup {None} : Becomes(i, t(n))
    BY <1>16 DEF SweepService, Swept
  <2> HIDE DEF t
  <2> QED BY <1>2, <1>3, <1>16, <2>1, <2>2, <2>3
<1> QED BY <1>5, <1>6, <1>7, <1>8, <1>9, <1>10, <1>11, <1>12, <1>13, <1>14,
        <1>15, <1>16 DEF Continues, Done

\* Only jobs that no click has taken are left.
LEMMA FreshKept ==
  ASSUME IInv, [Next]_vars
  PROVE  Fresh' /\ clicks' \in 0..MaxClicks
<1>1. clicks \in 0..MaxClicks /\ Fresh /\ Idle.kind = "idle" /\ Job = 1..MaxClicks
      /\ MaxClicks \in Nat
  BY ClicksAreBounded DEF IInv, TypeOK, Idle, Job
<1>2. CASE Clicks
  <2>1. Click /\ Others(This)
    BY <1>2, JobsOfClicks
  <2> QED BY <1>1, <2>1 DEF Fresh, Others, Click, This
<1>3. ASSUME NEW i \in Job, Continues(i) PROVE Fresh' /\ clicks' \in 0..MaxClicks
  <2>1. clicks' = clicks /\ Others(i) /\ jobs[i].kind # "idle"
    BY <1>3, JobsOfAnswers
  <2>2. ~(i > clicks)
    BY <1>1, <2>1 DEF Fresh
  <2> QED BY <1>1, <2>1, <2>2 DEF Fresh, Others
<1>4. CASE UNCHANGED vars
  BY <1>1, <1>4 DEF vars, Fresh
<1> QED BY <1>2, <1>3, <1>4 DEF Next

-------------------------------------------------------------------------------
(* Inputs. *)

\* A control changes, and all are saved.
LEMMA ControlsSaved ==
  ASSUME controls' \in Controls, SavePersistedControls
  PROVE  saved' \in Controls /\ ReloadRestores'
BY DEF SavePersistedControls, ReloadRestores, Controls

\* Every change of a control is saved, but for the user id of the playbook.
LEMMA ControlsKept ==
  ASSUME IInv, [Next]_vars
  PROVE  controls' \in Controls /\ saved' \in Controls /\ ReloadRestores'
<1> DEFINE Done == controls' \in Controls /\ saved' \in Controls /\ ReloadRestores'
<1>1. controls \in Controls /\ saved \in Controls /\ ReloadRestores
  BY DEF IInv, TypeOK, CopiesAreCurrent
<1>2. UNCHANGED <<controls, saved>> => Done
  BY <1>1 DEF ReloadRestores
<1>3. controls' \in Controls /\ SavePersistedControls => Done
  BY ControlsSaved
<1> HIDE DEF Done
<1>4. CASE Clicks
  <2>1. ASSUME TypeControl PROVE Done
    <3>1. ASSUME NEW f \in {"base", "headers", "credentials"}, NEW x \in BOOLEAN,
                 Input(f, x)
          PROVE  controls' \in Controls
      BY <1>1, <3>1 DEF Input, Controls
    <3>2. ASSUME NEW f \in {"token", "user"}, NEW k \in Key, Input(f, k)
          PROVE  controls' \in Controls
      BY <1>1, <3>2 DEF Input, Controls
    <3> QED BY <1>3, <2>1, <3>1, <3>2 DEF TypeControl, Input
  <2>2. ASSUME ClearToken PROVE Done
    BY <1>1, <1>3, <2>2 DEF ClearToken, Controls
  <2>3. ASSUME UseLatestUserId PROVE Done
    <3>1. account.user \in Key
      BY <2>3 DEF UseLatestUserId, IInv, TypeOK
    <3> QED BY <1>1, <1>3, <2>3, <3>1 DEF UseLatestUserId, Controls
  <2>4. ASSUME ArmStream PROVE Done
    <3> DEFINE user == IF controls.user = None /\ account # None THEN account.user
                                                                ELSE controls.user
    <3>1. user \in Key \cup {None} /\ (controls.user # None => user = controls.user)
      BY DEF IInv, TypeOK, Controls
    <3>2. controls' = [controls EXCEPT !.user = user] /\ saved' = saved
      BY <2>4 DEF ArmStream
    <3> HIDE DEF user
    <3> QED BY <1>1, <3>1, <3>2 DEF Done, ReloadRestores, Controls
  <2>5. ASSUME ClearState \/ ClearBanner \/ ConnectEvents \/ DisconnectEvents
               \/ ClearEventsLog \/ GenerateLocalJwt \/ HealthSweep
               \/ CloseResultDrawer
        PROVE  Done
    BY <1>2, <2>5 DEF ClearState, ClearBanner, ConnectEvents, DisconnectEvents,
       ClearEventsLog, GenerateLocalJwt, HealthSweep, CloseResultDrawer, inputs
  <2>6. ASSUME NEW k, TypeKey(k) \/ GenerateKey(k) PROVE Done
    BY <1>2, <2>6 DEF TypeKey, GenerateKey
  <2>7. ASSUME NEW keyless, NEW k, CreateAccount(keyless, k) PROVE Done
    BY <1>2, <2>7 DEF CreateAccount
  <2>8. ASSUME NEW r, Ask(r) \/ OpenResult(r) \/ ClearResult(r) PROVE Done
    BY <1>2, <2>8 DEF Ask, OpenResult, ClearResult, inputs
  <2>9. ASSUME NEW x, LoadLatestPayment(x) \/ RefreshSignature(x) \/ SendWebhook(x)
        PROVE  Done
    BY <1>2, <2>9 DEF LoadLatestPayment, RefreshSignature, SendWebhook
  <2> QED BY <1>4, <2>1, <2>2, <2>3, <2>4, <2>5, <2>6, <2>7, <2>8, <2>9
          DEF Clicks, Done
<1>5. ASSUME NEW i \in Job, Continues(i) PROVE Done
  <2>1. ASSUME AccountAnswered(i) PROVE Done
    <3>1. jobs[i].key \in Key \cup {None}
      BY <2>1, TasksOf DEF AccountAnswered
    <3> QED BY <1>1, <1>2, <1>3, <2>1, <3>1 DEF AccountAnswered, Controls
  <2>2. ASSUME JwtSigned(i) PROVE Done
    <3>1. jobs[i].user \in Key
      BY <2>2, TasksOf DEF JwtSigned
    <3> QED BY <1>1, <1>3, <2>2, <3>1 DEF JwtSigned, Controls
  <2>3. ASSUME Answered(i) \/ StreamAnswered(i) \/ StreamFails(i) \/ StreamEnds(i)
               \/ (\E type \in EventType : StreamEvent(i, type)) \/ JwtFails(i)
               \/ Refreshed(i) \/ WebhookSigned(i) \/ WebhookAnswered(i)
               \/ SweepService(i)
        PROVE  UNCHANGED <<controls, saved>>
    BY <2>3 DEF Answered, StreamAnswered, StreamFails, StreamEnds, StreamEvent,
       JwtFails, Refreshed, WebhookSigned, WebhookAnswered, SweepService, inputs
  <2> QED BY <1>2, <1>5, <2>1, <2>2, <2>3 DEF Continues
<1>6. CASE UNCHANGED vars
  BY <1>2, <1>6 DEF vars, inputs, Done
<1> QED BY <1>4, <1>5, <1>6 DEF Next, Done

\* The forms of accounts and webhooks.
LEMMA FormsKept ==
  ASSUME IInv, [Next]_vars
  PROVE  key' \in Key \cup {None} /\ form' \in Form
<1>1. key \in Key \cup {None} /\ form \in Form /\ controls \in Controls
  BY DEF IInv, TypeOK
<1>2. CASE Clicks
  <2>1. ASSUME NEW k \in Key \cup {None}, TypeKey(k) \/ GenerateKey(k)
        PROVE  key' \in Key \cup {None} /\ form' \in Form
    BY <1>1, <2>1 DEF TypeKey, GenerateKey, EnsuredKey
  <2>2. ASSUME NEW keyless, NEW k \in Generated, CreateAccount(keyless, k)
        PROVE  key' \in Key \cup {None} /\ form' \in Form
    BY <1>1, <2>2, KeysAreKeys DEF CreateAccount, EnsuredKey
  <2>3. ASSUME NEW sends, LoadLatestPayment(sends)
        PROVE  key' \in Key \cup {None} /\ form' \in Form
    <3> DEFINE body == [of |-> account.key, confirmed |-> TRUE]
    <3>1. account # None => body \in Body
      BY DEF IInv, TypeOK, Body
    <3>2. /\ key' = key
          /\ form' = form
             \/ (account # None /\ form' = [form EXCEPT !.old = FALSE, !.body = body])
      BY <2>3 DEF LoadLatestPayment
    <3> HIDE DEF body
    <3> QED BY <1>1, <3>1, <3>2 DEF Form
  <2>4. ASSUME NEW anew \in BOOLEAN, RefreshSignature(anew)
        PROVE  key' \in Key \cup {None} /\ form' \in Form
    BY <1>1, <2>4 DEF RefreshSignature, Form
  <2>5. ASSUME NEW mode \in Mode, SendWebhook(mode)
        PROVE  key' \in Key \cup {None} /\ form' \in Form
    <3>1. This \in Job
      BY <2>5, ThisIsFresh DEF SendWebhook
    <3> QED BY <1>1, <2>5, <3>1, SendsWebhookIs DEF SendWebhook
  <2>6. ASSUME TypeControl \/ ClearToken \/ UseLatestUserId \/ ClearState
               \/ ClearBanner \/ ConnectEvents \/ DisconnectEvents
               \/ ClearEventsLog \/ GenerateLocalJwt \/ ArmStream \/ HealthSweep
               \/ CloseResultDrawer
        PROVE  UNCHANGED <<key, form>>
    BY <2>6 DEF TypeControl, Input, ClearToken, UseLatestUserId, ClearState,
       ClearBanner, ConnectEvents, DisconnectEvents, ClearEventsLog,
       GenerateLocalJwt, ArmStream, HealthSweep, CloseResultDrawer, inputs
  <2>7. ASSUME NEW r, Ask(r) \/ OpenResult(r) \/ ClearResult(r)
        PROVE  UNCHANGED <<key, form>>
    BY <2>7 DEF Ask, OpenResult, ClearResult, inputs
  <2> QED BY <1>1, <1>2, <2>1, <2>2, <2>3, <2>4, <2>5, <2>6, <2>7, KeysAreKeys
          DEF Clicks
<1>3. ASSUME NEW i \in Job, Continues(i)
      PROVE  key' \in Key \cup {None} /\ form' \in Form
  <2>1. ASSUME Refreshed(i) PROVE key' = key /\ form' \in Form
    <3>1. jobs[i].old \in BOOLEAN /\ jobs[i].body \in Body
      BY <2>1, TasksOf DEF Refreshed
    <3>2. [form EXCEPT !.signature = Sign(jobs[i].old, jobs[i].body)] \in Form
      BY <1>1, <3>1 DEF Form, Signature, Sign
    <3>3. /\ key' = key
          /\ form' \in Form \/ (\E f \in Form : SendsWebhook(i, "confirmed", f))
      BY <1>1, <2>1, <3>2 DEF Refreshed
    <3> QED BY <3>3, SendsWebhookIs DEF Mode
  <2>2. ASSUME WebhookSigned(i) PROVE key' = key /\ form' \in Form
    <3>1. SignatureOf(jobs[i]) \in Signature
      BY <2>2, SignaturesAre DEF WebhookSigned
    <3>2. [form EXCEPT !.signature = SignatureOf(jobs[i])] \in Form
      BY <1>1, <3>1 DEF Form
    <3> QED BY <1>1, <2>2, <3>2 DEF WebhookSigned
  <2>3. ASSUME Answered(i) \/ AccountAnswered(i) \/ StreamAnswered(i)
               \/ StreamFails(i) \/ StreamEnds(i)
               \/ (\E type \in EventType : StreamEvent(i, type))
               \/ JwtSigned(i) \/ JwtFails(i) \/ WebhookAnswered(i)
               \/ SweepService(i)
        PROVE  UNCHANGED <<key, form>>
    BY <2>3 DEF Answered, AccountAnswered, StreamAnswered, StreamFails, StreamEnds,
       StreamEvent, JwtSigned, JwtFails, WebhookAnswered, SweepService, inputs
  <2> QED BY <1>1, <1>3, <2>1, <2>2, <2>3 DEF Continues
<1>4. CASE UNCHANGED vars
  BY <1>1, <1>4 DEF vars, inputs
<1> QED BY <1>2, <1>3, <1>4 DEF Next

-------------------------------------------------------------------------------
(* Accounts and webhooks. *)

\* The webhooks that webhook-service has accepted.
Accepted == {i \in Job : jobs[i].kind = "webhook" /\ jobs[i].at = "accepted"}

\* A webhook is accepted only by its answer.
LEMMA AcceptedKept ==
  ASSUME IInv, [Next]_vars,
         \A i \in Job : WebhookAnswered(i) => i \notin Accepted'
  PROVE  Accepted' = Accepted /\ \A i \in Accepted : jobs'[i] = jobs[i]
<1>1. Idle.kind = "idle"
  BY DEF Idle
<1>2. \A j \in Accepted : j \notin Aborted
  BY DEF Accepted, Aborted
<1>3. CASE Clicks
  <2>1. /\ Others(This) /\ jobs[This].kind = "idle"
        /\ jobs'[This].kind = "webhook" => jobs'[This].at = "sign"
    BY <1>3, JobsOfClicks, ThisIsFresh
  <2> QED BY <1>1, <1>2, <2>1 DEF Others, Accepted, Aborted
<1>4. ASSUME NEW i \in Job, Continues(i)
      PROVE  Accepted' = Accepted /\ \A j \in Accepted : jobs'[j] = jobs[j]
  <2>1. /\ Others(i) /\ i \notin Accepted
        /\ jobs'[i].kind = "webhook" =>
             jobs'[i].at = "sign" \/ WebhookSigned(i) \/ WebhookAnswered(i)
    BY <1>4, JobsOfAnswers DEF Accepted
  <2>2. WebhookSigned(i) /\ jobs'[i].kind = "webhook" => jobs'[i].at = "fetch"
    <3> SUFFICES ASSUME WebhookSigned(i), jobs'[i].kind = "webhook"
                 PROVE  jobs'[i].at = "fetch"
      OBVIOUS
    <3> DEFINE t == [jobs[i] EXCEPT !.at = "fetch", !.signature = SignatureOf(jobs[i])]
    <3>1. jobs'[i] = t \/ jobs'[i] = Idle
      BY DEF WebhookSigned, Becomes, IInv, TypeOK
    <3>2. t.at = "fetch"
      BY TasksOf DEF WebhookSigned
    <3> HIDE DEF t
    <3> QED BY <1>1, <3>1, <3>2
  <2>3. i \notin Accepted'
    BY <2>1, <2>2 DEF Accepted
  <2>4. \A j \in Job \ {i} : j \in Accepted' <=> j \in Accepted
    BY <1>1, <2>1 DEF Others, Accepted, Aborted
  <2>5. \A j \in Accepted : jobs'[j] = jobs[j]
    BY <1>2, <2>1 DEF Others, Accepted
  <2>6. Accepted \subseteq Job /\ Accepted' \subseteq Job
    BY DEF Accepted
  <2> QED BY <2>1, <2>3, <2>4, <2>5, <2>6
<1>5. CASE UNCHANGED vars
  BY <1>5 DEF vars, Accepted
<1> QED BY <1>3, <1>4, <1>5 DEF Next

\* What steps leave the announcements alone, and the accounts.
LEMMA FactsLeft ==
  ASSUME IInv, [Next]_vars
  PROVE  /\ \/ account' \in {account, None}
            \/ \E i \in Job : AccountAnswered(i)
         /\ \/ UNCHANGED announced /\ notified' \in {notified, None}
            \/ \E i \in Job : WebhookAnswered(i)
         /\ accepted' \in BOOLEAN
         /\ types' \subseteq EventType
<1> DEFINE Done == /\ account' \in {account, None}
                   /\ UNCHANGED announced /\ notified' \in {notified, None}
                   /\ accepted' \in BOOLEAN
                   /\ types' \subseteq EventType
<1>1. accepted \in BOOLEAN /\ types \subseteq EventType
  BY DEF IInv, TypeOK
<1>2. UNCHANGED facts => Done
  BY <1>1 DEF facts
<1>3. CASE Clicks
  <2>1. ASSUME ClearState \/ ClearBanner PROVE Done
    BY <1>1, <2>1 DEF ClearState, ClearBanner
  <2>2. ASSUME TypeControl \/ ClearToken \/ UseLatestUserId \/ ConnectEvents
               \/ DisconnectEvents \/ ClearEventsLog \/ GenerateLocalJwt
               \/ ArmStream \/ HealthSweep \/ CloseResultDrawer
        PROVE  UNCHANGED facts
    BY <2>2 DEF TypeControl, Input, ClearToken, UseLatestUserId, ConnectEvents,
       DisconnectEvents, ClearEventsLog, GenerateLocalJwt, ArmStream, HealthSweep,
       CloseResultDrawer
  <2>3. ASSUME NEW k, TypeKey(k) \/ GenerateKey(k) PROVE UNCHANGED facts
    BY <2>3 DEF TypeKey, GenerateKey
  <2>4. ASSUME NEW keyless, NEW k, CreateAccount(keyless, k) PROVE UNCHANGED facts
    BY <2>4 DEF CreateAccount
  <2>5. ASSUME NEW r, Ask(r) \/ OpenResult(r) \/ ClearResult(r)
        PROVE  UNCHANGED facts
    BY <2>5 DEF Ask, OpenResult, ClearResult
  <2>6. ASSUME NEW x, LoadLatestPayment(x) \/ RefreshSignature(x) \/ SendWebhook(x)
        PROVE  UNCHANGED facts
    BY <2>6 DEF LoadLatestPayment, RefreshSignature, SendWebhook
  <2> HIDE DEF Done
  <2>7. Done
    BY <1>2, <1>3, <2>1, <2>2, <2>3, <2>4, <2>5, <2>6 DEF Clicks
  <2> QED BY <2>7 DEF Done
<1>4. ASSUME NEW i \in Job, Continues(i)
      PROVE  \/ Done
             \/ AccountAnswered(i) /\ UNCHANGED <<accepted, types, announced, notified>>
             \/ WebhookAnswered(i) /\ UNCHANGED <<account, types>> /\ accepted' \in BOOLEAN
  <2>1. ASSUME NEW type \in EventType, StreamEvent(i, type) PROVE Done
    BY <1>1, <2>1 DEF StreamEvent
  <2>2. ASSUME Answered(i) \/ StreamAnswered(i) \/ StreamFails(i) \/ StreamEnds(i)
               \/ JwtSigned(i) \/ JwtFails(i) \/ Refreshed(i) \/ WebhookSigned(i)
               \/ SweepService(i)
        PROVE  UNCHANGED facts
    BY <2>2 DEF Answered, StreamAnswered, StreamFails, StreamEnds, JwtSigned,
       JwtFails, Refreshed, WebhookSigned, SweepService
  <2>3. AccountAnswered(i) => UNCHANGED <<accepted, types, announced, notified>>
    BY DEF AccountAnswered
  <2>4. WebhookAnswered(i) => UNCHANGED <<account, types>> /\ accepted' \in BOOLEAN
    BY <1>1 DEF WebhookAnswered
  <2> HIDE DEF Done
  <2> QED BY <1>2, <1>4, <2>1, <2>2, <2>3, <2>4 DEF Continues
<1>5. UNCHANGED vars => Done
  BY <1>2 DEF vars
<1> QED BY <1>1, <1>3, <1>4, <1>5 DEF Next

\* An account comes with its key, an announcement with its confirmation.
LEMMA FactsKept ==
  ASSUME IInv, [Next]_vars
  PROVE  /\ FactsAreTrue'
         /\ account' \in [key : Key, user : Key] \cup {None}
         /\ accepted' \in BOOLEAN
         /\ types' \subseteq EventType
         /\ announced' \subseteq Key \cup {None}
         /\ notified' \in Key \cup {None}
<1> DEFINE Accounts == [key : Key, user : Key] \cup {None}
           Told == /\ announced' \subseteq Key \cup {None}
                   /\ notified' \in Key \cup {None}
                   /\ AnnouncedIsAccepted'
<1>1. /\ account \in Accounts /\ AccountIsOfItsKey
      /\ announced \subseteq Key \cup {None} /\ notified \in Key \cup {None}
      /\ announced = {jobs[i].body.of : i \in Accepted}
      /\ notified \in announced \cup {None}
  BY DEF IInv, TypeOK, FactsAreTrue, AnnouncedIsAccepted, Accepted
<1>2. account' \in {account, None} => account' \in Accounts /\ AccountIsOfItsKey'
  BY <1>1 DEF AccountIsOfItsKey
<1>3. ASSUME NEW i \in Job, AccountAnswered(i)
      PROVE  account' \in Accounts /\ AccountIsOfItsKey'
  <2>1. jobs[i].key \in Key \cup {None}
    BY <1>3, TasksOf DEF AccountAnswered
  <2>2. \/ account' = account
        \/ (jobs[i].key # None /\ account' = [key |-> jobs[i].key, user |-> jobs[i].key])
    BY <1>3 DEF AccountAnswered
  <2> QED BY <1>1, <2>1, <2>2 DEF AccountIsOfItsKey
<1>4. /\ AnnouncedIsAccepted' <=> /\ announced' = {jobs'[i].body.of : i \in Accepted'}
                                  /\ notified' \in announced' \cup {None}
  BY DEF AnnouncedIsAccepted, Accepted
<1>5. ASSUME UNCHANGED announced, notified' \in {notified, None},
             Accepted' = Accepted, \A i \in Accepted : jobs'[i] = jobs[i]
      PROVE  Told
  BY <1>1, <1>4, <1>5
<1>6. ASSUME NEW i \in Job, WebhookAnswered(i), i \notin Accepted'
      PROVE  Told
  <2>1. UNCHANGED <<announced, notified>>
    <3>1. jobs[i].kind = "webhook"
      BY <1>6 DEF WebhookAnswered
    <3> DEFINE t == [jobs[i] EXCEPT !.at = "accepted"]
    <3>2. t.at = "accepted" /\ t.kind = "webhook"
      BY <3>1, TasksOf
    <3>3. Becomes(i, t) => i \in Accepted'
      BY <3>2 DEF Becomes, IInv, TypeOK, Accepted
    <3>4. \/ Becomes(i, t)
          \/ UNCHANGED <<announced, notified>>
      BY <1>6 DEF WebhookAnswered
    <3> QED BY <1>6, <3>3, <3>4
  <2>2. \A j \in Job : WebhookAnswered(j) => j \notin Accepted'
    <3> SUFFICES ASSUME NEW j \in Job, WebhookAnswered(j), j # i
                 PROVE  j \notin Accepted'
      BY <1>6
    <3>1. jobs[j].at = "fetch"
      BY DEF WebhookAnswered
    <3>2. jobs'[j] = jobs[j]
      BY <1>6 DEF WebhookAnswered, Becomes, IInv, TypeOK
    <3> QED BY <3>1, <3>2 DEF Accepted
  <2> QED BY <1>5, <1>6, <2>1, <2>2, AcceptedKept DEF Next, Continues
<1>7. ASSUME NEW i \in Job, WebhookAnswered(i), i \in Accepted'
      PROVE  Told
  <2> DEFINE t == [jobs[i] EXCEPT !.at = "accepted"]
             payment == jobs[i].body.of
  <2>1. /\ jobs[i].kind = "webhook" /\ jobs[i].at = "fetch"
        /\ payment \in Key \cup {None} /\ jobs \in [Job -> Task]
    BY <1>7, TasksOf DEF WebhookAnswered, Body, IInv, TypeOK
  <2>2. t.at = "accepted" /\ t.kind = "webhook" /\ t.body = jobs[i].body
    BY <2>1, TasksOf
  <2>3. Becomes(i, t) /\ EmitPaymentNotification(payment)
    <3>1. Becomes(i, Idle) => jobs'[i] = Idle
      BY <2>1 DEF Becomes
    <3>2. \/ (Becomes(i, t) /\ EmitPaymentNotification(payment))
          \/ (Becomes(i, Idle) /\ UNCHANGED <<announced, notified>>)
      BY <1>7 DEF WebhookAnswered
    <3> QED BY <1>7, <3>1, <3>2 DEF Idle, Accepted
  <2> HIDE DEF t
  <2>4. jobs' = [jobs EXCEPT ![i] = t]
    BY <2>3 DEF Becomes
  <2>5. Accepted' = Accepted \cup {i} /\ i \notin Accepted
    BY <2>1, <2>2, <2>4 DEF Accepted
  <2>6. \A j \in Accepted : jobs'[j] = jobs[j]
    BY <2>1, <2>4, <2>5 DEF Accepted
  <2>7. jobs'[i].body.of = payment
    BY <2>1, <2>2, <2>4
  <2> HIDE DEF payment
  <2>8. {jobs'[j].body.of : j \in Accepted'} = announced \cup {payment}
    BY <1>1, <2>5, <2>6, <2>7
  <2> QED BY <1>1, <1>4, <2>1, <2>3, <2>8 DEF EmitPaymentNotification
<1> HIDE DEF Told, Accounts
<1>8. account' \in Accounts /\ AccountIsOfItsKey'
  BY <1>2, <1>3, FactsLeft
<1>9. Told
  BY <1>5, <1>6, <1>7, FactsLeft, AcceptedKept
<1> QED BY <1>8, <1>9, FactsLeft DEF Told, Accounts, FactsAreTrue

\* A job that is at the fetch has just been signed, or was there before.
LEMMA SignedKept ==
  ASSUME IInv, [Next]_vars
  PROVE  SentIsSigned'
<1>1. SentIsSigned /\ Idle.kind = "idle"
  BY DEF IInv, Idle
<1>2. ASSUME NEW i \in Job, jobs'[i] = jobs[i],
             jobs'[i].kind = "webhook", jobs'[i].at = "fetch"
      PROVE  jobs'[i].signature = SignatureOf(jobs'[i])
  BY <1>1, <1>2 DEF SentIsSigned
<1>3. CASE Clicks
  <2>1. /\ Others(This)
        /\ jobs'[This].kind = "webhook" => jobs'[This].at = "sign"
    BY <1>3, JobsOfClicks
  <2> QED BY <1>1, <1>2, <2>1 DEF Others, SentIsSigned
<1>4. ASSUME NEW i \in Job, Continues(i) PROVE SentIsSigned'
  <2>1. /\ Others(i)
        /\ jobs'[i].kind = "webhook" =>
             jobs'[i].at = "sign" \/ WebhookSigned(i) \/ WebhookAnswered(i)
    BY <1>4, JobsOfAnswers
  <2>2. ASSUME WebhookSigned(i), jobs'[i].kind = "webhook"
        PROVE  jobs'[i].signature = SignatureOf(jobs'[i])
    <3> DEFINE t == [jobs[i] EXCEPT !.at = "fetch", !.signature = SignatureOf(jobs[i])]
    <3>1. jobs'[i] = t \/ jobs'[i] = Idle
      BY <2>2 DEF WebhookSigned, Becomes, IInv, TypeOK
    <3>2. /\ t.signature = SignatureOf(jobs[i])
          /\ t.old = jobs[i].old /\ t.body = jobs[i].body /\ t.mode = jobs[i].mode
      BY <2>2, TasksOf DEF WebhookSigned
    <3> HIDE DEF t
    <3> QED BY <1>1, <2>2, <3>1, <3>2 DEF SignatureOf
  <2>3. ASSUME WebhookAnswered(i), jobs'[i].kind = "webhook"
        PROVE  jobs'[i].at = "accepted"
    <3>1. jobs'[i] = [jobs[i] EXCEPT !.at = "accepted"] \/ jobs'[i] = Idle
      BY <2>3 DEF WebhookAnswered, Becomes, IInv, TypeOK
    <3> QED BY <1>1, <2>3, <3>1, TasksOf DEF WebhookAnswered
  <2> QED BY <1>1, <1>2, <2>1, <2>2, <2>3 DEF Others, SentIsSigned
<1>5. CASE UNCHANGED vars
  BY <1>1, <1>2, <1>5 DEF vars, SentIsSigned
<1> QED BY <1>3, <1>4, <1>5 DEF Next

-------------------------------------------------------------------------------
(* The event stream. *)

\* TypeOK and StatusIsTrue, of the stream.
LinkOK == /\ status \in {"idle", "opening", "connected", "closed", "error"}
          /\ handle \in Job \cup {None}
          /\ StreamStatusIsTrue
          /\ HandleIsLive

\* A step that touches no stream.
StreamsLeft ==
  UNCHANGED link /\ \A j \in Job : jobs[j].kind = "stream" => jobs'[j] = jobs[j]

LEMMA LinkLeft ==
  ASSUME IInv, StreamsLeft
  PROVE  LinkOK'
<1>1. /\ status \in {"idle", "opening", "connected", "closed", "error"}
      /\ handle \in Job \cup {None} /\ StreamStatusIsTrue /\ HandleIsLive
  BY DEF IInv, TypeOK, StatusIsTrue
<1>2. UNCHANGED <<status, handle>>
  BY DEF StreamsLeft, link
<1>3. StreamStatusIsTrue'
  BY <1>1, <1>2 DEF StreamsLeft, StreamStatusIsTrue, IsStream
<1>4. HandleIsLive'
  BY <1>1, <1>2, ClicksAreBounded DEF StreamsLeft, HandleIsLive, Job
<1> QED BY <1>1, <1>2, <1>3, <1>4 DEF LinkOK

\* A stream is announced and held only if no other was aborted.
LEMMA ConnectsLink ==
  ASSUME IInv, NEW i \in Job, NEW v, Connects(i, v)
  PROVE  LinkOK'
<1>1. CASE status' \in {"error", "closed"} /\ handle' = None
  BY <1>1 DEF LinkOK, StreamStatusIsTrue, HandleIsLive
<1>2. CASE /\ status' = "opening" /\ handle' = i
           /\ \/ jobs' = [Without(jobs, {}) EXCEPT ![i] = [kind |-> "stream", at |-> "fetch"]]
              \/ jobs' = [Without(jobs, {}) EXCEPT ![i] = [kind |-> "stream", at |-> "thrown"]]
  <2>1. IsStream(i, "fetch")' \/ IsStream(i, "thrown")'
    BY <1>2 DEF Without, IsStream
  <2>2. jobs'[i].kind = "stream"
    BY <2>1 DEF IsStream
  <2> QED BY <1>2, <2>1, <2>2 DEF LinkOK, StreamStatusIsTrue, HandleIsLive
<1> QED BY <1>1, <1>2 DEF Connects

\* A click leaves the status and the handle true.
LEMMA LinkOfClicks ==
  ASSUME IInv, Clicks
  PROVE  LinkOK'
<1>1. Click /\ This \in Job /\ jobs[This].kind = "idle"
  BY JobsOfClicks, ThisIsFresh
<1>2. UNCHANGED <<link, jobs>> => StreamsLeft
  BY DEF StreamsLeft
<1>3. ASSUME NEW t, UNCHANGED link, Becomes(This, t) PROVE StreamsLeft
  BY <1>1, <1>3 DEF StreamsLeft, Becomes, IInv, TypeOK
<1>4. ASSUME NEW t, UNCHANGED link, Begins(t) PROVE StreamsLeft
  BY <1>3, <1>4 DEF Begins, Becomes
<1>5. ASSUME TypeControl \/ ClearToken \/ UseLatestUserId \/ ClearState
             \/ ClearBanner \/ ClearEventsLog \/ GenerateLocalJwt \/ HealthSweep
             \/ CloseResultDrawer
      PROVE  StreamsLeft
  BY <1>2, <1>4, <1>5 DEF TypeControl, Input, ClearToken, UseLatestUserId,
     ClearState, ClearBanner, ClearEventsLog, GenerateLocalJwt, HealthSweep,
     CloseResultDrawer
<1>6. ASSUME NEW k, TypeKey(k) \/ GenerateKey(k) PROVE StreamsLeft
  BY <1>2, <1>6 DEF TypeKey, GenerateKey
<1>7. ASSUME NEW keyless, NEW k, CreateAccount(keyless, k) PROVE StreamsLeft
  BY <1>2, <1>4, <1>7 DEF CreateAccount, Sends
<1>8. ASSUME NEW r, Ask(r) \/ OpenResult(r) \/ ClearResult(r) PROVE StreamsLeft
  BY <1>2, <1>4, <1>8 DEF Ask, OpenResult, ClearResult, Sends
<1>9. ASSUME NEW x, LoadLatestPayment(x) \/ RefreshSignature(x) \/ SendWebhook(x)
      PROVE  StreamsLeft
  BY <1>2, <1>3, <1>4, <1>9 DEF LoadLatestPayment, RefreshSignature, SendWebhook,
     SendsWebhook
<1>10. ASSUME ConnectEvents PROVE LinkOK'
  BY <1>1, <1>10, ConnectsLink DEF ConnectEvents
<1>11. ASSUME DisconnectEvents PROVE LinkOK'
  BY <1>11 DEF DisconnectEvents, LinkOK, StreamStatusIsTrue, HandleIsLive
<1>12. ASSUME ArmStream PROVE LinkOK'
  <2>1. \/ Connects(This, NoUserId)
        \/ UNCHANGED link /\ (UNCHANGED jobs \/ \E t : Begins(t))
    BY <1>12 DEF ArmStream
  <2> QED BY <1>1, <1>2, <1>4, <2>1, ConnectsLink, LinkLeft
<1> QED BY <1>5, <1>6, <1>7, <1>8, <1>9, <1>10, <1>11, <1>12, LinkLeft DEF Clicks

\* So does a handler that goes on.
LEMMA LinkOfAnswers ==
  ASSUME IInv, NEW i \in Job, Continues(i)
  PROVE  LinkOK'
<1>1. jobs \in [Job -> Task] /\ handle \in Job \cup {None}
  BY DEF IInv, TypeOK
<1>2. ASSUME UNCHANGED link, jobs[i].kind # "stream", NEW t, Becomes(i, t)
      PROVE  StreamsLeft
  BY <1>1, <1>2 DEF StreamsLeft, Becomes
<1>3. ASSUME Answered(i) \/ AccountAnswered(i) \/ Refreshed(i) \/ WebhookSigned(i)
             \/ WebhookAnswered(i) \/ SweepService(i)
      PROVE  StreamsLeft
  BY <1>2, <1>3 DEF Answered, AccountAnswered, Refreshed, SendsWebhook,
     WebhookSigned, WebhookAnswered, SweepService, Swept
<1>4. ASSUME NEW type, StreamEvent(i, type) PROVE StreamsLeft
  BY <1>4 DEF StreamEvent, StreamsLeft
<1>5. ASSUME StreamAnswered(i) PROVE LinkOK'
  <2>1. CASE status' = "error" /\ handle' = None
    BY <2>1 DEF LinkOK, StreamStatusIsTrue, HandleIsLive
  <2>2. CASE /\ status' = "connected" /\ handle' = handle
             /\ Becomes(i, [kind |-> "stream", at |-> "read"])
    <3>1. /\ jobs'[i] = [kind |-> "stream", at |-> "read"]
          /\ \A j \in Job \ {i} : jobs'[j] = jobs[j]
      BY <1>1, <2>2 DEF Becomes
    <3>2. IsStream(i, "read")'
      BY <3>1 DEF IsStream
    <3>3. HandleIsLive'
      BY <1>1, <2>2, <3>1 DEF IInv, StatusIsTrue, HandleIsLive
    <3> QED BY <1>1, <2>2, <3>2, <3>3 DEF LinkOK, StreamStatusIsTrue
  <2> QED BY <1>5, <2>1, <2>2 DEF StreamAnswered
<1>6. ASSUME StreamFails(i) \/ StreamEnds(i) PROVE LinkOK'
  BY <1>6 DEF StreamFails, StreamEnds, LinkOK, StreamStatusIsTrue, HandleIsLive
<1>7. ASSUME JwtSigned(i) \/ JwtFails(i) PROVE LinkOK'
  <2>1. \/ \E v : Connects(i, v)
        \/ UNCHANGED link /\ jobs[i].kind = "jwt" /\ Becomes(i, Idle)
    BY <1>7 DEF JwtSigned, JwtFails
  <2> QED BY <1>2, <2>1, ConnectsLink, LinkLeft
<1> QED BY <1>3, <1>4, <1>5, <1>6, <1>7, LinkLeft DEF Continues

-------------------------------------------------------------------------------
(* Panels. *)

\* What the progress, and the strip, show of the state is left alone.
FlowSame ==
  /\ UNCHANGED <<flow, account, accepted, types, status>>
  /\ controls'.token = controls.token
  /\ controls'.credentials = controls.credentials

StripSame ==
  /\ UNCHANGED <<strip, status>>
  /\ controls'.base = controls.base
  /\ controls'.credentials = controls.credentials
  /\ (controls'.token # None) = (controls.token # None)

\* A step renews what it changes.
Renewed == (RenderFlow \/ FlowSame) /\ (RenderStrip \/ StripSame)

\* A step of something that the panels do not show.
LEMMA Untouched ==
  ASSUME UNCHANGED <<controls, facts, link, flow, strip>>
  PROVE  Renewed
BY DEF facts, link, Renewed, FlowSame, StripSame

\* A control that the panels do not show.
LEMMA OtherControl ==
  ASSUME IInv, NEW f \in {"headers", "user"}, NEW x,
         controls' = [controls EXCEPT ![f] = x],
         UNCHANGED <<account, accepted, types, status>>
  PROVE  /\ UNCHANGED <<flow, strip>> => Renewed
         /\ UNCHANGED flow /\ RenderStrip => Renewed
<1>1. /\ controls'.token = controls.token
      /\ controls'.credentials = controls.credentials
      /\ controls'.base = controls.base
  BY DEF IInv, TypeOK, Controls
<1> QED BY <1>1 DEF Renewed, FlowSame, StripSame

\* A click renews the panels that it makes stale.
LEMMA ClicksRenew ==
  ASSUME IInv, Clicks
  PROVE  Renewed /\ (UNCHANGED health \/ HealthSweep)
<1> DEFINE Done == Renewed /\ UNCHANGED health
<1>1. RenderFlow /\ RenderStrip => Renewed
  BY DEF Renewed
<1>2. UNCHANGED <<controls, facts, link, flow, strip, health>> => Done
  BY Untouched
<1>3. ASSUME TypeControl PROVE Done
  <2>1. PICK f, x : Input(f, x)
    BY <1>3 DEF TypeControl
  <2>2. CASE f = "headers"
    <3>1. /\ controls' = [controls EXCEPT !["headers"] = x]
          /\ UNCHANGED <<account, accepted, types, status, flow, strip, health>>
      BY <2>1, <2>2 DEF Input, facts, link
    <3> QED BY <3>1, OtherControl
  <2>3. CASE f # "headers"
    BY <1>1, <2>1, <2>3 DEF Input
  <2> QED BY <2>2, <2>3
<1>4. ASSUME ClearToken \/ ConnectEvents \/ DisconnectEvents PROVE Done
  BY <1>1, <1>4 DEF ClearToken, ConnectEvents, DisconnectEvents
<1>5. ASSUME UseLatestUserId PROVE Done
  <2>1. /\ controls' = [controls EXCEPT !["user"] = account.user]
        /\ UNCHANGED <<account, accepted, types, status, flow, health>>
        /\ RenderStrip
    BY <1>5 DEF UseLatestUserId, facts, link
  <2> QED BY <2>1, OtherControl
<1>6. ASSUME ClearState PROVE Done
  BY <1>6 DEF ClearState, inputs, link, Renewed, StripSame
<1>7. ASSUME ClearBanner PROVE Done
  BY <1>7 DEF ClearBanner, inputs, link, Renewed, FlowSame, StripSame
<1>8. ASSUME ArmStream PROVE Done
  <2> DEFINE user == IF controls.user = None /\ account # None THEN account.user
                                                              ELSE controls.user
  <2>1. /\ controls' = [controls EXCEPT !["user"] = user]
        /\ UNCHANGED <<account, accepted, types, health>>
        /\ \/ RenderFlow /\ RenderStrip
           \/ UNCHANGED <<status, flow, strip>>
    BY <1>8 DEF ArmStream, facts, link
  <2> HIDE DEF user
  <2> QED BY <1>1, <2>1, OtherControl
<1>9. ASSUME ClearEventsLog \/ GenerateLocalJwt \/ CloseResultDrawer PROVE Done
  BY <1>2, <1>9 DEF ClearEventsLog, GenerateLocalJwt, CloseResultDrawer, inputs
<1>10. ASSUME NEW k, TypeKey(k) \/ GenerateKey(k) PROVE Done
  BY <1>2, <1>10 DEF TypeKey, GenerateKey
<1>11. ASSUME NEW keyless, NEW k, CreateAccount(keyless, k) PROVE Done
  BY <1>2, <1>11 DEF CreateAccount
<1>12. ASSUME NEW r, Ask(r) \/ OpenResult(r) \/ ClearResult(r) PROVE Done
  BY <1>2, <1>12 DEF Ask, OpenResult, ClearResult, inputs
<1>13. ASSUME NEW x, LoadLatestPayment(x) \/ RefreshSignature(x) \/ SendWebhook(x)
       PROVE  Done
  BY <1>2, <1>13 DEF LoadLatestPayment, RefreshSignature, SendWebhook
<1>14. HealthSweep => Renewed
  BY Untouched DEF HealthSweep, inputs
<1> HIDE DEF Done
<1>15. Done \/ HealthSweep
  BY <1>3, <1>4, <1>5, <1>6, <1>7, <1>8, <1>9, <1>10, <1>11, <1>12, <1>13 DEF Clicks
<1> QED BY <1>14, <1>15 DEF Done

\* So does a handler that goes on.
LEMMA AnswersRenew ==
  ASSUME IInv, NEW i \in Job, Continues(i)
  PROVE  Renewed /\ (UNCHANGED health \/ SweepService(i))
<1>1. RenderFlow /\ RenderStrip => Renewed
  BY DEF Renewed
<1>2. ASSUME Answered(i) \/ Refreshed(i) \/ WebhookSigned(i)
      PROVE  Renewed /\ UNCHANGED health
  BY <1>2, Untouched DEF Answered, Refreshed, WebhookSigned, inputs
<1>3. ASSUME AccountAnswered(i) PROVE Renewed /\ UNCHANGED health
  BY <1>1, <1>3 DEF AccountAnswered, link, Renewed, FlowSame, StripSame
<1>4. ASSUME StreamAnswered(i) \/ StreamFails(i) \/ StreamEnds(i) \/ JwtSigned(i)
      PROVE  Renewed /\ UNCHANGED health
  BY <1>1, <1>4 DEF StreamAnswered, StreamFails, StreamEnds, JwtSigned
<1>5. ASSUME NEW type, StreamEvent(i, type) PROVE Renewed /\ UNCHANGED health
  BY <1>5 DEF StreamEvent, inputs, link, Renewed, StripSame
<1>6. ASSUME JwtFails(i) PROVE Renewed /\ UNCHANGED health
  BY <1>1, <1>6, Untouched DEF JwtFails, inputs
<1>7. ASSUME WebhookAnswered(i) PROVE Renewed /\ UNCHANGED health
  BY <1>7 DEF WebhookAnswered, inputs, link, Renewed, FlowSame, StripSame
<1>8. ASSUME SweepService(i) PROVE Renewed
  <2>1. UNCHANGED <<controls, facts, link, strip>> /\ (UNCHANGED flow \/ RenderFlow)
    BY <1>8 DEF SweepService, Swept, inputs
  <2> QED BY <2>1 DEF facts, link, Renewed, FlowSame, StripSame
<1> QED BY <1>2, <1>3, <1>4, <1>5, <1>6, <1>7, <1>8 DEF Continues

\* The steps that renderFlowProgress shows, but for the health of the edge.
Steps == {"account", "auth", "stream", "webhook", "payment", "premium"}

\* The progress is renewed with all its steps, or none of what it shows changes.
LEMMA FlowKept ==
  ASSUME \A step \in DOMAIN Flow \ {"edge"} : flow[step] = Flow[step],
         RenderFlow \/ FlowSame
  PROVE  /\ \A step \in (DOMAIN Flow)' \ {"edge"} : flow'[step] = Flow'[step]
         /\ RenderFlow \/ (UNCHANGED pulse /\ flow.edge = Flow.edge) =>
              flow'.edge = Flow'.edge
<1>1. DOMAIN Flow = Steps \cup {"edge"} /\ (DOMAIN Flow)' = Steps \cup {"edge"}
  BY DEF Flow, Steps
<1>2. CASE RenderFlow
  BY <1>2 DEF RenderFlow
<1>3. CASE FlowSame
  <2>1. Flow'.account = Flow.account /\ Flow'.auth = Flow.auth
    BY <1>3 DEF FlowSame, Flow
  <2>2. Flow'.stream = Flow.stream /\ Flow'.webhook = Flow.webhook
    BY <1>3 DEF FlowSame, Flow
  <2>3. Flow'.payment = Flow.payment /\ Flow'.premium = Flow.premium
    BY <1>3 DEF FlowSame, Flow
  <2>4. UNCHANGED pulse => Flow'.edge = Flow.edge
    BY DEF Flow
  <2>5. \A step \in Steps : Flow'[step] = Flow[step]
    BY <2>1, <2>2, <2>3 DEF Steps
  <2>6. flow' = flow
    BY <1>3 DEF FlowSame
  <2>7. RenderFlow => flow'.edge = Flow'.edge
    BY DEF RenderFlow
  <2> QED BY <1>1, <2>4, <2>5, <2>6, <2>7
<1> QED BY <1>2, <1>3

\* The same of the context strip.
LEMMA StripKept ==
  ASSUME strip = Strip, RenderStrip \/ StripSame
  PROVE  strip' = Strip'
BY DEF RenderStrip, StripSame, Strip

-------------------------------------------------------------------------------
(* Health. *)

Pulses == [Service -> {"checking", "up", "degraded", "down"}]
IsSweep(i) == jobs[i].kind = "sweep"

\* TypeOK, StatusIsTrue and CopiesAreCurrent, of health.
HealthOK == /\ pulse \in Pulses /\ board \in Pulses
            /\ CheckingIsUnderWay
            /\ (\A i \in Job : ~IsSweep(i)) => board = pulse /\ flow.edge = Flow.edge

\* The part of the invariant about health.
LEMMA HealthIs ==
  ASSUME IInv
  PROVE  HealthOK
BY DEF IInv, TypeOK, StatusIsTrue, CopiesAreCurrent, PanelsAreCurrent, HealthOK,
   Pulses, IsSweep

\* No sweep starts or goes on.
LEMMA HealthLeft ==
  ASSUME IInv, UNCHANGED health, RenderFlow \/ FlowSame,
         \A j \in Job : IsSweep(j) => jobs'[j] = jobs[j]
  PROVE  HealthOK'
<1>1. HealthOK /\ UNCHANGED <<pulse, board>>
  BY HealthIs DEF health
<1>2. CheckingIsUnderWay'
  BY <1>1 DEF HealthOK, CheckingIsUnderWay, IsSweep
<1>3. (\A i \in Job : ~IsSweep(i)') => \A i \in Job : ~IsSweep(i)
  BY DEF IsSweep
<1>4. flow.edge = Flow.edge => flow'.edge = Flow'.edge
  <2>1. \A step \in DOMAIN Flow \ {"edge"} : flow[step] = Flow[step]
    BY DEF IInv, CopiesAreCurrent, PanelsAreCurrent
  <2> QED BY <1>1, <2>1, FlowKept
<1> QED BY <1>1, <1>2, <1>3, <1>4 DEF HealthOK

\* A new sweep will visit every service.
LEMMA HealthOfSweep ==
  ASSUME IInv, HealthSweep
  PROVE  HealthOK'
<1> DEFINE next == IF controls.base THEN 1 ELSE None
           t == [kind |-> "sweep", next |-> next]
<1>1. /\ This \in Job /\ jobs \in [Job -> Task]
      /\ pulse' = [s \in Service |-> "checking"] /\ board' = pulse'
      /\ jobs' = [jobs EXCEPT ![This] = t]
  BY ThisIsFresh DEF HealthSweep, Begins, RenderStackPulse, IInv, TypeOK
<1>2. next \in {1, None}
  OBVIOUS
<1> HIDE DEF next
<1>3. jobs'[This].kind = "sweep" /\ jobs'[This].next = next
  BY <1>1
<1>4. pulse' \in Pulses
  BY <1>1 DEF Pulses
<1>5. CheckingIsUnderWay'
  <2>1. \A s \in Service : 1 \in 1..s
    BY ServicesAreNumbered
  <2> QED BY <1>1, <1>2, <1>3, <2>1 DEF CheckingIsUnderWay
<1> QED BY <1>1, <1>3, <1>4, <1>5 DEF HealthOK, IsSweep

\* A sweep leaves no service behind that is being checked.
LEMMA HealthOfService ==
  ASSUME IInv, NEW i \in Job, SweepService(i)
  PROVE  HealthOK'
<1> DEFINE s == jobs[i].next
<1>1. /\ HealthOK /\ jobs \in [Job -> Task] /\ jobs[i].kind = "sweep"
      /\ jobs[i] \in [kind : {"sweep"}, next : Service \cup {None}]
      /\ s \in Service
  BY HealthIs, TasksOf DEF SweepService, IInv, TypeOK
<1>2. \A n \in Service \cup {None} :
        /\ [jobs[i] EXCEPT !.next = n].kind = "sweep"
        /\ [jobs[i] EXCEPT !.next = n].next = n
  BY <1>1
<1>3. ASSUME controls.base PROVE HealthOK'
  <2>1. PICK answer \in {"up", "degraded", "down"} : pulse' = [pulse EXCEPT ![s] = answer]
    BY <1>3 DEF SweepService
  <2>2. pulse' \in Pulses /\ \A r \in Service : pulse'[r] = "checking" =>
                                                 r # s /\ pulse[r] = "checking"
    BY <1>1, <2>1 DEF HealthOK, Pulses
  <2>3. \A r \in Service : pulse'[r] = "checking" =>
          \/ \E j \in Job \ {i} : IsSweep(j) /\ (jobs[j].next = None \/ jobs[j].next \in 1..r)
          \/ s \in 1..r /\ r # s
          \/ s = None
    BY <1>1, <2>2 DEF HealthOK, CheckingIsUnderWay, IsSweep
  <2>4. s # None
    BY DEF SweepService
  <2>5. CASE s + 1 \notin Service
    <3>1. jobs' = [jobs EXCEPT ![i] = Idle] /\ RenderStackPulse /\ RenderFlow
      BY <1>3, <2>5 DEF SweepService, Swept, Becomes
    <3>2. \A r \in Service : ~(s \in 1..r /\ r # s)
      BY <1>1, <2>5, ServicesAreNumbered
    <3>3. CheckingIsUnderWay'
      BY <1>1, <2>3, <2>4, <3>1, <3>2 DEF CheckingIsUnderWay, IsSweep
    <3>4. board' = pulse' /\ flow'.edge = Flow'.edge
      BY <3>1 DEF RenderStackPulse, RenderFlow
    <3> QED BY <2>2, <3>3, <3>4 DEF HealthOK
  <2>6. CASE s + 1 \in Service
    <3>1. /\ jobs' = [jobs EXCEPT ![i] = [jobs[i] EXCEPT !.next = s + 1]]
          /\ UNCHANGED board
      BY <1>3, <2>6 DEF SweepService, Becomes
    <3>2. jobs'[i].kind = "sweep" /\ jobs'[i].next = s + 1
      BY <1>1, <1>2, <2>6, <3>1
    <3>3. \A r \in Service : s \in 1..r /\ r # s => s + 1 \in 1..r
      BY <1>1, ServicesAreNumbered
    <3>4. CheckingIsUnderWay'
      BY <1>1, <2>3, <2>4, <3>1, <3>2, <3>3 DEF CheckingIsUnderWay, IsSweep
    <3> QED BY <1>1, <2>2, <3>1, <3>2, <3>4 DEF HealthOK, IsSweep
  <2> QED BY <2>5, <2>6
<1>4. ASSUME ~controls.base PROVE HealthOK'
  <2>1. /\ jobs' = [jobs EXCEPT ![i] = [jobs[i] EXCEPT !.next = None]]
        /\ UNCHANGED <<pulse, board>>
    BY <1>4 DEF SweepService, Becomes
  <2>2. jobs'[i].kind = "sweep" /\ jobs'[i].next = None
    BY <1>1, <1>2, <2>1
  <2> QED BY <1>1, <2>1, <2>2 DEF HealthOK, CheckingIsUnderWay, IsSweep
<1> QED BY <1>3, <1>4

-------------------------------------------------------------------------------
(* The invariant. *)

\* Every step keeps the stream, health and the panels.
LEMMA PanelsStep ==
  ASSUME IInv, [Next]_vars
  PROVE  LinkOK' /\ HealthOK' /\ PanelsAreCurrent'
<1>1. /\ \A step \in DOMAIN Flow \ {"edge"} : flow[step] = Flow[step]
      /\ strip = Strip
  BY DEF IInv, CopiesAreCurrent, PanelsAreCurrent
<1>2. ASSUME HealthOK', Renewed PROVE PanelsAreCurrent'
  <2>1. /\ \A step \in (DOMAIN Flow)' \ {"edge"} : flow'[step] = Flow'[step]
        /\ strip' = Strip'
    BY <1>1, <1>2, FlowKept, StripKept DEF Renewed
  <2> QED BY <1>2, <2>1 DEF PanelsAreCurrent, HealthOK, IsSweep
<1>3. CASE Clicks
  <2>1. Renewed /\ (UNCHANGED health \/ HealthSweep)
    BY <1>3, ClicksRenew
  <2>2. \A j \in Job : IsSweep(j) => jobs'[j] = jobs[j]
    BY <1>3, JobsOfClicks, ThisIsFresh DEF Others, IsSweep, Aborted
  <2>3. HealthOK'
    BY <2>1, <2>2, HealthLeft, HealthOfSweep DEF Renewed
  <2> QED BY <1>2, <1>3, <2>1, <2>3, LinkOfClicks
<1>4. ASSUME NEW i \in Job, Continues(i)
      PROVE  LinkOK' /\ HealthOK' /\ PanelsAreCurrent'
  <2>1. Renewed /\ (UNCHANGED health \/ SweepService(i))
    BY <1>4, AnswersRenew
  <2>2. ASSUME ~SweepService(i)
        PROVE  \A j \in Job : IsSweep(j) => jobs'[j] = jobs[j]
    BY <1>4, <2>2, JobsOfAnswers DEF Others, IsSweep, Aborted
  <2>3. HealthOK'
    BY <2>1, <2>2, HealthLeft, HealthOfService DEF Renewed
  <2> QED BY <1>2, <1>4, <2>1, <2>3, LinkOfAnswers
<1>5. CASE UNCHANGED vars
  <2>1. Renewed /\ UNCHANGED <<health, link, jobs>>
    BY <1>5, Untouched DEF vars, inputs
  <2>2. HealthOK' /\ LinkOK'
    BY <2>1, HealthLeft, LinkLeft DEF Renewed, StreamsLeft
  <2> QED BY <1>2, <2>1, <2>2
<1> QED BY <1>3, <1>4, <1>5 DEF Next

\* The page that has loaded.
LEMMA InitInv ==
  ASSUME Init
  PROVE  IInv
<1>1. TypeOK
  <2>1. controls \in Controls /\ saved \in Controls
    BY RestoredAreControls DEF Init
  <2>2. form \in Form
    BY DEF Init, Form, Body, Signature, Sign
  <2>3. view \in View
    BY DEF Init, View
  <2>4. jobs \in [Job -> Task]
    BY DEF Init, Task, Idle
  <2>5. pulse \in [Service -> {"checking", "up", "degraded", "down"}] /\ board = pulse
    BY DEF Init
  <2>6. /\ key \in Key \cup {None} /\ account = None /\ accepted = FALSE
        /\ types = {} /\ announced = {} /\ notified = None /\ status = "idle"
        /\ handle = None /\ clicks = 0
    BY KeysAreKeys DEF Init
  <2>7. /\ account \in [key : Key, user : Key] \cup {None}
        /\ types \subseteq EventType /\ announced \subseteq Key \cup {None}
        /\ notified \in Key \cup {None} /\ handle \in Job \cup {None}
    BY <2>6
  <2>8. status \in {"idle", "opening", "connected", "closed", "error"}
    BY <2>6
  <2>9. clicks \in 0..MaxClicks
    BY <2>6, ClicksAreBounded
  <2>10. accepted \in BOOLEAN
    BY <2>6
  <2> QED BY <2>1, <2>2, <2>3, <2>4, <2>5, <2>6, <2>7, <2>8, <2>9,
          <2>10 DEF TypeOK, View
<1>2. \A i \in Job : jobs[i] = Idle /\ jobs[i].kind = "idle"
  BY DEF Init, Idle
<1>3. Fresh
  BY <1>2 DEF Fresh
<1>4. FactsAreTrue /\ SentIsSigned
  BY <1>2 DEF Init, FactsAreTrue, AccountIsOfItsKey, AnnouncedIsAccepted, SentIsSigned
<1>5. StatusIsTrue
  BY <1>2 DEF Init, StatusIsTrue, StreamStatusIsTrue, HandleIsLive, CheckingIsUnderWay
<1>6. CopiesAreCurrent
  <2>1. DrawerShowsCache
    BY DEF Init, DrawerShowsCache, ResultId
  <2>2. PanelsAreCurrent
    BY DEF Init, PanelsAreCurrent
  <2>3. ReloadRestores
    <3>1. controls \in Controls /\ saved = controls
      BY RestoredAreControls DEF Init
    <3> QED BY <3>1 DEF ReloadRestores, Controls
  <2> QED BY <2>1, <2>2, <2>3 DEF CopiesAreCurrent
<1> QED BY <1>1, <1>3, <1>4, <1>5, <1>6 DEF IInv

\* Every click and every answer keeps the invariant.
LEMMA StepInv == IInv /\ [Next]_vars => IInv'
<1> SUFFICES ASSUME IInv, [Next]_vars PROVE IInv'
  OBVIOUS
<1>1. ViewOK(view')
  <2>1. CASE UNCHANGED vars
    BY <2>1, ViewIs DEF vars
  <2> QED BY <2>1, ViewOfClicks, ViewOfAnswers DEF Next
<1>2. view' \in View /\ DrawerShowsCache'
  BY <1>1 DEF ViewOK, DrawerOK, DrawerShowsCache
<1>3. jobs' \in [Job -> Task]
  <2>1. UNCHANGED vars => jobs' \in [Job -> Task]
    BY DEF vars, IInv, TypeOK
  <2> QED BY <2>1, JobsOfClicks, JobsOfAnswers DEF Next
<1>4. LinkOK' /\ HealthOK' /\ PanelsAreCurrent'
  BY PanelsStep
<1>5. controls' \in Controls /\ saved' \in Controls /\ ReloadRestores'
  BY ControlsKept
<1>6. key' \in Key \cup {None} /\ form' \in Form
  BY FormsKept
<1>7. /\ FactsAreTrue'
      /\ account' \in [key : Key, user : Key] \cup {None}
      /\ accepted' \in BOOLEAN
      /\ types' \subseteq EventType
      /\ announced' \subseteq Key \cup {None}
      /\ notified' \in Key \cup {None}
  BY FactsKept
<1>8. Fresh' /\ clicks' \in 0..MaxClicks
  BY FreshKept
<1>9. TypeOK'
  BY <1>2, <1>3, <1>4, <1>5, <1>6, <1>7, <1>8 DEF TypeOK, View, LinkOK, HealthOK,
     Pulses
<1>10. CopiesAreCurrent'
  BY <1>2, <1>4, <1>5 DEF CopiesAreCurrent
<1>11. StatusIsTrue'
  BY <1>4 DEF StatusIsTrue, LinkOK, HealthOK
<1> QED BY <1>7, <1>8, <1>9, <1>10, <1>11, SignedKept DEF IInv

\* The invariant holds however the handlers interleave.
THEOREM Invariant == Spec => []IInv
<1>1. Init => IInv
  BY InitInv
<1> QED BY <1>1, StepInv, PTL DEF Spec

\* TypeOK of any console: a sweep visits services only, a handler goes on with
\* what it was given.
THEOREM TypeCorrect == Spec => []TypeOK
<1>1. IInv => TypeOK
  BY DEF IInv
<1> QED BY <1>1, Invariant, PTL

\* The account shown is that of its key, and only accepted confirmations are
\* announced, for any number of clicks.
THEOREM ConsoleTellsTheTruth == Spec => []FactsAreTrue
<1>1. IInv => FactsAreTrue
  BY DEF IInv
<1> QED BY <1>1, Invariant, PTL

\* sendWebhookVariant sends what it has signed, whatever clicks change the form
\* meanwhile.
THEOREM WebhooksAreSigned == Spec => []SentIsSigned
<1>1. IInv => SentIsSigned
  BY DEF IInv
<1> QED BY <1>1, Invariant, PTL

\* Drawer, panels and local storage follow the state through any interleaving of
\* the handlers.
THEOREM ScreenIsCurrent == Spec => []CopiesAreCurrent
<1>1. IInv => CopiesAreCurrent
  BY DEF IInv
<1> QED BY <1>1, Invariant, PTL

\* The stream's status, its handle and the services being checked have a handler
\* under way behind them, however streams and sweeps overlap.
THEOREM StatusHasHandlers == Spec => []StatusIsTrue
<1>1. IInv => StatusIsTrue
  BY DEF IInv
<1> QED BY <1>1, Invariant, PTL
===============================================================================
