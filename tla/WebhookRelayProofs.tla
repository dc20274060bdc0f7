-------------------------- MODULE WebhookRelayProofs --------------------------
(***************************************************************************)
(* Theorems about WebhookRelay, for every set of callbacks, references,    *)
(* instances and kinds of losses, and their proofs.                        *)
(*                                                                         *)
(* None of the properties is inductive by itself.  That a relay works      *)
(* alone on a receipt follows from the receipt being IN_FLIGHT and locked  *)
(* by it for as long as it has the callback in hand (HandInv).  That a     *)
(* PUBLISHED receipt is with the broker follows from the confirm a relay   *)
(* has seen when it marks (DoneInv).  That copies come from negative       *)
(* confirms alone needs a bound that is tighter by one while the receipt   *)
(* may still be sent (CountInv).                                           *)
(***************************************************************************)
EXTENDS WebhookRelay, TLAPS

Row(cb) == receipts[RefOf[cb]]

\* The columns of a row agree with each other.
RowInv ==
  \A ref \in Reference :
    /\ Known(ref) <=> receipts[ref].callback # NoCallback
    /\ Known(ref) => RefOf[receipts[ref].callback] = ref
    /\ receipts[ref].status = "IN_FLIGHT" <=> receipts[ref].lockedBy # Nobody

\* What a relay has in hand is IN_FLIGHT and locked by it.
HandInv ==
  \A i \in Instance :
    /\ \A cb \in Relaying(i) : /\ Row(cb).callback = cb
                               /\ Row(cb).status = "IN_FLIGHT"
                               /\ Row(cb).lockedBy = i
    /\ current[i] \notin batch[i]
    /\ current[i] = NoCallback <=> pc[i] \in {"idle", "relaying"}
    /\ pc[i] = "idle" => batch[i] = {}

\* The broker has only what receipts hold; it has what was confirmed.
DoneInv ==
  /\ \A cb \in Callback : sent[cb] > 0 => Row(cb).callback = cb
  /\ PublishedIsSent
  /\ \A i \in Instance : pc[i] = "mark" => sent[current[i]] > 0

\* The receipt of cb may be sent before anything else happens to it.
Sendable(cb) ==
  \/ Row(cb).status = "PENDING"
  \/ \E i \in Instance :
       \/ cb \in batch[i]
       \/ current[i] = cb /\ pc[i] \in {"sending", "confirming", "retry"}

CountInv == \A cb \in Callback : /\ sent[cb] <= 1 + faults
                                 /\ Sendable(cb) => sent[cb] <= faults

IInv == TypeOK /\ RowInv /\ HandInv /\ DoneInv /\ CountInv /\ AnswersAreKept

\* Every proof below may use what is assumed of the constants.
USE CallbacksAreKeyed, SentinelsAreNew, LimitsArePositive, LossesAreKnown

\* Initially nothing is recorded, sent or in hand.
LEMMA InitInv == Init => IInv
BY DEF Init, IInv, TypeOK, RowInv, HandInv, DoneInv, CountInv, AnswersAreKept,
   Receipt, NoReceipt, PublishStatus, Known, Row, Relaying, Sendable,
   PublishedIsSent

-------------------------------------------------------------------------------
(* What the steps have in common. *)

\* The bound on copies is what makes sent well typed.
LEMMA SentIsBounded ==
  ASSUME NEW s \in [Callback -> Nat], NEW f \in 0..MaxFaults,
         \A cb \in Callback : s[cb] <= 1 + f
  PROVE  s \in [Callback -> 0..(MaxFaults + MaxLosses + 1)]
<1>1. \A cb \in Callback : s[cb] \in 0..(MaxFaults + MaxLosses + 1)
  OBVIOUS
<1> QED BY <1>1

\* A relay that is neither idle nor between two receipts has a callback.
LEMMA HasCurrent ==
  ASSUME IInv, NEW i \in Instance, pc[i] \notin {"idle", "relaying"}
  PROVE  /\ current[i] \in Callback
         /\ Row(current[i]).callback = current[i]
         /\ Row(current[i]).status = "IN_FLIGHT"
         /\ Row(current[i]).lockedBy = i
BY DEF IInv, TypeOK, HandInv, Relaying

\* A step that gives no answer, keeps the callbacks and takes no copy back
\* leaves the answers true.
LEMMA AnswersStay ==
  ASSUME IInv, DoneInv', answers' = answers,
         receipts' \in [Reference -> Receipt],
         \A ref \in Reference : Known(ref) =>
            receipts'[ref].callback = receipts[ref].callback,
         \A cb \in Callback : sent[cb] > 0 => sent'[cb] > 0
  PROVE  AnswersAreKept'
<1> SUFFICES ASSUME NEW a \in answers,
                    NEW ref \in Reference, ref = RefOf[a.callback]
             PROVE  /\ a.kind = "accepted" => receipts'[ref].callback = a.callback
                    /\ a.kind = "replayed" =>
                         \E cb \in Callback : RefOf[cb] = ref /\ sent'[cb] > 0
                    /\ \A cb \in Callback : RefOf[cb] = ref /\ sent'[cb] > 0 =>
                                              cb = receipts'[ref].callback
  BY DEF AnswersAreKept, IInv, TypeOK
<1>1. a.callback \in Callback
  BY DEF IInv, TypeOK
<1>2. a.kind = "accepted" => receipts'[ref].callback = a.callback
  BY <1>1 DEF IInv, AnswersAreKept, RowInv
<1>3. a.kind = "replayed" =>
         \E cb \in Callback : RefOf[cb] = ref /\ sent'[cb] > 0
  BY DEF IInv, AnswersAreKept
<1>4. \A cb \in Callback : RefOf[cb] = ref /\ sent'[cb] > 0 =>
                             cb = receipts'[ref].callback
  BY DEF DoneInv, Row
<1> QED BY <1>2, <1>3, <1>4

\* One more copy, or none, of the callback in hand.
LEMMA MaybeSent ==
  ASSUME IInv, NEW i \in Instance, pc[i] = "confirming",
         sent' \in {sent, Accepted(current[i])}
  PROVE  /\ sent' \in [Callback -> Nat]
         /\ \A cb \in Callback : sent[cb] <= sent'[cb]
         /\ \A cb \in Callback : cb # current[i] => sent'[cb] = sent[cb]
         /\ sent'[current[i]] <= sent[current[i]] + 1
         /\ sent[current[i]] <= faults
<1>1. current[i] \in Callback
  BY HasCurrent
<1>2. sent \in [Callback -> Nat]
  BY DEF IInv, TypeOK
<1>3. sent[current[i]] <= faults
  BY <1>1 DEF IInv, CountInv, Sendable
<1>4. CASE sent' = sent
  BY <1>1, <1>2, <1>3, <1>4
<1>5. CASE sent' = Accepted(current[i])
  BY <1>1, <1>2, <1>3, <1>5 DEF Accepted
<1> QED BY <1>4, <1>5

\* Releasing the locks of i to Gone changes nothing else.
LEMMA OrphanedRows ==
  ASSUME IInv, NEW i \in Instance
  PROVE  /\ Orphaned(i) \in [Reference -> Receipt]
         /\ \A ref \in Reference :
              /\ Orphaned(i)[ref].status = receipts[ref].status
              /\ Orphaned(i)[ref].callback = receipts[ref].callback
              /\ Orphaned(i)[ref].lockedBy = IF receipts[ref].lockedBy = i
                                             THEN Gone ELSE receipts[ref].lockedBy
<1>1. \A ref \in Reference :
        /\ Orphaned(i)[ref] \in Receipt
        /\ Orphaned(i)[ref].status = receipts[ref].status
        /\ Orphaned(i)[ref].callback = receipts[ref].callback
        /\ Orphaned(i)[ref].lockedBy = IF receipts[ref].lockedBy = i
                                       THEN Gone ELSE receipts[ref].lockedBy
  BY DEF IInv, TypeOK, Receipt, Orphaned
<1> QED BY <1>1 DEF Orphaned

\* What may have arrived when an instance or its connection fails.
LEMMA ArrivedCopies ==
  ASSUME IInv, NEW i \in Instance, MayHaveArrived(i)
  PROVE  /\ sent' \in [Callback -> Nat]
         /\ \A cb \in Callback : sent[cb] <= sent'[cb]
         /\ \A cb \in Callback : sent'[cb] # sent[cb] =>
              /\ pc[i] = "confirming" /\ cb = current[i]
              /\ sent'[cb] <= 1 + faults
              /\ Row(cb).callback = cb
              /\ Row(cb).status = "IN_FLIGHT"
<1>1. CASE sent' = sent
  BY <1>1 DEF IInv, TypeOK
<1>2. CASE pc[i] = "confirming" /\ sent' = Accepted(current[i])
  <2>1. /\ Row(current[i]).callback = current[i]
        /\ Row(current[i]).status = "IN_FLIGHT"
        /\ current[i] \in Callback
    BY <1>2, HasCurrent
  <2>2. /\ sent' \in [Callback -> Nat]
        /\ \A cb \in Callback : sent[cb] <= sent'[cb]
        /\ \A cb \in Callback : cb # current[i] => sent'[cb] = sent[cb]
        /\ sent'[current[i]] <= sent[current[i]] + 1
        /\ sent[current[i]] <= faults
    BY <1>2, MaybeSent
  <2> QED BY <1>2, <2>1, <2>2 DEF IInv, TypeOK
<1> QED BY <1>1, <1>2 DEF MayHaveArrived

-------------------------------------------------------------------------------
(* Each action preserves the invariant. *)

\* A recorded callback is new to its reference, so that nothing of the
\* reference has been sent.
LEMMA RegisterStep == ASSUME IInv, NEW a \in Callback, Register(a) PROVE IInv'
<1> USE DEF Register, relay
<1> DEFINE new == [NoReceipt EXCEPT !.status = "PENDING", !.callback = a]
<1>1. /\ receipts' = [receipts EXCEPT ![RefOf[a]] = new]
      /\ new \in Receipt
      /\ receipts[RefOf[a]].callback = NoCallback
      /\ ~Known(RefOf[a])
  BY DEF IInv, TypeOK, RowInv, NoReceipt, Receipt, PublishStatus
<1>2. RowInv'
  BY <1>1 DEF IInv, TypeOK, Receipt, RowInv, Known, NoReceipt
<1>3. HandInv'
  BY <1>1 DEF IInv, TypeOK, RowInv, Known, HandInv, Row, Relaying
<1>4. DoneInv'
  BY <1>1 DEF IInv, TypeOK, Receipt, RowInv, Known, Row, DoneInv,
     PublishedIsSent,
              NoReceipt
<1>5. CountInv'
  BY <1>1 DEF IInv, TypeOK, RowInv, Row, DoneInv, CountInv, Sendable
<1>6. TypeOK'
  <2>1. receipts' \in [Reference -> Receipt]
    BY <1>1 DEF IInv, TypeOK
  <2>2. answers' \subseteq [callback : Callback,
                            kind : {"accepted", "processing", "replayed"}]
    BY DEF IInv, TypeOK, Answered
  <2> QED BY <2>1, <2>2 DEF IInv, TypeOK
<1>7. AnswersAreKept'
  <2> SUFFICES ASSUME NEW b \in answers',
                      NEW ref \in Reference, ref = RefOf[b.callback]
        PROVE /\ b.kind = "accepted" => receipts'[ref].callback = b.callback
              /\ b.kind = "replayed" =>
                   \E cb \in Callback : RefOf[cb] = ref /\ sent'[cb] > 0
              /\ \A cb \in Callback : RefOf[cb] = ref /\ sent'[cb] > 0 =>
                                        cb = receipts'[ref].callback
    BY <1>6 DEF AnswersAreKept, TypeOK
  <2>2. \A cb \in Callback : RefOf[cb] = ref /\ sent'[cb] > 0 =>
                               cb = receipts'[ref].callback
    BY <1>4 DEF DoneInv, Row
  <2>3. CASE b \in answers
    <3>1. b.callback \in Callback
      BY <2>3 DEF IInv, TypeOK
    <3>2. b.kind = "accepted" => ref # RefOf[a]
      BY <1>1, <2>3, <3>1 DEF IInv, AnswersAreKept
    <3>3. b.kind = "accepted" => receipts'[ref].callback = b.callback
      BY <1>1, <2>3, <3>2 DEF IInv, TypeOK, AnswersAreKept
    <3>4. b.kind = "replayed" =>
             \E cb \in Callback : RefOf[cb] = ref /\ sent'[cb] > 0
      BY <2>3 DEF IInv, AnswersAreKept
    <3> QED BY <2>2, <3>3, <3>4
  <2>4. CASE b = [callback |-> a, kind |-> "accepted"]
    <3>1. ref = RefOf[a] /\ b.callback = a /\ b.kind = "accepted"
      BY <2>4
    <3>2. receipts'[ref].callback = a
      BY <1>1, <3>1 DEF IInv, TypeOK, NoReceipt
    <3> QED BY <2>2, <3>1, <3>2
  <2> QED BY <2>3, <2>4 DEF Answered
<1> QED BY <1>2, <1>3, <1>4, <1>5, <1>6, <1>7 DEF IInv

\* A duplicate only adds an answer, about the receipt there is.
LEMMA DuplicateStep == ASSUME IInv, NEW a \in Callback, IgnoreDuplicate(a) PROVE IInv'
<1> USE DEF IInv, IgnoreDuplicate, Answered, relay
<1>1. RowInv'
  BY DEF TypeOK, Receipt, RowInv, Known, HandInv, Row, Relaying
<1>2. HandInv'
  BY DEF TypeOK, Receipt, RowInv, Known, HandInv, Row, Relaying
<1>3. DoneInv'
  BY DEF TypeOK, Receipt, RowInv, Known, HandInv, Row, Relaying, DoneInv,
     PublishedIsSent
<1>4. CountInv'
  BY DEF TypeOK, Receipt, RowInv, Known, HandInv, Row, Relaying, DoneInv,
     PublishedIsSent, CountInv, Sendable
<1>5. TypeOK'
  BY DEF TypeOK, Receipt, PublishStatus
<1>6. AnswersAreKept'
  BY <1>3 DEF TypeOK, Receipt, RowInv, Known, HandInv, Row, Relaying, DoneInv,
     PublishedIsSent, AnswersAreKept
<1> QED BY <1>1, <1>2, <1>3, <1>4, <1>5, <1>6

\* Claimed receipts were PENDING and in nobody's hands.
LEMMA ClaimStep == ASSUME IInv, NEW i \in Instance, ClaimPending(i) PROVE IInv'
<1>1. PICK refs \in SUBSET Reference :
        /\ \A ref \in refs : receipts[ref].status = "PENDING"
        /\ \/ /\ receipts' = Claimed(refs, i)
              /\ pc' = [pc EXCEPT ![i] = "relaying"]
              /\ batch' = [batch EXCEPT ![i] =
                             {receipts[ref].callback : ref \in refs}]
              /\ UNCHANGED losses
           \/ /\ Loss("database")
              /\ receipts' = Claimed(refs, Gone)
              /\ UNCHANGED <<pc, batch>>
  BY DEF ClaimPending
<1>2. /\ pc[i] = "idle"
      /\ UNCHANGED <<sent, answers, ready, current, attempt, faults>>
  BY DEF ClaimPending
<1>3. PICK o \in {i, Gone} : receipts' = Claimed(refs, o)
  BY <1>1
<1>4. /\ receipts' \in [Reference -> Receipt]
      /\ \A ref \in Reference : receipts'[ref].callback = receipts[ref].callback
      /\ \A ref \in Reference \ refs : receipts'[ref] = receipts[ref]
      /\ \A ref \in refs : /\ receipts'[ref].status = "IN_FLIGHT"
                           /\ receipts'[ref].lockedBy = o
  <2>1. \A ref \in refs : receipts'[ref] =
          [receipts[ref] EXCEPT !.status = "IN_FLIGHT", !.lockedBy = o]
    BY <1>3 DEF Claimed
  <2>2. \A ref \in Reference \ refs : receipts'[ref] = receipts[ref]
    BY <1>3 DEF Claimed
  <2>3. \A ref \in Reference : receipts[ref] \in Receipt
    BY DEF IInv, TypeOK
  <2>4. \A ref \in refs :
          /\ receipts'[ref] \in Receipt
          /\ receipts'[ref].callback = receipts[ref].callback
          /\ receipts'[ref].status = "IN_FLIGHT"
          /\ receipts'[ref].lockedBy = o
    <3> SUFFICES ASSUME NEW ref \in refs
                 PROVE  /\ receipts'[ref] \in Receipt
                        /\ receipts'[ref].callback = receipts[ref].callback
                        /\ receipts'[ref].status = "IN_FLIGHT"
                        /\ receipts'[ref].lockedBy = o
      OBVIOUS
    <3>1. receipts[ref] \in Receipt
      BY <2>3
    <3>2. receipts'[ref] =
            [receipts[ref] EXCEPT !.status = "IN_FLIGHT", !.lockedBy = o]
      BY <2>1
    <3>3. o \in Instance \cup {Nobody, Gone}
      BY <1>3
    <3> QED BY <3>1, <3>2, <3>3 DEF Receipt, PublishStatus
  <2>5. receipts' \in [Reference -> Receipt]
    BY <1>3, <2>2, <2>3, <2>4 DEF Claimed
  <2> QED BY <2>2, <2>4, <2>5
<1>5. \A ref \in refs : /\ receipts[ref].callback \in Callback
                        /\ RefOf[receipts[ref].callback] = ref
  BY <1>1 DEF IInv, TypeOK, Receipt, RowInv, Known
<1>6. batch[i] = {} /\ current[i] = NoCallback
  BY <1>2 DEF IInv, HandInv
<1>7. RowInv'
  <2> SUFFICES ASSUME NEW ref \in Reference
               PROVE /\ Known(ref)' <=> receipts'[ref].callback # NoCallback
                     /\ Known(ref)' => RefOf[receipts'[ref].callback] = ref
                     /\ receipts'[ref].status = "IN_FLIGHT" <=>
                          receipts'[ref].lockedBy # Nobody
    BY DEF RowInv
  <2>1. CASE ref \in refs
    BY <1>1, <1>3, <1>4, <1>5, <2>1 DEF Known
  <2>2. CASE ref \notin refs
    BY <1>4, <2>2 DEF IInv, RowInv, Known
  <2> QED BY <2>1, <2>2
<1>8. DoneInv'
  <2>1. PublishedIsSent'
    BY <1>2, <1>4 DEF IInv, DoneInv, PublishedIsSent
  <2>2. \A j \in Instance : pc'[j] = "mark" => pc[j] = "mark"
    BY <1>1, <1>2 DEF IInv, TypeOK
  <2> QED BY <1>2, <1>4, <2>1, <2>2 DEF IInv, DoneInv, Row
<1>9. /\ batch' \in [Instance -> SUBSET Callback]
      /\ pc' \in [Instance -> {"idle", "relaying", "sending", "confirming",
                               "mark", "retry", "hung"}]
      /\ losses' \in 0..MaxLosses
  BY <1>1, <1>5 DEF IInv, TypeOK, Loss
<1>10. \A j \in Instance \ {i} : batch'[j] = batch[j] /\ pc'[j] = pc[j]
  BY <1>1 DEF IInv, TypeOK
<1>11. \/ batch'[i] = {} /\ pc'[i] = "idle"
       \/ /\ batch'[i] = {receipts[ref].callback : ref \in refs}
          /\ pc'[i] = "relaying" /\ receipts' = Claimed(refs, i)
  BY <1>1, <1>2, <1>6 DEF IInv, TypeOK
<1>12. HandInv'
  <2> SUFFICES ASSUME NEW j \in Instance
               PROVE  /\ \A cb \in Relaying(j)' : /\ Row(cb)'.callback = cb
                                                  /\ Row(cb)'.status = "IN_FLIGHT"
                                                  /\ Row(cb)'.lockedBy = j
                      /\ current'[j] \notin batch'[j]
                      /\ current'[j] = NoCallback <=> pc'[j] \in {"idle", "relaying"}
                      /\ pc'[j] = "idle" => batch'[j] = {}
    BY DEF HandInv
  <2>1. CASE j # i
    <3>1. Relaying(j)' = Relaying(j) /\ pc'[j] = pc[j] /\ batch'[j] = batch[j]
      BY <1>2, <1>10, <2>1 DEF Relaying
    <3>2. \A cb \in Relaying(j) : /\ RefOf[cb] \in Reference
                                  /\ Row(cb).status = "IN_FLIGHT"
      BY DEF IInv, TypeOK, HandInv, Relaying
    <3>3. \A cb \in Relaying(j) : Row(cb)' = Row(cb)
      BY <1>1, <1>4, <3>2 DEF Row
    <3> QED BY <1>2, <3>1, <3>3 DEF IInv, HandInv
  <2>2. CASE j = i /\ batch'[i] = {} /\ pc'[i] = "idle"
    BY <1>2, <1>6, <2>2 DEF Relaying
  <2>3. CASE /\ j = i /\ receipts' = Claimed(refs, i)
             /\ batch'[i] = {receipts[ref].callback : ref \in refs}
             /\ pc'[i] = "relaying"
    <3>1. Relaying(i)' = {receipts[ref].callback : ref \in refs}
      BY <1>2, <1>6, <2>3 DEF Relaying
    <3>2. \A ref \in refs : receipts'[ref].lockedBy = i
      <4>1. \A ref \in refs : receipts[ref] \in Receipt
        BY DEF IInv, TypeOK
      <4>2. \A ref \in refs : receipts'[ref] =
              [receipts[ref] EXCEPT !.status = "IN_FLIGHT", !.lockedBy = i]
        BY <2>3 DEF Claimed
      <4> QED BY <4>1, <4>2 DEF Receipt
    <3>3. \A ref \in refs : receipts'[RefOf[receipts[ref].callback]] = receipts'[ref]
      BY <1>5
    <3>4. \A cb \in Relaying(i)' : /\ Row(cb)'.callback = cb
                                   /\ Row(cb)'.status = "IN_FLIGHT"
                                   /\ Row(cb)'.lockedBy = i
      BY <1>4, <1>5, <3>1, <3>2, <3>3 DEF Row
    <3>5. NoCallback \notin batch'[i]
      BY <1>9
    <3> QED BY <1>2, <1>6, <2>3, <3>4, <3>5
  <2> QED BY <1>11, <2>1, <2>2, <2>3
<1>13. CountInv'
  <2> SUFFICES ASSUME NEW cb \in Callback, Sendable(cb)'
               PROVE  sent[cb] <= faults
    BY <1>2 DEF IInv, CountInv
  <2>1. CASE \E j \in Instance : \/ cb \in batch[j]
                                 \/ /\ current[j] = cb
                                    /\ pc[j] \in {"sending", "confirming", "retry"}
    BY <2>1 DEF IInv, CountInv, Sendable
  <2>2. CASE Row(cb)'.status = "PENDING"
    <3>1. Row(cb).status = "PENDING"
      BY <1>4, <2>2 DEF Row
    <3> QED BY <3>1 DEF IInv, CountInv, Sendable
  <2>3. CASE cb \in {receipts[ref].callback : ref \in refs}
    <3>1. Row(cb).status = "PENDING"
      BY <1>1, <1>5, <2>3 DEF Row
    <3> QED BY <3>1 DEF IInv, CountInv, Sendable
  <2> QED BY <1>2, <1>10, <1>11, <2>1, <2>2, <2>3 DEF Sendable
<1>14. TypeOK'
  BY <1>2, <1>4, <1>9 DEF IInv, TypeOK
<1>15. AnswersAreKept'
  BY <1>2, <1>4, <1>8, AnswersStay
<1> QED BY <1>7, <1>8, <1>12, <1>13, <1>14, <1>15 DEF IInv

\* The callback moves from the batch to the current one.
LEMMA NextStep == ASSUME IInv, NEW i \in Instance, NextReceipt(i) PROVE IInv'
<1> USE DEF IInv, NextReceipt, relay
<1>1. RowInv'
  BY DEF TypeOK, Receipt, RowInv, Known, HandInv, Row, Relaying
<1>2. HandInv'
  BY DEF TypeOK, Receipt, RowInv, Known, HandInv, Row, Relaying
<1>3. DoneInv'
  BY DEF TypeOK, Receipt, RowInv, Known, HandInv, Row, Relaying, DoneInv,
     PublishedIsSent
<1>4. CountInv'
  BY DEF TypeOK, Receipt, RowInv, Known, HandInv, Row, Relaying, DoneInv,
     PublishedIsSent, CountInv, Sendable
<1>5. TypeOK'
  BY DEF TypeOK, Receipt, PublishStatus
<1>6. AnswersAreKept'
  BY <1>3 DEF TypeOK, Receipt, RowInv, Known, HandInv, Row, Relaying, DoneInv,
     PublishedIsSent, AnswersAreKept
<1> QED BY <1>1, <1>2, <1>3, <1>4, <1>5, <1>6

\* Sending changes only the place of the relay.
LEMMA SendStep == ASSUME IInv, NEW i \in Instance, Send(i) PROVE IInv'
<1> USE DEF IInv, Send, relay
<1>1. RowInv'
  BY DEF TypeOK, Receipt, RowInv, Known, HandInv, Row, Relaying
<1>2. HandInv'
  BY DEF TypeOK, Receipt, RowInv, Known, HandInv, Row, Relaying
<1>3. DoneInv'
  BY DEF TypeOK, Receipt, RowInv, Known, HandInv, Row, Relaying, DoneInv,
     PublishedIsSent
<1>4. CountInv'
  BY DEF TypeOK, Receipt, RowInv, Known, HandInv, Row, Relaying, DoneInv,
     PublishedIsSent, CountInv, Sendable
<1>5. TypeOK'
  BY DEF TypeOK, Receipt, PublishStatus
<1>6. AnswersAreKept'
  BY <1>3 DEF TypeOK, Receipt, RowInv, Known, HandInv, Row, Relaying, DoneInv,
     PublishedIsSent, AnswersAreKept
<1> QED BY <1>1, <1>2, <1>3, <1>4, <1>5, <1>6

\* The copy a confirm stands for: the receipt cannot be sent again before its
\* work is settled.
LEMMA ConfirmStep == ASSUME IInv, NEW i \in Instance, Confirm(i) PROVE IInv'
<1> USE DEF Confirm
<1>1. /\ current[i] \in Callback
      /\ Row(current[i]).callback = current[i]
      /\ Row(current[i]).status = "IN_FLIGHT"
      /\ Row(current[i]).lockedBy = i
  BY HasCurrent
<1>2. /\ sent' \in [Callback -> Nat]
      /\ \A cb \in Callback : sent[cb] <= sent'[cb]
      /\ \A cb \in Callback : cb # current[i] => sent'[cb] = sent[cb]
      /\ sent'[current[i]] <= sent[current[i]] + 1
      /\ sent[current[i]] <= faults
  BY MaybeSent
<1>3. sent'[current[i]] > 0
  BY <1>1 DEF IInv, TypeOK, Accepted
<1>4. RowInv'
  BY DEF IInv, RowInv, Known
<1>5. HandInv'
  BY DEF IInv, TypeOK, HandInv, Row, Relaying
<1>6. DoneInv'
  <2>1. \A cb \in Callback : sent'[cb] > 0 => Row(cb)'.callback = cb
    BY <1>1, <1>2 DEF IInv, DoneInv, Row
  <2>2. PublishedIsSent'
    BY <1>2 DEF IInv, TypeOK, Receipt, RowInv, Known, DoneInv, PublishedIsSent
  <2>3. \A j \in Instance : pc'[j] = "mark" => sent'[current'[j]] > 0
    BY <1>2, <1>3 DEF IInv, TypeOK, DoneInv, HandInv
  <2> QED BY <2>1, <2>2, <2>3 DEF DoneInv
<1>7. ~Sendable(current[i])'
  BY <1>1 DEF IInv, TypeOK, HandInv, Relaying, Sendable, Row
<1>8. CountInv'
  BY <1>2, <1>7 DEF IInv, TypeOK, CountInv, Sendable, Row
<1>9. TypeOK'
  <2>1. sent' \in [Callback -> 0..(MaxFaults + MaxLosses + 1)]
    BY <1>2, <1>8, SentIsBounded DEF IInv, TypeOK, CountInv
  <2> QED BY <2>1 DEF IInv, TypeOK
<1>10. AnswersAreKept'
  BY <1>2, <1>6, AnswersStay DEF IInv, TypeOK
<1> QED BY <1>4, <1>5, <1>6, <1>8, <1>9, <1>10 DEF IInv

\* A negative confirm pays for the copy that may have been delivered.
LEMMA NackStep == ASSUME IInv, NEW i \in Instance, Nack(i) PROVE IInv'
<1> USE DEF Nack
<1>1. /\ current[i] \in Callback
      /\ Row(current[i]).callback = current[i]
      /\ Row(current[i]).status = "IN_FLIGHT"
      /\ Row(current[i]).lockedBy = i
  BY HasCurrent
<1>2. /\ sent' \in [Callback -> Nat]
      /\ \A cb \in Callback : sent[cb] <= sent'[cb]
      /\ \A cb \in Callback : cb # current[i] => sent'[cb] = sent[cb]
      /\ sent'[current[i]] <= sent[current[i]] + 1
      /\ sent[current[i]] <= faults
  BY MaybeSent
<1>3. RowInv'
  BY DEF IInv, RowInv, Known
<1>4. HandInv'
  BY DEF IInv, TypeOK, HandInv, Row, Relaying
<1>5. DoneInv'
  <2>1. \A cb \in Callback : sent'[cb] > 0 => Row(cb)'.callback = cb
    BY <1>1, <1>2 DEF IInv, DoneInv, Row
  <2>2. PublishedIsSent'
    BY <1>2 DEF IInv, TypeOK, Receipt, RowInv, Known, DoneInv, PublishedIsSent
  <2>3. \A j \in Instance : pc'[j] = "mark" => sent'[current'[j]] > 0
    BY <1>2 DEF IInv, TypeOK, DoneInv, HandInv
  <2> QED BY <2>1, <2>2, <2>3 DEF DoneInv
<1>6. \A cb \in Callback : Sendable(cb)' => Sendable(cb)
  BY DEF IInv, TypeOK, Sendable, Row
<1>7. CountInv'
  BY <1>2, <1>6 DEF IInv, TypeOK, CountInv
<1>8. TypeOK'
  <2>1. sent' \in [Callback -> 0..(MaxFaults + MaxLosses + 1)]
    BY <1>2, <1>7, SentIsBounded DEF IInv, TypeOK, CountInv
  <2>2. attempt' \in [Instance -> 0..PublishAttempts]
    BY DEF IInv, TypeOK
  <2> QED BY <2>1, <2>2 DEF IInv, TypeOK
<1>9. AnswersAreKept'
  BY <1>2, <1>5, AnswersStay DEF IInv, TypeOK
<1> QED BY <1>3, <1>4, <1>5, <1>7, <1>8, <1>9 DEF IInv

\* What is marked was confirmed.
LEMMA MarkStep == ASSUME IInv, NEW i \in Instance, MarkPublished(i) PROVE IInv'
<1> USE DEF MarkPublished, Settle
<1> DEFINE cur == current[i]
           ref == RefOf[cur]
           row == [receipts[ref] EXCEPT !.status = "PUBLISHED",
                                        !.lockedBy = Nobody]
<1>1. /\ cur \in Callback
      /\ ref \in Reference
      /\ receipts[ref].callback = cur
      /\ receipts[ref].status = "IN_FLIGHT"
      /\ receipts[ref].lockedBy = i
  BY HasCurrent DEF Row
<1>2. /\ row \in Receipt
      /\ row.callback = receipts[ref].callback
      /\ row.status = "PUBLISHED" /\ row.lockedBy = Nobody
  <2>1. receipts[ref] \in Receipt
    BY <1>1 DEF IInv, TypeOK
  <2> QED BY <2>1 DEF Receipt, PublishStatus
<1>3. receipts' \in {receipts, [receipts EXCEPT ![ref] = row]}
  BY <1>1
<1>4. /\ receipts' \in [Reference -> Receipt]
      /\ \A r \in Reference : receipts'[r].callback = receipts[r].callback
      /\ \A r \in Reference \ {ref} : receipts'[r] = receipts[r]
      /\ receipts'[ref] \in {receipts[ref], row}
      /\ row.status = "PUBLISHED" /\ row.lockedBy = Nobody
  <2> HIDE DEF row
  <2> QED BY <1>1, <1>2, <1>3 DEF IInv, TypeOK
<1>5. /\ pc' = [pc EXCEPT ![i] = "relaying"]
      /\ current' = [current EXCEPT ![i] = NoCallback]
      /\ attempt' = [attempt EXCEPT ![i] = 0]
      /\ UNCHANGED <<sent, answers, ready, batch, faults>>
      /\ losses' \in 0..MaxLosses
  BY DEF IInv, TypeOK, Loss
<1>6. RowInv'
  <2> SUFFICES ASSUME NEW r \in Reference
               PROVE /\ Known(r)' <=> receipts'[r].callback # NoCallback
                     /\ Known(r)' => RefOf[receipts'[r].callback] = r
                     /\ receipts'[r].status = "IN_FLIGHT" <=>
                          receipts'[r].lockedBy # Nobody
    BY DEF RowInv
  <2>1. CASE receipts'[r] = receipts[r]
    BY <2>1 DEF IInv, RowInv, Known
  <2>2. CASE r = ref /\ receipts'[r] = row
    BY <1>1, <1>4, <2>2 DEF Known
  <2> QED BY <1>4, <2>1, <2>2
\* Whoever has another callback in hand has it from another reference.
<1>7. \A j \in Instance : \A cb \in Relaying(j)' :
        cb \in Relaying(j) /\ RefOf[cb] \in Reference \ {ref}
  <2> SUFFICES ASSUME NEW j \in Instance, NEW cb \in Relaying(j)'
               PROVE  cb \in Relaying(j) /\ RefOf[cb] \in Reference \ {ref}
    OBVIOUS
  <2>1. cb \in Relaying(j) /\ cb \in Callback
    BY <1>5 DEF IInv, TypeOK, Relaying
  <2>2. j = i => cb # cur
    BY <1>5 DEF IInv, TypeOK, HandInv, Relaying
  <2>3. Row(cb).callback = cb /\ Row(cb).lockedBy = j
    BY <2>1 DEF IInv, HandInv
  <2> QED BY <1>1, <2>1, <2>2, <2>3 DEF Row
<1>8. HandInv'
  <2>1. \A j \in Instance : \A cb \in Relaying(j)' : Row(cb)' = Row(cb)
    BY <1>4, <1>7 DEF Row
  <2>2. \A j \in Instance :
          /\ current'[j] \notin batch'[j]
          /\ current'[j] = NoCallback <=> pc'[j] \in {"idle", "relaying"}
          /\ pc'[j] = "idle" => batch'[j] = {}
    BY <1>5 DEF IInv, TypeOK, HandInv
  <2> QED BY <1>7, <2>1, <2>2 DEF IInv, HandInv
<1>9. DoneInv'
  <2>1. PublishedIsSent'
    <3>1. sent[cur] > 0
      BY DEF IInv, DoneInv
    <3> QED BY <1>1, <1>4, <1>5, <3>1 DEF IInv, DoneInv, PublishedIsSent
  <2>2. \A j \in Instance : pc'[j] = "mark" => pc[j] = "mark" /\ current'[j] = current[j]
    BY <1>5 DEF IInv, TypeOK
  <2> QED BY <1>4, <1>5, <2>1, <2>2 DEF IInv, DoneInv, Row
<1>10. \A cb \in Callback : Sendable(cb)' => Sendable(cb)
  <2> SUFFICES ASSUME NEW cb \in Callback, Sendable(cb)'
               PROVE  Sendable(cb)
    OBVIOUS
  <2>1. CASE \E j \in Instance :
               \/ cb \in batch'[j]
               \/ /\ current'[j] = cb
                  /\ pc'[j] \in {"sending", "confirming", "retry"}
    BY <1>5, <2>1 DEF IInv, TypeOK, Sendable
  <2>2. CASE Row(cb)'.status = "PENDING"
    BY <1>1, <1>4, <2>2 DEF Row, Sendable
  <2> QED BY <2>1, <2>2 DEF Sendable
<1>11. CountInv'
  BY <1>5, <1>10 DEF IInv, CountInv
<1>12. TypeOK'
  BY <1>4, <1>5 DEF IInv, TypeOK
<1>13. AnswersAreKept'
  BY <1>4, <1>5, <1>9, AnswersStay DEF IInv, TypeOK
<1> QED BY <1>6, <1>8, <1>9, <1>11, <1>12, <1>13 DEF IInv

\* What is PENDING again has one copy less than there were negative confirms.
LEMMA RetryStep == ASSUME IInv, NEW i \in Instance, RetryPending(i) PROVE IInv'
<1> USE DEF RetryPending, Settle
<1> DEFINE cur == current[i]
           ref == RefOf[cur]
           row == [receipts[ref] EXCEPT !.status = "PENDING", !.due = FALSE,
                                        !.lockedBy = Nobody]
<1>1. /\ cur \in Callback
      /\ ref \in Reference
      /\ receipts[ref].callback = cur
      /\ receipts[ref].status = "IN_FLIGHT"
      /\ receipts[ref].lockedBy = i
  BY HasCurrent DEF Row
<1>2. /\ row \in Receipt
      /\ row.callback = receipts[ref].callback
      /\ row.status = "PENDING" /\ row.lockedBy = Nobody
  <2>1. receipts[ref] \in Receipt
    BY <1>1 DEF IInv, TypeOK
  <2> QED BY <2>1 DEF Receipt, PublishStatus
<1>3. receipts' \in {receipts, [receipts EXCEPT ![ref] = row]}
  BY <1>1
<1>4. /\ receipts' \in [Reference -> Receipt]
      /\ \A r \in Reference : receipts'[r].callback = receipts[r].callback
      /\ \A r \in Reference \ {ref} : receipts'[r] = receipts[r]
      /\ receipts'[ref] \in {receipts[ref], row}
      /\ row.status = "PENDING" /\ row.lockedBy = Nobody
  <2> HIDE DEF row
  <2> QED BY <1>1, <1>2, <1>3 DEF IInv, TypeOK
<1>5. /\ pc' = [pc EXCEPT ![i] = "relaying"]
      /\ current' = [current EXCEPT ![i] = NoCallback]
      /\ attempt' = [attempt EXCEPT ![i] = 0]
      /\ UNCHANGED <<sent, answers, ready, batch, faults>>
      /\ losses' \in 0..MaxLosses
  BY DEF IInv, TypeOK, Loss
<1>6. RowInv'
  <2> SUFFICES ASSUME NEW r \in Reference
               PROVE /\ Known(r)' <=> receipts'[r].callback # NoCallback
                     /\ Known(r)' => RefOf[receipts'[r].callback] = r
                     /\ receipts'[r].status = "IN_FLIGHT" <=>
                          receipts'[r].lockedBy # Nobody
    BY DEF RowInv
  <2>1. CASE receipts'[r] = receipts[r]
    BY <2>1 DEF IInv, RowInv, Known
  <2>2. CASE r = ref /\ receipts'[r] = row
    BY <1>1, <1>4, <2>2 DEF Known
  <2> QED BY <1>4, <2>1, <2>2
\* Whoever has another callback in hand has it from another reference.
<1>7. \A j \in Instance : \A cb \in Relaying(j)' :
        cb \in Relaying(j) /\ RefOf[cb] \in Reference \ {ref}
  <2> SUFFICES ASSUME NEW j \in Instance, NEW cb \in Relaying(j)'
               PROVE  cb \in Relaying(j) /\ RefOf[cb] \in Reference \ {ref}
    OBVIOUS
  <2>1. cb \in Relaying(j) /\ cb \in Callback
    BY <1>5 DEF IInv, TypeOK, Relaying
  <2>2. j = i => cb # cur
    BY <1>5 DEF IInv, TypeOK, HandInv, Relaying
  <2>3. Row(cb).callback = cb /\ Row(cb).lockedBy = j
    BY <2>1 DEF IInv, HandInv
  <2> QED BY <1>1, <2>1, <2>2, <2>3 DEF Row
<1>8. HandInv'
  <2>1. \A j \in Instance : \A cb \in Relaying(j)' : Row(cb)' = Row(cb)
    BY <1>4, <1>7 DEF Row
  <2>2. \A j \in Instance :
          /\ current'[j] \notin batch'[j]
          /\ current'[j] = NoCallback <=> pc'[j] \in {"idle", "relaying"}
          /\ pc'[j] = "idle" => batch'[j] = {}
    BY <1>5 DEF IInv, TypeOK, HandInv
  <2> QED BY <1>7, <2>1, <2>2 DEF IInv, HandInv
<1>9. DoneInv'
  <2>1. PublishedIsSent'
    BY <1>1, <1>4, <1>5 DEF IInv, DoneInv, PublishedIsSent
  <2>2. \A j \in Instance : pc'[j] = "mark" => pc[j] = "mark" /\ current'[j] = current[j]
    BY <1>5 DEF IInv, TypeOK
  <2> QED BY <1>4, <1>5, <2>1, <2>2 DEF IInv, DoneInv, Row
<1>10. CountInv'
  <2> SUFFICES ASSUME NEW cb \in Callback, Sendable(cb)'
               PROVE  sent[cb] <= faults
    BY <1>5 DEF IInv, CountInv
  <2>1. CASE \E j \in Instance :
               \/ cb \in batch'[j]
               \/ /\ current'[j] = cb
                  /\ pc'[j] \in {"sending", "confirming", "retry"}
    BY <1>5, <2>1 DEF IInv, TypeOK, CountInv, Sendable
  <2>2. CASE Row(cb)'.status = "PENDING" /\ RefOf[cb] # ref
    BY <1>4, <2>2 DEF IInv, CountInv, Row, Sendable
  <2>3. CASE cb = cur
    BY <2>3 DEF IInv, CountInv, Sendable
  <2>4. CASE RefOf[cb] = ref /\ cb # cur
    BY <1>1, <2>4 DEF IInv, TypeOK, DoneInv, Row
  <2> QED BY <2>1, <2>2, <2>3, <2>4 DEF Sendable
<1>12. TypeOK'
  BY <1>4, <1>5 DEF IInv, TypeOK
<1>13. AnswersAreKept'
  BY <1>4, <1>5, <1>9, AnswersStay DEF IInv, TypeOK
<1> QED BY <1>6, <1>8, <1>9, <1>10, <1>12, <1>13 DEF IInv

\* Locks of a tick that is over pass to Gone, which has nothing in hand.
LEMMA EndTickStep == ASSUME IInv, NEW i \in Instance, EndTick(i) PROVE IInv'
<1> USE DEF EndTick
<1>1. /\ receipts' \in [Reference -> Receipt]
      /\ \A ref \in Reference :
           /\ receipts'[ref].status = receipts[ref].status
           /\ receipts'[ref].callback = receipts[ref].callback
           /\ receipts'[ref].lockedBy = IF receipts[ref].lockedBy = i
                                        THEN Gone ELSE receipts[ref].lockedBy
  BY OrphanedRows
<1>2. RowInv'
  BY <1>1 DEF IInv, RowInv, Known
<1>3. HandInv'
  BY <1>1 DEF IInv, TypeOK, HandInv, Row, Relaying
<1>4. DoneInv'
  BY <1>1 DEF IInv, TypeOK, DoneInv, PublishedIsSent, Row
<1>5. CountInv'
  BY <1>1 DEF IInv, TypeOK, CountInv, Sendable, Row
<1>6. TypeOK'
  BY <1>1 DEF IInv, TypeOK
<1>7. AnswersAreKept'
  BY <1>1, <1>4, AnswersStay DEF IInv, TypeOK
<1> QED BY <1>2, <1>3, <1>4, <1>5, <1>6, <1>7 DEF IInv

\* The clock changes no column the invariant is about.
LEMMA DueStep == ASSUME IInv, NEW r \in Reference, RetryFallsDue(r) PROVE IInv'
<1> USE DEF RetryFallsDue, relay
<1>1. /\ receipts' \in [Reference -> Receipt]
      /\ \A ref \in Reference :
           /\ receipts'[ref].status = receipts[ref].status
           /\ receipts'[ref].callback = receipts[ref].callback
           /\ receipts'[ref].lockedBy = receipts[ref].lockedBy
  <2>1. receipts[r] \in Receipt
    BY DEF IInv, TypeOK
  <2>2. /\ [receipts[r] EXCEPT !.due = TRUE] \in Receipt
        /\ [receipts[r] EXCEPT !.due = TRUE].status = receipts[r].status
        /\ [receipts[r] EXCEPT !.due = TRUE].callback = receipts[r].callback
        /\ [receipts[r] EXCEPT !.due = TRUE].lockedBy = receipts[r].lockedBy
    BY <2>1 DEF Receipt
  <2>3. receipts' = [receipts EXCEPT ![r] = [receipts[r] EXCEPT !.due = TRUE]]
    OBVIOUS
  <2> QED BY <2>2, <2>3 DEF IInv, TypeOK
<1>2. RowInv'
  BY <1>1 DEF IInv, RowInv, Known
<1>3. HandInv'
  BY <1>1 DEF IInv, TypeOK, HandInv, Row, Relaying
<1>4. DoneInv'
  BY <1>1 DEF IInv, TypeOK, DoneInv, PublishedIsSent, Row
<1>5. CountInv'
  BY <1>1 DEF IInv, TypeOK, CountInv, Sendable, Row
<1>6. TypeOK'
  BY <1>1 DEF IInv, TypeOK
<1>7. AnswersAreKept'
  BY <1>1, <1>4, AnswersStay DEF IInv, TypeOK
<1> QED BY <1>2, <1>3, <1>4, <1>5, <1>6, <1>7 DEF IInv

\* A relay that hangs keeps what it has in hand and never sends it again.
LEMMA LoseConnectionStep == ASSUME IInv, NEW i \in Instance, LoseConnection(i) PROVE IInv'
<1> USE DEF LoseConnection
<1>1. receipts' = receipts
  OBVIOUS
<1>2. /\ sent' \in [Callback -> Nat]
      /\ \A cb \in Callback : sent[cb] <= sent'[cb]
      /\ \A cb \in Callback : sent'[cb] # sent[cb] =>
           /\ pc[i] = "confirming" /\ cb = current[i]
           /\ sent'[cb] <= 1 + faults
           /\ Row(cb).callback = cb
           /\ Row(cb).status = "IN_FLIGHT"
  BY ArrivedCopies
<1>3. /\ pc' = [pc EXCEPT ![i] = pc'[i]]
      /\ pc'[i] # "confirming" /\ pc'[i] \in {pc[i], "hung"}
      /\ UNCHANGED <<batch, current, attempt>>
      /\ UNCHANGED <<answers, faults>>
      /\ losses' \in 0..MaxLosses
  BY DEF IInv, TypeOK, Loss
<1>4. RowInv'
  BY <1>1 DEF IInv, RowInv, Known
<1>5. HandInv'
  BY <1>1 DEF IInv, TypeOK, HandInv, Row, Relaying
<1>6. DoneInv'
  <2>1. \A cb \in Callback : sent'[cb] > 0 => Row(cb)'.callback = cb
    BY <1>1, <1>2 DEF IInv, TypeOK, DoneInv, Row
  <2>2. PublishedIsSent'
    BY <1>1, <1>2 DEF IInv, TypeOK, Receipt, RowInv, Known, DoneInv,
       PublishedIsSent
  <2>3. \A j \in Instance : pc'[j] = "mark" =>
          pc[j] = "mark" /\ current'[j] = current[j] /\ current[j] \in Callback
    BY <1>3, HasCurrent DEF IInv, TypeOK
  <2>4. \A j \in Instance : pc'[j] = "mark" => sent'[current'[j]] > 0
    BY <1>2, <2>3 DEF IInv, TypeOK, DoneInv
  <2> QED BY <2>1, <2>2, <2>4 DEF DoneInv
<1>7. CountInv'
  <2>1. \A cb \in Callback : Sendable(cb)' => Sendable(cb)
    BY <1>1, <1>3 DEF IInv, TypeOK, Sendable, Row
  <2>2. \A cb \in Callback : Sendable(cb)' /\ pc[i] = "confirming" => cb # current[i]
    BY <1>1, <1>3 DEF IInv, TypeOK, HandInv, Relaying, Sendable, Row
  <2> QED BY <1>2, <1>3, <2>1, <2>2 DEF IInv, TypeOK, CountInv
<1>8. TypeOK'
  <2>1. sent' \in [Callback -> 0..(MaxFaults + MaxLosses + 1)]
    BY <1>2, <1>3, <1>7, SentIsBounded DEF IInv, TypeOK, CountInv
  <2> QED BY <1>1, <1>3, <2>1 DEF IInv, TypeOK
<1>9. AnswersAreKept'
  BY <1>1, <1>2, <1>3, <1>6, AnswersStay DEF IInv, TypeOK
<1> QED BY <1>4, <1>5, <1>6, <1>7, <1>8, <1>9 DEF IInv

\* A restart drops what was in hand; its receipts are Gone's.
LEMMA RestartStep == ASSUME IInv, NEW i \in Instance, Restart(i) PROVE IInv'
<1> USE DEF Restart
<1>1. /\ receipts' \in [Reference -> Receipt]
      /\ \A ref \in Reference :
           /\ receipts'[ref].status = receipts[ref].status
           /\ receipts'[ref].callback = receipts[ref].callback
           /\ receipts'[ref].lockedBy = IF receipts[ref].lockedBy = i
                                        THEN Gone ELSE receipts[ref].lockedBy
  BY OrphanedRows
<1>2. /\ sent' \in [Callback -> Nat]
      /\ \A cb \in Callback : sent[cb] <= sent'[cb]
      /\ \A cb \in Callback : sent'[cb] # sent[cb] =>
           /\ pc[i] = "confirming" /\ cb = current[i]
           /\ sent'[cb] <= 1 + faults
           /\ Row(cb).callback = cb
           /\ Row(cb).status = "IN_FLIGHT"
  BY ArrivedCopies
<1>3. /\ pc' = [pc EXCEPT ![i] = pc'[i]]
      /\ pc'[i] = "idle"
      /\ batch' = [batch EXCEPT ![i] = {}]
      /\ current' = [current EXCEPT ![i] = NoCallback]
      /\ attempt' = [attempt EXCEPT ![i] = 0]
      /\ UNCHANGED <<answers, faults>>
      /\ losses' \in 0..MaxLosses
  BY DEF IInv, TypeOK, Loss
<1>4. RowInv'
  BY <1>1 DEF IInv, RowInv, Known
<1>5. HandInv'
  BY <1>1 DEF IInv, TypeOK, HandInv, Row, Relaying
<1>6. DoneInv'
  <2>1. \A cb \in Callback : sent'[cb] > 0 => Row(cb)'.callback = cb
    BY <1>1, <1>2 DEF IInv, TypeOK, DoneInv, Row
  <2>2. PublishedIsSent'
    BY <1>1, <1>2 DEF IInv, TypeOK, Receipt, RowInv, Known, DoneInv,
       PublishedIsSent
  <2>3. \A j \in Instance : pc'[j] = "mark" =>
          pc[j] = "mark" /\ current'[j] = current[j] /\ current[j] \in Callback
    BY <1>3, HasCurrent DEF IInv, TypeOK
  <2>4. \A j \in Instance : pc'[j] = "mark" => sent'[current'[j]] > 0
    BY <1>2, <2>3 DEF IInv, TypeOK, DoneInv
  <2> QED BY <2>1, <2>2, <2>4 DEF DoneInv
<1>7. CountInv'
  <2>1. \A cb \in Callback : Sendable(cb)' => Sendable(cb)
    BY <1>1, <1>3 DEF IInv, TypeOK, Sendable, Row
  <2>2. \A cb \in Callback : Sendable(cb)' /\ pc[i] = "confirming" => cb # current[i]
    BY <1>1, <1>3 DEF IInv, TypeOK, HandInv, Relaying, Sendable, Row
  <2> QED BY <1>2, <1>3, <2>1, <2>2 DEF IInv, TypeOK, CountInv
<1>8. TypeOK'
  <2>1. sent' \in [Callback -> 0..(MaxFaults + MaxLosses + 1)]
    BY <1>2, <1>3, <1>7, SentIsBounded DEF IInv, TypeOK, CountInv
  <2> QED BY <1>1, <1>3, <2>1 DEF IInv, TypeOK
<1>9. AnswersAreKept'
  BY <1>1, <1>2, <1>3, <1>6, AnswersStay DEF IInv, TypeOK
<1> QED BY <1>4, <1>5, <1>6, <1>7, <1>8, <1>9 DEF IInv

-------------------------------------------------------------------------------
(* The theorems. *)

\* The invariant is inductive: the lemmas above, put together.
LEMMA StepInv == IInv /\ [Next]_vars => IInv'
<1> SUFFICES ASSUME IInv, [Next]_vars PROVE IInv'
  OBVIOUS
<1>1. CASE UNCHANGED vars
  BY <1>1 DEF vars, relay, IInv, TypeOK, RowInv, Known, HandInv, Relaying,
     Row, DoneInv,
              PublishedIsSent, CountInv, Sendable, AnswersAreKept
<1>2. ASSUME NEW cb \in Callback, Register(cb) \/ IgnoreDuplicate(cb) PROVE IInv'
  BY <1>2, RegisterStep, DuplicateStep
<1>3. ASSUME NEW i \in Instance, ClaimPending(i) \/ Work(i) PROVE IInv'
  BY <1>3, ClaimStep, NextStep, SendStep, ConfirmStep, MarkStep, RetryStep,
     EndTickStep DEF Work
<1>4. ASSUME NEW i \in Instance, Nack(i) \/ LoseConnection(i) \/ Restart(i)
      PROVE  IInv'
  BY <1>4, NackStep, LoseConnectionStep, RestartStep
<1>5. ASSUME NEW ref \in Reference, RetryFallsDue(ref) PROVE IInv'
  BY <1>5, DueStep
<1> QED BY <1>1, <1>2, <1>3, <1>4, <1>5 DEF Next

\* Every reachable state satisfies the inductive invariant.
THEOREM Invariant == Spec => []IInv
BY InitInv, StepInv, PTL DEF Spec

\* The variables keep their types; that copies are bounded is part of it.
THEOREM TypeCorrect == Spec => []TypeOK
BY Invariant, PTL DEF IInv

\* No receipt is in the hands of two relays, however statements, connections
\* and processes of the instances fail.
THEOREM RelaysAlone == Spec => []OneRelayPerReceipt
<1>1. IInv => OneRelayPerReceipt
  <2> SUFFICES ASSUME IInv, NEW i \in Instance, NEW cb \in Relaying(i)
               PROVE  /\ receipts[RefOf[cb]].callback = cb
                      /\ pc[i] # "idle"
                      /\ \A j \in Instance \ {i} : cb \notin Relaying(j)
    BY DEF OneRelayPerReceipt
  <2> QED BY DEF IInv, TypeOK, HandInv, Row, Relaying
<1> QED BY <1>1, Invariant, PTL

\* What the provider was told stays true.
THEOREM AnswersStayTrue == Spec => []AnswersAreKept
BY Invariant, PTL DEF IInv

\* A receipt marked PUBLISHED is with the broker.
THEOREM PublishedWasSent == Spec => []PublishedIsSent
<1>1. IInv => PublishedIsSent
  BY DEF IInv, DoneInv
<1> QED BY <1>1, Invariant, PTL

\* Every copy of a confirmation after the first has its negative confirm.
THEOREM NoCopyWithoutNack == Spec => []CopiesAreNacks
<1>1. IInv => CopiesAreNacks
  BY DEF IInv, CountInv, CopiesAreNacks
<1> QED BY <1>1, Invariant, PTL

\* Receipts only move forward, and no later callback replaces a recorded one.
THEOREM ReceiptsAreMonotone == Spec => ReceiptsMoveForward
<1> DEFINE Moves == \A ref \in Reference :
              /\ receipts'[ref].status # receipts[ref].status =>
                   <<receipts[ref].status, receipts'[ref].status>> \in Forward
              /\ Known(ref) => receipts'[ref].callback = receipts[ref].callback
<1>1. IInv /\ [Next]_vars => [Moves]_vars
  <2> SUFFICES ASSUME IInv, Next, NEW ref \in Reference
               PROVE
              /\ receipts'[ref].status # receipts[ref].status =>
                   <<receipts[ref].status, receipts'[ref].status>> \in Forward
              /\ Known(ref) => receipts'[ref].callback = receipts[ref].callback
    OBVIOUS
  <2>1. receipts[ref] \in Receipt
    BY DEF IInv, TypeOK
  <2>2. ASSUME receipts' = receipts
        PROVE /\ receipts'[ref].status # receipts[ref].status =>
                   <<receipts[ref].status, receipts'[ref].status>> \in Forward
              /\ Known(ref) => receipts'[ref].callback = receipts[ref].callback
    BY <2>2
  <2>3. ASSUME NEW cb \in Callback, Register(cb)
        PROVE /\ receipts'[ref].status # receipts[ref].status =>
                   <<receipts[ref].status, receipts'[ref].status>> \in Forward
              /\ Known(ref) => receipts'[ref].callback = receipts[ref].callback
    BY <2>3 DEF IInv, TypeOK, Register, Known, NoReceipt, Forward
  <2>4. ASSUME NEW i \in Instance, ClaimPending(i)
        PROVE /\ receipts'[ref].status # receipts[ref].status =>
                   <<receipts[ref].status, receipts'[ref].status>> \in Forward
              /\ Known(ref) => receipts'[ref].callback = receipts[ref].callback
    <3>1. PICK refs \in SUBSET Reference, o \in {i, Gone} :
            /\ \A r \in refs : receipts[r].status = "PENDING"
            /\ receipts' = Claimed(refs, o)
      BY <2>4 DEF ClaimPending
    <3>2. receipts'[ref] = IF ref \in refs
             THEN [receipts[ref] EXCEPT !.status = "IN_FLIGHT", !.lockedBy = o]
             ELSE receipts[ref]
      BY <3>1 DEF Claimed
    <3>3. CASE ref \in refs
      BY <2>1, <3>1, <3>2, <3>3 DEF Receipt, Forward
    <3>4. CASE ref \notin refs
      BY <3>2, <3>4
    <3> QED BY <3>3, <3>4
  <2>5. ASSUME NEW i \in Instance, MarkPublished(i) \/ RetryPending(i)
        PROVE /\ receipts'[ref].status # receipts[ref].status =>
                   <<receipts[ref].status, receipts'[ref].status>> \in Forward
              /\ Known(ref) => receipts'[ref].callback = receipts[ref].callback
    <3>1. CASE receipts' # receipts /\ RefOf[current[i]] = ref
      <4>1. receipts[ref].status = "IN_FLIGHT"
        BY <2>5, <3>1 DEF MarkPublished, RetryPending, Settle
      <4>2. receipts'[ref] \in
              {[receipts[ref] EXCEPT !.status = "PUBLISHED", !.lockedBy = Nobody],
               [receipts[ref] EXCEPT !.status = "PENDING", !.due = FALSE,
                                     !.lockedBy = Nobody]}
        BY <2>5, <3>1 DEF IInv, TypeOK, MarkPublished, RetryPending, Settle
      <4> QED BY <2>1, <4>1, <4>2 DEF Receipt, Forward
    <3>2. CASE receipts' = receipts
      BY <2>2, <3>2
    <3>3. CASE RefOf[current[i]] # ref
      BY <2>5, <3>3 DEF IInv, TypeOK, MarkPublished, RetryPending, Settle
    <3> QED BY <3>1, <3>2, <3>3
  <2>6. ASSUME NEW i \in Instance, EndTick(i) \/ Restart(i)
        PROVE /\ receipts'[ref].status # receipts[ref].status =>
                   <<receipts[ref].status, receipts'[ref].status>> \in Forward
              /\ Known(ref) => receipts'[ref].callback = receipts[ref].callback
    BY <2>6, OrphanedRows DEF EndTick, Restart
  <2>7. ASSUME NEW r \in Reference, RetryFallsDue(r)
        PROVE /\ receipts'[ref].status # receipts[ref].status =>
                   <<receipts[ref].status, receipts'[ref].status>> \in Forward
              /\ Known(ref) => receipts'[ref].callback = receipts[ref].callback
    <3>1. receipts'[ref] \in {receipts[ref], [receipts[ref] EXCEPT !.due = TRUE]}
      BY <2>7 DEF IInv, TypeOK, RetryFallsDue
    <3> QED BY <2>1, <3>1 DEF Receipt
  <2> QED BY <2>2, <2>3, <2>4, <2>5, <2>6, <2>7
       DEF Next, Work, IgnoreDuplicate, NextReceipt, Send, Confirm, Nack,
           LoseConnection
<1>2. Spec => [][Moves]_vars
  BY <1>1, Invariant, PTL DEF Spec
<1> QED BY <1>2, PTL DEF ReceiptsMoveForward
-------------------------------------------------------------------------------
(* The relay keeps the promise of an outbox. *)

\* Where a callback stands, as an outbox sees it.
Standing(cb) == IF Row(cb).callback # cb THEN "none"
                ELSE IF Row(cb).status = "PUBLISHED" THEN "settled" ELSE "stored"

\* One step of an outbox, for one callback.
Handled(cb) ==
  \/ Standing(cb)' = Standing(cb) /\ sent'[cb] = sent[cb]
  \/ /\ Standing(cb) = "none" /\ Standing(cb)' = "stored"
     /\ sent'[cb] = sent[cb]
  \/ /\ Standing(cb) # "none" /\ Standing(cb)' = Standing(cb)
     /\ sent'[cb] = sent[cb] + 1
  \/ /\ Standing(cb) = "stored" /\ Standing(cb)' = "settled"
     /\ sent[cb] > 0 /\ sent'[cb] = sent[cb]

\* That is what the outbox with the relay's receipts in it does.
LEMMA HandledIsNext == (\A cb \in Callback : Handled(cb)) => Outgoing!Next
<1> SUFFICES ASSUME NEW cb \in Callback, Handled(cb)
             PROVE  \/ Outgoing!Rest(cb) \/ Outgoing!Store(cb) \/ Outgoing!Send(cb)
                    \/ Outgoing!Settle(cb)
  BY DEF Outgoing!Next
<1> QED BY DEF Handled, Standing, Row, Outgoing!Rest, Outgoing!Store,
           Outgoing!Send, Outgoing!Settle, Outgoing!Stays, Outgoing!Unsent,
           Outgoing!Undropped

\* A step that leaves the callback and the status of every receipt alone moves
\* no callback to another stage.
LEMMA SameStanding ==
  ASSUME \A ref \in Reference :
           /\ receipts'[ref].callback = receipts[ref].callback
           /\ receipts'[ref].status = "PUBLISHED" <=>
                receipts[ref].status = "PUBLISHED",
         NEW cb \in Callback
  PROVE  Standing(cb)' = Standing(cb)
BY DEF Standing, Row

\* A copy that arrives is of a callback whose receipt is there.
LEMMA CopyHandled ==
  ASSUME IInv, NEW i \in Instance, pc[i] = "confirming",
         receipts' = receipts, sent' \in {sent, Accepted(current[i])}
  PROVE  \A cb \in Callback : Handled(cb)
<1>1. current[i] \in Callback /\ Row(current[i]).callback = current[i]
  BY HasCurrent
<1> SUFFICES ASSUME NEW cb \in Callback PROVE Handled(cb)
  OBVIOUS
<1>2. Standing(cb)' = Standing(cb)
  BY SameStanding
<1>3. CASE sent' = Accepted(current[i]) /\ cb = current[i]
  <2>1. Standing(cb) # "none"
    BY <1>1, <1>3 DEF Standing
  <2>2. sent'[cb] = sent[cb] + 1
    BY <1>3 DEF IInv, TypeOK, Accepted
  <2> QED BY <1>2, <2>1, <2>2 DEF Handled
<1>4. CASE sent' = sent \/ cb # current[i]
  BY <1>2, <1>4 DEF IInv, TypeOK, Accepted, Handled
<1> QED BY <1>3, <1>4

\* The callback of a new receipt is stored; any other callback of its
\* reference was not and is not.
LEMMA RegisterHandled ==
  ASSUME IInv, NEW a \in Callback, Register(a)
  PROVE  \A cb \in Callback : Handled(cb)
<1> DEFINE new == [NoReceipt EXCEPT !.status = "PENDING", !.callback = a]
<1>1. /\ receipts' = [receipts EXCEPT ![RefOf[a]] = new]
      /\ new.callback = a /\ new.status = "PENDING"
      /\ receipts[RefOf[a]].callback = NoCallback
      /\ sent' = sent
  BY DEF IInv, TypeOK, RowInv, Register, Known, NoReceipt, Receipt
<1> HIDE DEF new
<1> SUFFICES ASSUME NEW cb \in Callback PROVE Handled(cb)
  OBVIOUS
<1>2. CASE RefOf[cb] # RefOf[a]
  BY <1>1, <1>2 DEF IInv, TypeOK, Handled, Standing, Row
<1>3. CASE RefOf[cb] = RefOf[a]
  <2>1. Row(cb).callback = NoCallback /\ Row(cb)' = new
    BY <1>1, <1>3 DEF IInv, TypeOK, Row
  <2>2. Standing(cb) = "none"
    BY <2>1 DEF Standing
  <2>3. Standing(cb)' = IF cb = a THEN "stored" ELSE "none"
    BY <1>1, <2>1 DEF Standing
  <2> QED BY <1>1, <2>2, <2>3 DEF Handled
<1> QED BY <1>2, <1>3

\* Claiming makes no receipt PUBLISHED.
LEMMA ClaimHandled ==
  ASSUME IInv, NEW i \in Instance, ClaimPending(i)
  PROVE  \A cb \in Callback : Handled(cb)
<1>1. PICK refs \in SUBSET Reference, o \in {i, Gone} :
        /\ \A r \in refs : receipts[r].status = "PENDING"
        /\ receipts' = Claimed(refs, o)
  BY DEF ClaimPending
<1>2. ASSUME NEW ref \in Reference
      PROVE  /\ receipts'[ref].callback = receipts[ref].callback
             /\ receipts'[ref].status = "PUBLISHED" <=>
                  receipts[ref].status = "PUBLISHED"
  <2>1. receipts'[ref] = IF ref \in refs
           THEN [receipts[ref] EXCEPT !.status = "IN_FLIGHT", !.lockedBy = o]
           ELSE receipts[ref]
    BY <1>1 DEF Claimed
  <2>2. receipts[ref] \in Receipt
    BY DEF IInv, TypeOK
  <2>3. CASE ref \in refs
    BY <1>1, <2>1, <2>2, <2>3 DEF Receipt
  <2>4. CASE ref \notin refs
    BY <2>1, <2>4
  <2> QED BY <2>3, <2>4
<1>3. sent' = sent
  BY DEF ClaimPending
<1>4. \A cb \in Callback : Standing(cb)' = Standing(cb)
  BY <1>2, SameStanding
<1> QED BY <1>3, <1>4 DEF Handled

\* A relay marks a receipt whose callback the broker has confirmed to it; its
\* other statement, for a failed publish, leaves the callback where it was.
LEMMA SettleHandled ==
  ASSUME IInv, NEW i \in Instance, MarkPublished(i) \/ RetryPending(i)
  PROVE  \A cb \in Callback : Handled(cb)
<1> DEFINE ref == RefOf[current[i]]
<1> DEFINE status == IF pc[i] = "mark" THEN "PUBLISHED" ELSE "PENDING"
<1>1. /\ current[i] \in Callback
      /\ receipts[ref].callback = current[i]
      /\ receipts[ref].status = "IN_FLIGHT"
      /\ pc[i] = "mark" => sent[current[i]] > 0
      /\ sent' = sent
  BY HasCurrent DEF IInv, DoneInv, MarkPublished, RetryPending, Settle, Row
<1>2. \/ receipts' = receipts
      \/ /\ \A r \in Reference \ {ref} : receipts'[r] = receipts[r]
         /\ receipts'[ref].callback = current[i]
         /\ receipts'[ref].status = status
  <2>1. CASE MarkPublished(i) /\ receipts' # receipts
    <3>1. /\ pc[i] = "mark"
          /\ receipts' = [receipts EXCEPT ![ref] =
               [receipts[ref] EXCEPT !.status = "PUBLISHED", !.lockedBy = Nobody]]
      BY <2>1 DEF MarkPublished, Settle
    <3>2. receipts[ref] \in Receipt /\ ref \in Reference
      BY <1>1 DEF IInv, TypeOK
    <3> QED BY <1>1, <3>1, <3>2 DEF IInv, TypeOK, Receipt
  <2>2. CASE RetryPending(i) /\ receipts' # receipts
    <3>1. /\ pc[i] = "retry"
          /\ receipts' = [receipts EXCEPT ![ref] =
               [receipts[ref] EXCEPT !.status = "PENDING", !.due = FALSE,
                                     !.lockedBy = Nobody]]
      BY <2>2 DEF RetryPending, Settle
    <3>2. receipts[ref] \in Receipt /\ ref \in Reference
      BY <1>1 DEF IInv, TypeOK
    <3> QED BY <1>1, <3>1, <3>2 DEF IInv, TypeOK, Receipt
  <2> QED BY <2>1, <2>2
<1> SUFFICES ASSUME NEW cb \in Callback PROVE Handled(cb)
  OBVIOUS
<1>3. CASE receipts' = receipts
  BY <1>1, <1>3, SameStanding DEF Handled
<1>4. CASE receipts' # receipts /\ RefOf[cb] # ref
  BY <1>1, <1>2, <1>4 DEF IInv, TypeOK, Handled, Standing, Row
<1>5. CASE receipts' # receipts /\ RefOf[cb] = ref
  <2>1. CASE cb # current[i]
    BY <1>1, <1>2, <1>5, <2>1 DEF Handled, Standing, Row
  <2>2. CASE cb = current[i]
    <3>1. Standing(cb) = "stored"
      BY <1>1, <2>2 DEF Standing, Row
    <3>2. Standing(cb)' = IF pc[i] = "mark" THEN "settled" ELSE "stored"
      BY <1>1, <1>2, <1>5, <2>2 DEF Standing, Row
    <3> QED BY <1>1, <2>2, <3>1, <3>2 DEF Handled
  <2> QED BY <2>1, <2>2
<1> QED BY <1>3, <1>4, <1>5

\* A connection or a process that fails loses no receipt, and a copy that was
\* on its way is of a callback whose receipt is there.
LEMMA FailureHandled ==
  ASSUME IInv, NEW i \in Instance, LoseConnection(i) \/ Restart(i)
  PROVE  \A cb \in Callback : Handled(cb)
<1> SUFFICES ASSUME NEW cb \in Callback PROVE Handled(cb)
  OBVIOUS
<1>1. \A ref \in Reference : /\ receipts'[ref].callback = receipts[ref].callback
                             /\ receipts'[ref].status = receipts[ref].status
  BY OrphanedRows DEF LoseConnection, Restart
<1>2. Standing(cb)' = Standing(cb)
  BY <1>1, SameStanding
<1>3. sent' = sent \/ (pc[i] = "confirming" /\ sent' = Accepted(current[i]))
  BY DEF LoseConnection, Restart, MayHaveArrived
<1>4. CASE sent' = sent
  BY <1>2, <1>4 DEF Handled
<1>5. CASE pc[i] = "confirming" /\ sent' = Accepted(current[i]) /\ cb = current[i]
  <2>1. Standing(cb) # "none"
    BY <1>5, HasCurrent DEF Standing
  <2>2. sent'[cb] = sent[cb] + 1
    BY <1>5 DEF IInv, TypeOK, Accepted
  <2> QED BY <1>2, <2>1, <2>2 DEF Handled
<1>6. CASE pc[i] = "confirming" /\ sent' = Accepted(current[i]) /\ cb # current[i]
  BY <1>2, <1>6 DEF IInv, TypeOK, Accepted, Handled
<1> QED BY <1>3, <1>4, <1>5, <1>6

\* Any other step changes no row but for what it is locked by or due.
LEMMA QuietHandled ==
  ASSUME sent' = sent,
         \A ref \in Reference : /\ receipts'[ref].callback = receipts[ref].callback
                                /\ receipts'[ref].status = receipts[ref].status
  PROVE  \A cb \in Callback : Handled(cb)
BY SameStanding DEF Handled

\* Every step of the relay is one of the outbox, for every callback.
LEMMA StepHandled == IInv /\ [Next]_vars => \A cb \in Callback : Handled(cb)
<1> SUFFICES ASSUME IInv, [Next]_vars PROVE \A cb \in Callback : Handled(cb)
  OBVIOUS
<1>1. CASE receipts' = receipts /\ sent' = sent
  BY <1>1, QuietHandled
<1>2. ASSUME NEW a \in Callback, Register(a) PROVE \A cb \in Callback : Handled(cb)
  BY <1>2, RegisterHandled
<1>3. ASSUME NEW i \in Instance,
             ClaimPending(i) \/ MarkPublished(i) \/ RetryPending(i)
      PROVE  \A cb \in Callback : Handled(cb)
  BY <1>3, ClaimHandled, SettleHandled
<1>4. ASSUME NEW i \in Instance, Confirm(i) \/ Nack(i)
      PROVE  \A cb \in Callback : Handled(cb)
  BY <1>4, CopyHandled DEF Confirm, Nack
<1>5. ASSUME NEW i \in Instance, EndTick(i) PROVE \A cb \in Callback : Handled(cb)
  BY <1>5, OrphanedRows, QuietHandled DEF EndTick
<1>6. ASSUME NEW i \in Instance, LoseConnection(i) \/ Restart(i)
      PROVE  \A cb \in Callback : Handled(cb)
  BY <1>6, FailureHandled
<1>7. ASSUME NEW r \in Reference, RetryFallsDue(r)
      PROVE  \A cb \in Callback : Handled(cb)
  <2>1. \A ref \in Reference :
          receipts'[ref] \in {receipts[ref], [receipts[ref] EXCEPT !.due = TRUE]}
    BY <1>7 DEF IInv, TypeOK, RetryFallsDue
  <2>2. \A ref \in Reference : receipts[ref] \in Receipt
    BY DEF IInv, TypeOK
  <2>3. \A ref \in Reference : /\ receipts'[ref].callback = receipts[ref].callback
                               /\ receipts'[ref].status = receipts[ref].status
    BY <2>1, <2>2 DEF Receipt
  <2> QED BY <1>7, <2>3, QuietHandled DEF RetryFallsDue
<1> QED BY <1>1, <1>2, <1>3, <1>4, <1>5, <1>6, <1>7
        DEF Next, Work, IgnoreDuplicate, NextReceipt, Send, vars

\* The relay implements an outbox of callbacks without a lapse: a confirmation
\* goes out only once it is recorded, is never taken back or replaced, and its
\* receipt is PUBLISHED only when the broker has it, whatever fails.
THEOREM RelayIsAnOutbox == Spec => KeepsMessages
<1>1. Init => Outgoing!Init
  BY DEF Init, NoReceipt, Outgoing!Init
<1>2. IInv /\ [Next]_vars =>
        [Outgoing!Next]_<<[cb \in Callback |->
                             IF receipts[RefOf[cb]].callback # cb THEN "none"
                             ELSE IF receipts[RefOf[cb]].status = "PUBLISHED"
                                  THEN "settled" ELSE "stored"], sent, {}>>
  BY StepHandled, HandledIsNext
<1> QED BY <1>1, <1>2, Invariant, PTL DEF Spec, KeepsMessages, Outgoing!Spec
===============================================================================
