------------------------ MODULE PaymentLifecycleProofs ------------------------
(***************************************************************************)
(* Theorems about PaymentLifecycle, for every set of payments, callbacks   *)
(* and instances and every number and kind of faults.                      *)
(*                                                                         *)
(* DocInv relates the status of a document to the messages it has stored,  *)
(* which is what makes the filters of the transitions enough against       *)
(* repeated events.  The one message stored without a filter is the        *)
(* announcement of PROCESSING: HandInv says that a single consumer is      *)
(* about to store it, and has not yet.  PubInv says that a message leaves  *)
(* its document only when the broker has it or it was written in vain, and *)
(* WayInv that a delivery request the broker has had is still somewhere    *)
(* until the payment is confirmed.  CopyInv counts, for each message, the  *)
(* copies that the publishers may yet send without another fault.          *)
(***************************************************************************)
EXTENDS PaymentLifecycle, FiniteSetTheorems, TLAPS

USE CallbacksArePayments, NamesAreNew, BoundsAreNat

Delivered(p) == payments[p].delivery = "DELIVERED"

Begun == {"PROCESSING", "FAILED", "COMPLETED", "EXPIRED"}

DocOK(p) ==
  /\ Created(p, "process") <=> ~Has(p, {"ABSENT"})
  /\ Created(p, "PROCESSING") => Has(p, Begun)
  /\ Created(p, "FAILED") => Has(p, {"FAILED", "COMPLETED", "EXPIRED"})
  /\ Created(p, "EXPIRED") <=> Has(p, {"EXPIRED"})
  /\ Created(p, "COMPLETED") <=> Has(p, {"COMPLETED"})
  /\ Created(p, "deliver") <=> Has(p, {"COMPLETED"})
  /\ Created(p, "DELIVERED") <=> Delivered(p)
  /\ Created(p, "confirmed") <=> Delivered(p)
  /\ Delivered(p) => Has(p, {"COMPLETED"})

DocInv == \A p \in Payment : DocOK(p)

\* A completed payment had an honest callback.
PaidInv == \A p \in Payment : Has(p, {"COMPLETED"}) =>
             \E cb \in arrived \cap InTime \cap Matching : PaymentOf[cb] = p

Reserved(i) == at[i] = "reserved"

HandInv ==
  /\ queue \cap Callback \subseteq arrived
  /\ \A i \in Instance :
       /\ at[i] = "idle" <=> hand[i] = Nothing
       /\ hand[i] \in Callback => hand[i] \in arrived
       /\ Reserved(i) => \E p \in Payment : /\ hand[i] = Msg(p, "process")
                                            /\ Has(p, Begun)
                                            /\ ~Created(p, "PROCESSING")
       /\ \A j \in Instance : Reserved(i) /\ Reserved(j) /\ i # j =>
                                hand[i] # hand[j]

SlotOK(m) ==
  /\ slots[m].in => created[m] > 0
  /\ slots[m].token # Nobody => slots[m].in
  /\ sent[m] > 0 => created[m] > 0

PubInv ==
  /\ \A m \in Message : SlotOK(m)
  /\ NothingIsLost
  /\ \A i \in Instance :
       /\ \A m \in batch[i] : created[m] > 0
       /\ pub[i] \in {"ack", "retry"} => current[i] \in Message
       /\ pub[i] = "ack" => sent[current[i]] > 0 \/ current[i] \in dropped

WayInv ==
  \A p \in Payment : sent[Msg(p, "deliver")] > 0 =>
    \/ Delivered(p)
    \/ Msg(p, "deliver") \in queue
    \/ \E i \in Instance : /\ connected[i] /\ at[i] = "received"
                           /\ hand[i] = Msg(p, "deliver")

IInv == TypeOK /\ DocInv /\ PaidInv /\ HandInv /\ PubInv /\ WayInv

-------------------------------------------------------------------------------
(* Messages and the writes to a document. *)

\* A message is determined by its payment and its kind.
LEMMA Messages ==
  /\ \A p \in Payment, kind \in Kind : Msg(p, kind) \in Message
  /\ \A p, q \in Payment, k, l \in Kind : Msg(p, k) = Msg(q, l) <=> p = q /\ k = l
  /\ \A m \in Message : /\ m.payment \in Payment /\ m.kind \in Kind
                         /\ m = Msg(m.payment, m.kind)
  /\ \A p \in Payment : {Msg(p, "process"), Msg(p, "deliver")} \subseteq Requests
  /\ Requests \subseteq Message
BY DEF Msg, Message, Kind, Requests

\* What storing new messages does to the slots and to created.
LEMMA PushStores ==
  ASSUME TypeOK, NEW ms \in SUBSET Message, Push(ms), \A m \in ms : created[m] = 0
  PROVE  /\ slots' \in [Message -> Slot]
         /\ created' \in [Message -> 0..1]
         /\ \A m \in Message :
              /\ created'[m] > 0 <=> created[m] > 0 \/ m \in ms
              /\ slots'[m] = IF m \in ms THEN NewSlot ELSE slots[m]
<1>1. NewSlot \in Slot
  BY DEF NewSlot, NoSlot, Slot
<1> QED BY <1>1 DEF TypeOK, Push

\* What every write of a consumer to a document leaves true.
Grows(m) ==
  /\ created[m] > 0 => created'[m] > 0
  /\ slots'[m] = slots[m] \/ (slots'[m] = NewSlot /\ created'[m] > 0)
  /\ created'[m] > 0 => created[m] > 0 \/ slots'[m] = NewSlot

StoreStep ==
  /\ payments' \in [Payment -> [status : Status, delivery : {"PENDING", "DELIVERED"}]]
  /\ slots' \in [Message -> Slot]
  /\ created' \in [Message -> 0..1]
  /\ DocInv'
  /\ \A m \in Message : Grows(m)
  /\ \A p \in Payment : (Has(p, Begun) => Has(p, Begun)')
  /\ \A p \in Payment : (Delivered(p) => Delivered(p)')

LEMMA StoreUnchanged == ASSUME IInv, UNCHANGED store PROVE StoreStep
BY DEF IInv, TypeOK, StoreStep, Grows, store, DocInv, DocOK, Created, Has,
   Delivered

\* Which messages a document has stored after a transition with one message...
LEMMA PushOne ==
  ASSUME TypeOK, NEW p \in Payment, NEW k \in Kind,
         Push({Msg(p, k)}), ~Created(p, k)
  PROVE  /\ slots' \in [Message -> Slot]
         /\ created' \in [Message -> 0..1]
         /\ \A m \in Message : Grows(m)
         /\ \A q \in Payment, l \in Kind :
              Created(q, l)' <=> Created(q, l) \/ (q = p /\ l \in {k})
<1> DEFINE ms == {Msg(p, k)}
<1>1. ms \in SUBSET Message
  BY Messages
<1>2. \A m \in ms : created[m] = 0
  BY Messages DEF Created, TypeOK
<1>3. \A q \in Payment, l \in Kind : Msg(q, l) \in ms <=> q = p /\ l \in {k}
  BY Messages
<1> HIDE DEF ms
<1>4. /\ slots' \in [Message -> Slot]
      /\ created' \in [Message -> 0..1]
      /\ \A m \in Message :
           /\ created'[m] > 0 <=> created[m] > 0 \/ m \in ms
           /\ slots'[m] = IF m \in ms THEN NewSlot ELSE slots[m]
  BY <1>1, <1>2, PushStores DEF ms
<1> QED
  BY <1>3, <1>4, Messages DEF Grows, Created

\* ... and with two.
LEMMA PushTwo ==
  ASSUME TypeOK, NEW p \in Payment, NEW k \in Kind, NEW j \in Kind,
         NEW ms \in SUBSET Message, Push(ms), ~Created(p, k), ~Created(p, j),
         \A m \in Message : m \in ms <=> m = Msg(p, k) \/ m = Msg(p, j)
  PROVE  /\ slots' \in [Message -> Slot]
         /\ created' \in [Message -> 0..1]
         /\ \A m \in Message : Grows(m)
         /\ \A q \in Payment, l \in Kind :
              Created(q, l)' <=> Created(q, l) \/ (q = p /\ l \in {k, j})
<1>1. \A m \in ms : created[m] = 0
  <2>1. created[Msg(p, k)] = 0 /\ created[Msg(p, j)] = 0
    BY Messages DEF Created, TypeOK
  <2> QED BY <2>1
<1>2. \A q \in Payment, l \in Kind : Msg(q, l) \in ms <=> q = p /\ l \in {k, j}
  BY Messages
<1>3. /\ slots' \in [Message -> Slot]
      /\ created' \in [Message -> 0..1]
      /\ \A m \in Message :
           /\ created'[m] > 0 <=> created[m] > 0 \/ m \in ms
           /\ slots'[m] = IF m \in ms THEN NewSlot ELSE slots[m]
  BY <1>1, PushStores
<1> QED
  BY <1>2, <1>3, Messages DEF Grows, Created

\* CreatePayment, as a write.
LEMMA CreateStores ==
  ASSUME IInv, NEW p \in Payment, Has(p, {"ABSENT"}), SetStatus(p, "PENDING"),
         Push({Msg(p, "process")})
  PROVE  /\ StoreStep
         /\ \A q \in Payment : Created(q, "PROCESSING")' <=> Created(q, "PROCESSING")
<1>1. ~Created(p, "process")
  BY DEF IInv, DocInv, DocOK
<1>2. /\ slots' \in [Message -> Slot]
      /\ created' \in [Message -> 0..1]
      /\ \A m \in Message : Grows(m)
      /\ \A q \in Payment, k \in Kind :
           Created(q, k)' <=> Created(q, k) \/ (q = p /\ k \in {"process"})
  BY <1>1, PushOne DEF IInv, Kind, Created, Grows
<1>3. DocInv'
  BY <1>2 DEF IInv, TypeOK, DocInv, DocOK, SetStatus, Has, Delivered, Kind,
     Begun
<1> QED
  BY <1>2, <1>3 DEF IInv, TypeOK, StoreStep, SetStatus, Has, Delivered, Kind,
     Begun, Status

\* Reserve, as a write: only the status changes.
LEMMA ReserveStores ==
  ASSUME IInv, NEW p \in Payment, Has(p, {"PENDING"}), SetStatus(p, "PROCESSING"),
         UNCHANGED <<slots, created>>
  PROVE  StoreStep /\ Has(p, Begun)' /\ ~Created(p, "PROCESSING")'
<1>1. \A q \in Payment, k \in Kind : Created(q, k)' <=> Created(q, k)
  BY DEF Created
<1>2. DocInv' /\ ~Created(p, "PROCESSING")
  BY <1>1 DEF IInv, TypeOK, DocInv, DocOK, SetStatus, Has, Delivered, Kind,
     Begun
<1> QED
  BY <1>1, <1>2 DEF IInv, TypeOK, StoreStep, Grows, SetStatus, Has, Delivered,
     Kind, Begun, Status

\* EnqueueProcessing, as a write.
LEMMA EnqueueStores ==
  ASSUME IInv, NEW p \in Payment, Has(p, Begun), ~Created(p, "PROCESSING"),
         Push({Msg(p, "PROCESSING")}), UNCHANGED payments
  PROVE  /\ StoreStep
         /\ \A q \in Payment \ {p} : Created(q, "PROCESSING")' <=> Created(q, "PROCESSING")
<1>2. /\ slots' \in [Message -> Slot]
      /\ created' \in [Message -> 0..1]
      /\ \A m \in Message : Grows(m)
      /\ \A q \in Payment, k \in Kind :
           Created(q, k)' <=> Created(q, k) \/ (q = p /\ k \in {"PROCESSING"})
  BY PushOne DEF IInv, Kind, Created, Grows
<1>3. DocInv'
  BY <1>2 DEF IInv, TypeOK, DocInv, DocOK, Has, Delivered, Kind, Begun
<1> QED
  BY <1>2, <1>3 DEF IInv, TypeOK, StoreStep, Has, Delivered, Kind

\* MarkFailed stores its announcement once: the payment has left PROCESSING.
LEMMA MarkFailedStores ==
  ASSUME IInv, NEW p \in Payment, MarkFailed(p)
  PROVE  /\ StoreStep
         /\ \A q \in Payment : Created(q, "PROCESSING")' <=> Created(q, "PROCESSING")
         /\ \A q \in Payment : Has(q, {"COMPLETED"})' => Has(q, {"COMPLETED"})
<1>1. CASE ~(Has(p, {"PROCESSING"}))
  BY <1>1, StoreUnchanged DEF MarkFailed, store, Created, Has, Delivered,
     IInv, DocInv, DocOK, TypeOK
<1>2. CASE Has(p, {"PROCESSING"})
  <2>2. SetStatus(p, "FAILED") /\ Push({Msg(p, "FAILED")})
    BY <1>2 DEF MarkFailed
  <2>3. TypeOK /\ ~Created(p, "FAILED")
    BY <1>2 DEF IInv, DocInv, DocOK, Has, Undecided, Delivered
  <2>4. /\ slots' \in [Message -> Slot]
        /\ created' \in [Message -> 0..1]
        /\ \A m \in Message : Grows(m)
        /\ \A q \in Payment, k \in Kind :
             Created(q, k)' <=> Created(q, k) \/ (q = p /\ k \in {"FAILED"})
    BY <2>2, <2>3, PushOne DEF Kind, Created, Grows
  <2>5. DocInv'
    BY <1>2, <2>2, <2>4 DEF IInv, TypeOK, DocInv, DocOK, SetStatus, Has,
       Undecided, Delivered, Kind, Begun
  <2> QED
    BY <1>2, <2>2, <2>4, <2>5 DEF IInv, TypeOK, StoreStep, SetStatus, Has,
       Undecided, Delivered, Kind, Begun, Status
<1> QED BY <1>1, <1>2

\* MarkExpired announces an expiry only of a payment that was not decided.
LEMMA MarkExpiredStores ==
  ASSUME IInv, NEW p \in Payment, MarkExpired(p)
  PROVE  /\ StoreStep
         /\ \A q \in Payment : Created(q, "PROCESSING")' <=> Created(q, "PROCESSING")
         /\ \A q \in Payment : Has(q, {"COMPLETED"})' => Has(q, {"COMPLETED"})
<1>1. CASE ~(Has(p, Undecided))
  BY <1>1, StoreUnchanged DEF MarkExpired, store, Created, Has, Delivered,
     IInv, DocInv, DocOK, TypeOK
<1>2. CASE Has(p, Undecided)
  <2>2. SetStatus(p, "EXPIRED") /\ Push({Msg(p, "EXPIRED")})
    BY <1>2 DEF MarkExpired
  <2>3. TypeOK /\ ~Created(p, "EXPIRED")
    BY <1>2 DEF IInv, DocInv, DocOK, Has, Undecided, Delivered
  <2>4. /\ slots' \in [Message -> Slot]
        /\ created' \in [Message -> 0..1]
        /\ \A m \in Message : Grows(m)
        /\ \A q \in Payment, k \in Kind :
             Created(q, k)' <=> Created(q, k) \/ (q = p /\ k \in {"EXPIRED"})
    BY <2>2, <2>3, PushOne DEF Kind, Created, Grows
  <2>5. DocInv'
    BY <1>2, <2>2, <2>4 DEF IInv, TypeOK, DocInv, DocOK, SetStatus, Has,
       Undecided, Delivered, Kind, Begun
  <2> QED
    BY <1>2, <2>2, <2>4, <2>5 DEF IInv, TypeOK, StoreStep, SetStatus, Has,
       Undecided, Delivered, Kind, Begun, Status
<1> QED BY <1>1, <1>2

\* MarkCompleted announces the completion and requests the delivery, once.
LEMMA MarkCompletedStores ==
  ASSUME IInv, NEW p \in Payment, MarkCompleted(p)
  PROVE  /\ StoreStep
         /\ \A q \in Payment : Created(q, "PROCESSING")' <=> Created(q, "PROCESSING")
         /\ \A q \in Payment : Has(q, {"COMPLETED"})' => Has(q, {"COMPLETED"}) \/ q = p
<1>1. CASE ~(Has(p, Undecided))
  BY <1>1, StoreUnchanged DEF MarkCompleted, store, Created, Has, Delivered,
     IInv, DocInv, DocOK, TypeOK
<1>2. CASE Has(p, Undecided)
  <2>2. SetStatus(p, "COMPLETED") /\ Push({Msg(p, "COMPLETED"), Msg(p, "deliver")})
    BY <1>2 DEF MarkCompleted
  <2>3. TypeOK /\ ~Created(p, "COMPLETED") /\ ~Created(p, "deliver")
    BY <1>2 DEF IInv, DocInv, DocOK, Has, Undecided, Delivered
  <2>4. /\ slots' \in [Message -> Slot]
        /\ created' \in [Message -> 0..1]
        /\ \A m \in Message : Grows(m)
        /\ \A q \in Payment, k \in Kind :
             Created(q, k)' <=> Created(q, k) \/ (q = p /\ k \in {"COMPLETED", "deliver"})
    <3> DEFINE ms == {Msg(p, "COMPLETED"), Msg(p, "deliver")}
    <3>1. /\ ms \in SUBSET Message
          /\ \A m \in Message : m \in ms <=> m = Msg(p, "COMPLETED") \/ m = Msg(p, "deliver")
      BY Messages DEF Kind
    <3>2. Push(ms)
      BY <2>2
    <3> HIDE DEF ms
    <3> QED BY <2>3, <3>1, <3>2, PushTwo DEF Kind, Created, Grows
  <2>5. DocInv'
    BY <1>2, <2>2, <2>4 DEF IInv, TypeOK, DocInv, DocOK, SetStatus, Has,
       Undecided, Delivered, Kind, Begun
  <2> QED
    BY <1>2, <2>2, <2>4, <2>5 DEF IInv, TypeOK, StoreStep, SetStatus, Has,
       Undecided, Delivered, Kind, Begun, Status
<1> QED BY <1>1, <1>2

\* MarkDelivery confirms a completed payment, once.
LEMMA MarkDeliveryStores ==
  ASSUME IInv, NEW p \in Payment, MarkDelivery(p)
  PROVE  /\ StoreStep
         /\ \A q \in Payment : Created(q, "PROCESSING")' <=> Created(q, "PROCESSING")
         /\ \A q \in Payment : Has(q, {"COMPLETED"})' => Has(q, {"COMPLETED"})
         /\ Has(p, {"COMPLETED"}) => Delivered(p)'
<1>1. CASE ~(Has(p, {"COMPLETED"}) /\ payments[p].delivery = "PENDING")
  BY <1>1, StoreUnchanged DEF MarkDelivery, store, Created, Has, Delivered,
     IInv, DocInv, DocOK, TypeOK
<1>2. CASE Has(p, {"COMPLETED"}) /\ payments[p].delivery = "PENDING"
  <2>2. /\ payments' = [payments EXCEPT ![p].delivery = "DELIVERED"]
        /\ Push({Msg(p, "DELIVERED"), Msg(p, "confirmed")})
    BY <1>2 DEF MarkDelivery
  <2>3. TypeOK /\ ~Created(p, "DELIVERED") /\ ~Created(p, "confirmed")
    BY <1>2 DEF IInv, DocInv, DocOK, Has, Undecided, Delivered
  <2>4. /\ slots' \in [Message -> Slot]
        /\ created' \in [Message -> 0..1]
        /\ \A m \in Message : Grows(m)
        /\ \A q \in Payment, k \in Kind :
             Created(q, k)' <=> Created(q, k) \/ (q = p /\ k \in {"DELIVERED", "confirmed"})
    <3> DEFINE ms == {Msg(p, "DELIVERED"), Msg(p, "confirmed")}
    <3>1. /\ ms \in SUBSET Message
          /\ \A m \in Message : m \in ms <=> m = Msg(p, "DELIVERED") \/ m = Msg(p, "confirmed")
      BY Messages DEF Kind
    <3>2. Push(ms)
      BY <2>2
    <3> HIDE DEF ms
    <3> QED BY <2>3, <3>1, <3>2, PushTwo DEF Kind, Created, Grows
  <2>5. DocInv'
    BY <1>2, <2>2, <2>4 DEF IInv, TypeOK, DocInv, DocOK, SetStatus, Has,
       Undecided, Delivered, Kind, Begun
  <2> QED
    BY <1>2, <2>2, <2>4, <2>5 DEF IInv, TypeOK, StoreStep, SetStatus, Has,
       Undecided, Delivered, Kind, Begun, Status
<1> QED BY <1>1, <1>2

-------------------------------------------------------------------------------
(* The consumer. *)

\* A write to a document takes nothing from the publishers.
LEMMA PubKept ==
  ASSUME IInv, StoreStep, UNCHANGED <<sent, dropped, publisher>>
  PROVE  PubInv'
<1>1. NewSlot.in /\ NewSlot.token = Nobody
  BY DEF NewSlot, NoSlot
<1>2. \A m \in Message : SlotOK(m)'
  BY <1>1 DEF IInv, PubInv, SlotOK, StoreStep, Grows, publisher, TypeOK
<1>3. NothingIsLost'
  BY <1>1 DEF IInv, PubInv, NothingIsLost, StoreStep, Grows, publisher
<1> QED
  BY <1>2, <1>3 DEF IInv, TypeOK, PubInv, StoreStep, Grows, publisher

\* A consumer goes on to another place and nothing but documents changes.
LEMMA GoesOn ==
  ASSUME IInv, NEW i \in Instance, StoreStep,
         NEW place \in {"reserved", "gateway", "expire", "done"}, Goes(i, place),
         at[i] # "idle", PaidInv',
         \A j \in Instance \ {i}, p \in Payment :
           Reserved(j) /\ hand[j] = Msg(p, "process") =>
             created'[Msg(p, "PROCESSING")] = 0,
         place = "reserved" =>
           /\ \E p \in Payment : /\ hand[i] = Msg(p, "process")
                                 /\ payments'[p].status \in Begun
                                 /\ created'[Msg(p, "PROCESSING")] = 0
           /\ \A j \in Instance \ {i} : Reserved(j) => hand[j] # hand[i],
         \A p \in Payment :
           /\ at[i] = "received" /\ hand[i] = Msg(p, "deliver")
           /\ sent[Msg(p, "deliver")] > 0
           => payments'[p].delivery = "DELIVERED"
  PROVE  IInv'
<1>1. /\ at' = [at EXCEPT ![i] = place]
      /\ UNCHANGED <<queue, sent, dropped, arrived, past, stale, connected, hand,
                     publisher, pub, batch, current, faults>>
  BY DEF Goes, clocks, publisher
<1>2. TypeOK'
  BY <1>1 DEF IInv, TypeOK, StoreStep
<1>3. PubInv'
  BY <1>1, PubKept
<1>4. HandInv'
  <2>1. ASSUME NEW j \in Instance
        PROVE  /\ at'[j] = "idle" <=> hand[j] = Nothing
               /\ hand[j] \in Callback => hand[j] \in arrived
    BY <1>1 DEF IInv, TypeOK, HandInv
  <2>2. ASSUME NEW j \in Instance, at'[j] = "reserved"
        PROVE  \E p \in Payment : /\ hand[j] = Msg(p, "process")
                                  /\ payments'[p].status \in Begun
                                  /\ created'[Msg(p, "PROCESSING")] = 0
    <3>1. CASE j = i
      BY <1>1, <2>2, <3>1 DEF IInv, TypeOK
    <3>2. CASE j # i
      <4>1. PICK p \in Payment : hand[j] = Msg(p, "process") /\ Has(p, Begun)
        BY <1>1, <2>2, <3>2 DEF IInv, TypeOK, HandInv, Reserved
      <4>2. payments'[p].status \in Begun
        BY <4>1 DEF StoreStep, Has, Begun
      <4>3. created'[Msg(p, "PROCESSING")] = 0
        BY <1>1, <2>2, <3>2, <4>1 DEF IInv, TypeOK, Reserved
      <4> QED BY <4>1, <4>2, <4>3
    <3> QED BY <3>1, <3>2
  <2>3. ASSUME NEW j \in Instance, NEW l \in Instance, j # l,
               at'[j] = "reserved", at'[l] = "reserved"
        PROVE  hand[j] # hand[l]
    BY <1>1, <2>3 DEF IInv, TypeOK, HandInv, Reserved
  <2>4. (queue \cap Callback \subseteq arrived)'
    BY <1>1 DEF IInv, HandInv
  <2>5. \A p \in Payment : created'[Msg(p, "PROCESSING")] = 0 =>
                              ~(created'[Msg(p, "PROCESSING")] > 0)
    OBVIOUS
  <2> QED BY <1>1, <2>1, <2>2, <2>3, <2>4, <2>5 DEF HandInv, Reserved, Has,
     Created, Begun
<1>5. WayInv'
  <2> SUFFICES ASSUME NEW p \in Payment, sent[Msg(p, "deliver")] > 0
               PROVE  \/ payments'[p].delivery = "DELIVERED"
                      \/ Msg(p, "deliver") \in queue
                      \/ \E j \in Instance : /\ connected[j] /\ at'[j] = "received"
                                             /\ hand[j] = Msg(p, "deliver")
    BY <1>1 DEF WayInv, Delivered
  <2>1. CASE Delivered(p)
    BY <2>1 DEF StoreStep, Delivered
  <2>2. ASSUME NEW j \in Instance, connected[j], at[j] = "received",
               hand[j] = Msg(p, "deliver")
        PROVE  payments'[p].delivery = "DELIVERED" \/ at'[j] = "received"
    BY <1>1, <2>2 DEF IInv, TypeOK
  <2> QED BY <2>1, <2>2 DEF IInv, WayInv
<1> QED BY <1>1, <1>2, <1>3, <1>4, <1>5 DEF IInv, StoreStep

\* What the handlers take from the event they have.
LEMMA PayeeIs ==
  ASSUME IInv, NEW i \in Instance, at[i] # "idle"
  PROVE  /\ Payee(i) \in Payment
         /\ hand[i] \in Callback => PaymentOf[hand[i]] = Payee(i)
         /\ \A kind \in Kind : Handles(i, kind) => hand[i] = Msg(Payee(i), kind)
<1>1. hand[i] \in Callback \cup Requests
  BY DEF IInv, TypeOK, HandInv
<1>2. CASE hand[i] \in Callback
  BY <1>2 DEF Payee, Handles
<1>3. CASE hand[i] \in Requests \ Callback
  BY <1>3, Messages DEF Payee, Handles, Requests
<1> QED BY <1>1, <1>2, <1>3

\* The same, for the writes that announce no processing and complete nothing.
LEMMA GoesOnPlainly ==
  ASSUME IInv, NEW i \in Instance, StoreStep,
         NEW place \in {"gateway", "expire", "done"}, Goes(i, place),
         at[i] # "idle",
         \A q \in Payment : Created(q, "PROCESSING")' <=> Created(q, "PROCESSING"),
         \A q \in Payment : Has(q, {"COMPLETED"})' => Has(q, {"COMPLETED"}),
         \A p \in Payment :
           /\ at[i] = "received" /\ hand[i] = Msg(p, "deliver")
           /\ sent[Msg(p, "deliver")] > 0
           => payments'[p].delivery = "DELIVERED"
  PROVE  IInv'
<1>1. PaidInv'
  BY DEF IInv, PaidInv, Has, Goes
<1>2. ASSUME NEW j \in Instance, NEW p \in Payment,
             Reserved(j), hand[j] = Msg(p, "process")
      PROVE  created'[Msg(p, "PROCESSING")] = 0
  <2>1. ~Created(p, "PROCESSING")
    <3>1. PICK q \in Payment : hand[j] = Msg(q, "process") /\ ~Created(q, "PROCESSING")
      BY <1>2 DEF IInv, HandInv
    <3> QED BY <1>2, <3>1, Messages DEF Kind
  <2>2. ~Created(p, "PROCESSING")'
    BY <2>1
  <2> QED BY <2>2, Messages DEF Created, StoreStep, Kind
<1> QED BY <1>1, <1>2, GoesOn

\* The writes that store nothing.
LEMMA GoesOnIdly ==
  ASSUME IInv, NEW i \in Instance, UNCHANGED store,
         NEW place \in {"gateway", "expire", "done"}, Goes(i, place),
         at[i] # "idle",
         \A p \in Payment : at[i] = "received" => hand[i] # Msg(p, "deliver")
  PROVE  IInv'
<1>1. StoreStep
  BY StoreUnchanged
<1>2. /\ \A q \in Payment : Created(q, "PROCESSING")' <=> Created(q, "PROCESSING")
      /\ \A q \in Payment : Has(q, {"COMPLETED"})' => Has(q, {"COMPLETED"})
  BY DEF store, Created, Has
<1> QED BY <1>1, <1>2, GoesOnPlainly

\* Reserve: a document is reserved once, whoever handles its request.
LEMMA ReserveStep == ASSUME IInv, NEW i \in Instance, Reserve(i) PROVE IInv'
<1>1. PICK p \in Payment : p = Payee(i) /\ hand[i] = Msg(p, "process")
  BY PayeeIs DEF Reserve, Kind
<1>2. /\ at[i] = "received"
      /\ Has(p, {"PENDING"}) /\ SetStatus(p, "PROCESSING")
      /\ UNCHANGED <<slots, created>> /\ Goes(i, "reserved")
  BY <1>1 DEF Reserve
<1>3. StoreStep /\ Has(p, Begun)' /\ ~Created(p, "PROCESSING")'
  BY <1>1, <1>2, ReserveStores
<1>4. PaidInv'
  BY <1>1, <1>2 DEF IInv, TypeOK, PaidInv, Has, SetStatus, Goes
<1>5. \A j \in Instance \ {i} : Reserved(j) => hand[j] # hand[i]
  <2> SUFFICES ASSUME NEW j \in Instance \ {i}, Reserved(j), hand[j] = hand[i]
               PROVE  FALSE
    OBVIOUS
  <2>1. PICK q \in Payment : hand[j] = Msg(q, "process") /\ Has(q, Begun)
    BY DEF IInv, HandInv
  <2>2. q = p
    BY <1>1, <2>1, Messages DEF Kind
  <2> QED BY <1>2, <2>1, <2>2 DEF Has, Begun
<1>6. ASSUME NEW j \in Instance \ {i}, NEW q \in Payment,
             Reserved(j), hand[j] = Msg(q, "process")
      PROVE  created'[Msg(q, "PROCESSING")] = 0
  <2>1. PICK r \in Payment : hand[j] = Msg(r, "process") /\ ~Created(r, "PROCESSING")
    BY <1>6 DEF IInv, HandInv
  <2>2. r = q
    BY <1>6, <2>1, Messages DEF Kind
  <2> QED BY <1>2, <2>1, <2>2, Messages DEF Created, Kind, IInv, TypeOK
<1>7. payments'[p].status \in Begun /\ created'[Msg(p, "PROCESSING")] = 0
  BY <1>1, <1>3, Messages DEF Has, Begun, Created, StoreStep, Kind
<1> QED
  BY <1>1, <1>2, <1>3, <1>4, <1>5, <1>6, <1>7, Messages, GoesOn DEF Kind

\* EnqueueProcessing: nobody else is about to announce the same payment.
LEMMA EnqueueStep ==
  ASSUME IInv, NEW i \in Instance, EnqueueProcessing(i) PROVE IInv'
<1>1. PICK p \in Payment : /\ hand[i] = Msg(p, "process")
                           /\ Has(p, Begun) /\ ~Created(p, "PROCESSING")
  BY DEF IInv, HandInv, EnqueueProcessing, Reserved
<1>2. /\ Push({Msg(p, "PROCESSING")}) /\ UNCHANGED payments
      /\ Goes(i, "gateway") /\ at[i] = "reserved"
  <2>1. Payee(i) = p
    <3>1. Msg(p, "process") \in Message /\ Msg(p, "process").payment = p
      BY DEF Message, Msg, Kind
    <3> QED BY <1>1, <3>1 DEF Payee
  <2> QED BY <2>1 DEF EnqueueProcessing
<1>3. /\ StoreStep
      /\ \A q \in Payment \ {p} :
           Created(q, "PROCESSING")' <=> Created(q, "PROCESSING")
  BY <1>1, <1>2, EnqueueStores
<1>4. PaidInv'
  BY <1>2 DEF IInv, PaidInv, Has, Goes
<1>5. ASSUME NEW j \in Instance \ {i}, NEW q \in Payment,
             Reserved(j), hand[j] = Msg(q, "process")
      PROVE  created'[Msg(q, "PROCESSING")] = 0
  <2>1. PICK r \in Payment : hand[j] = Msg(r, "process") /\ ~Created(r, "PROCESSING")
    BY <1>5 DEF IInv, HandInv
  <2>2. r = q
    BY <1>5, <2>1, Messages DEF Kind
  <2>3. hand[j] # hand[i]
    BY <1>2, <1>5 DEF IInv, HandInv, Reserved
  <2>4. ~Created(q, "PROCESSING")'
    BY <1>1, <1>3, <1>5, <2>1, <2>2, <2>3
  <2> QED BY <2>4, <1>3, Messages DEF Created, StoreStep, Kind
<1> QED BY <1>2, <1>3, <1>4, <1>5, GoesOn

\* A request that could not be reserved changes no document.
LEMMA NotReservedStep ==
  ASSUME IInv, NEW i \in Instance, NotReserved(i) PROVE IInv'
<1>1. PICK q \in Payment : hand[i] = Msg(q, "process")
  BY PayeeIs DEF NotReserved, Kind
<1>2. \A p \in Payment : hand[i] # Msg(p, "deliver")
  BY <1>1, Messages DEF Kind
<1> QED BY <1>2, GoesOnIdly DEF NotReserved

\* A callback that is ignored or comes after the expiry changes no document.
LEMMA CallbackStep ==
  ASSUME IInv, NEW i \in Instance, IgnoreCallback(i) \/ LateCallback(i)
  PROVE  IInv'
<1>1. hand[i] \in Callback
  BY DEF IgnoreCallback, LateCallback
<1>2. \A p \in Payment : hand[i] # Msg(p, "deliver")
  BY <1>1, Messages DEF Kind
<1> QED BY <1>2, GoesOnIdly DEF IgnoreCallback, LateCallback

\* The gateway has answered, or failed for good.
LEMMA GatewayStep ==
  ASSUME IInv, NEW i \in Instance, GatewayEnds(i) PROVE IInv'
<1>1. at[i] = "gateway" /\ Goes(i, "done")
  BY DEF GatewayEnds
<1>2. CASE UNCHANGED store
  BY <1>1, <1>2, GoesOnIdly
<1>3. CASE MarkFailed(Payee(i))
  BY <1>1, <1>3, PayeeIs, MarkFailedStores, GoesOnPlainly
<1> QED BY <1>2, <1>3 DEF GatewayEnds

\* An expiry, whatever was decided since the handler looked.
LEMMA ExpireStep ==
  ASSUME IInv, NEW i \in Instance, Expire(i) PROVE IInv'
<1>1. at[i] = "expire" /\ Goes(i, "done") /\ MarkExpired(Payee(i))
  BY DEF Expire
<1> QED BY <1>1, PayeeIs, MarkExpiredStores, GoesOnPlainly

\* A delivery request that has had its effect is no longer needed.
LEMMA HandleDeliveryStep ==
  ASSUME IInv, NEW i \in Instance, HandleDelivery(i) PROVE IInv'
<1>1. PICK p \in Payment : p = Payee(i) /\ hand[i] = Msg(p, "deliver")
  BY PayeeIs DEF HandleDelivery, Kind
<1>2. at[i] = "received" /\ Goes(i, "done") /\ MarkDelivery(p)
  BY <1>1 DEF HandleDelivery
<1>3. /\ StoreStep
      /\ \A q \in Payment : Created(q, "PROCESSING")' <=> Created(q, "PROCESSING")
      /\ \A q \in Payment : Has(q, {"COMPLETED"})' => Has(q, {"COMPLETED"})
      /\ Has(p, {"COMPLETED"}) => Delivered(p)'
  BY <1>2, MarkDeliveryStores
<1>4. ASSUME NEW q \in Payment, hand[i] = Msg(q, "deliver"),
             sent[Msg(q, "deliver")] > 0
      PROVE  payments'[q].delivery = "DELIVERED"
  <2>1. q = p
    BY <1>1, <1>4, Messages DEF Kind
  <2>2. Created(q, "deliver")
    BY <1>4, Messages DEF IInv, PubInv, SlotOK, Created, Kind
  <2>3. Has(q, {"COMPLETED"})
    BY <2>2 DEF IInv, DocInv, DocOK
  <2> QED BY <1>3, <2>1, <2>3 DEF Delivered
<1> QED BY <1>2, <1>3, <1>4, GoesOnPlainly

\* A confirmed payment has the callback that confirmed it.
LEMMA ConfirmStep ==
  ASSUME IInv, NEW i \in Instance, ConfirmPayment(i) PROVE IInv'
<1>1. PICK p \in Payment : p = Payee(i) /\ PaymentOf[hand[i]] = p
  BY PayeeIs DEF ConfirmPayment
<1>2. /\ at[i] = "received" /\ Goes(i, "done") /\ MarkCompleted(p)
      /\ hand[i] \in Callback /\ hand[i] \in arrived \cap InTime \cap Matching
  BY <1>1 DEF ConfirmPayment, IInv, HandInv
<1>3. /\ StoreStep
      /\ \A q \in Payment : Created(q, "PROCESSING")' <=> Created(q, "PROCESSING")
      /\ \A q \in Payment : Has(q, {"COMPLETED"})' => Has(q, {"COMPLETED"}) \/ q = p
  BY <1>2, MarkCompletedStores
<1>4. PaidInv'
  <2> SUFFICES ASSUME NEW q \in Payment, Has(q, {"COMPLETED"})'
               PROVE  \E cb \in arrived \cap InTime \cap Matching : PaymentOf[cb] = q
    BY <1>2 DEF PaidInv, Has, Goes
  <2>1. CASE Has(q, {"COMPLETED"})
    BY <2>1 DEF IInv, PaidInv
  <2>2. CASE q = p
    BY <2>2, <1>1, <1>2
  <2> QED BY <1>3, <2>1, <2>2
<1>5. ASSUME NEW j \in Instance, NEW q \in Payment,
             Reserved(j), hand[j] = Msg(q, "process")
      PROVE  created'[Msg(q, "PROCESSING")] = 0
  <2>1. PICK r \in Payment : hand[j] = Msg(r, "process") /\ ~Created(r, "PROCESSING")
    BY <1>5 DEF IInv, HandInv
  <2>2. r = q
    BY <1>5, <2>1, Messages DEF Kind
  <2>3. ~Created(q, "PROCESSING")'
    BY <1>3, <2>1, <2>2
  <2> QED BY <2>3, <1>3, Messages DEF Created, StoreStep, Kind
<1>6. \A q \in Payment : hand[i] # Msg(q, "deliver")
  BY <1>2, Messages DEF Kind
<1> QED BY <1>2, <1>3, <1>4, <1>5, <1>6, GoesOn

-------------------------------------------------------------------------------
(* What a step that leaves the documents alone keeps. *)

\* The documents, what they announce and the callbacks behind them.
LEMMA DocKept ==
  ASSUME IInv, UNCHANGED <<payments, created>>, arrived \subseteq arrived'
  PROVE  DocInv' /\ PaidInv'
<1>1. DocInv'
  BY DEF IInv, DocInv, DocOK, Created, Has, Delivered
<1>2. PaidInv'
  BY DEF IInv, PaidInv, Has
<1> QED BY <1>1, <1>2

\* What the consumers handle.
LEMMA HandKept ==
  ASSUME IInv, UNCHANGED <<payments, created, queue, arrived, consumer>>
  PROVE  HandInv'
BY DEF IInv, HandInv, consumer, Reserved, Created, Has, Begun

\* What the publishers hold.
LEMMA TickKept ==
  ASSUME IInv, UNCHANGED <<slots, created, sent, dropped, publisher>>
  PROVE  PubInv'
BY DEF IInv, PubInv, SlotOK, NothingIsLost, publisher

\* Where the delivery requests are.
LEMMA WayKept ==
  ASSUME IInv, UNCHANGED <<payments, queue, sent, connected, consumer>>
  PROVE  WayInv'
BY DEF IInv, WayInv, Delivered, consumer

-------------------------------------------------------------------------------
(* Events. *)

\* A new payment has announced nothing but itself.
LEMMA CreateStep ==
  ASSUME IInv, NEW p \in Payment, CreatePayment(p) PROVE IInv'
<1>1. /\ Has(p, {"ABSENT"}) /\ SetStatus(p, "PENDING") /\ Push({Msg(p, "process")})
      /\ UNCHANGED <<queue, sent, dropped, arrived, clocks, past, stale, connected,
                     consumer, hand, at, publisher, pub, batch, current, faults>>
  BY DEF CreatePayment, clocks, consumer, publisher
<1>2. /\ StoreStep
      /\ \A q \in Payment : Created(q, "PROCESSING")' <=> Created(q, "PROCESSING")
  BY <1>1, CreateStores
<1>3. TypeOK'
  BY <1>1, <1>2 DEF IInv, TypeOK, StoreStep
<1>4. PaidInv'
  BY <1>1 DEF IInv, TypeOK, PaidInv, Has, SetStatus
<1>5. PubInv'
  BY <1>1, <1>2, PubKept
<1>6. HandInv'
  <2>1. ASSUME NEW i \in Instance, Reserved(i)
        PROVE  \E q \in Payment : /\ hand[i] = Msg(q, "process")
                                  /\ Has(q, Begun)'
                                  /\ ~Created(q, "PROCESSING")'
    <3>1. PICK q \in Payment : /\ hand[i] = Msg(q, "process")
                               /\ Has(q, Begun) /\ ~Created(q, "PROCESSING")
      BY <2>1 DEF IInv, HandInv
    <3>2. Has(q, Begun)' /\ ~Created(q, "PROCESSING")'
      BY <3>1, <1>2 DEF StoreStep
    <3> QED BY <3>1, <3>2
  <2> QED BY <1>1, <2>1 DEF IInv, HandInv, Reserved, Has, Created, Begun
<1>7. WayInv'
  BY <1>1, <1>2 DEF IInv, WayInv, StoreStep, Delivered
<1> QED BY <1>2, <1>3, <1>4, <1>5, <1>6, <1>7 DEF IInv, StoreStep

\* An event enters the queue.
LEMMA ArriveStep ==
  ASSUME IInv, NEW cb \in Callback, Arrive(cb) PROVE IInv'
<1>1. /\ arrived' = arrived \cup {cb} /\ queue' = queue \cup {cb}
      /\ UNCHANGED <<payments, slots, created, sent, dropped, past, stale,
                     connected, hand, at, publisher, pub, batch, current, faults>>
  BY DEF Arrive, store, clocks, consumer, publisher
<1>2. TypeOK'
  BY <1>1 DEF IInv, TypeOK
<1>3. DocInv' /\ PaidInv'
  BY <1>1, DocKept
<1>4. HandInv'
  BY <1>1 DEF IInv, HandInv, Reserved, Created, Has, Begun
<1>5. PubInv'
  BY <1>1, TickKept
<1>6. WayInv'
  BY <1>1 DEF IInv, WayInv, Delivered
<1> QED BY <1>2, <1>3, <1>4, <1>5, <1>6 DEF IInv

\* An event goes from the queue to a consumer that can hand it back.
LEMMA ReceiveStep ==
  ASSUME IInv, NEW i \in Instance, Receive(i) PROVE IInv'
<1>1. PICK e \in queue : hand' = [hand EXCEPT ![i] = e] /\ queue' = queue \ {e}
  BY DEF Receive
<1>2. /\ at[i] = "idle" /\ connected[i] /\ at' = [at EXCEPT ![i] = "received"]
      /\ UNCHANGED <<payments, slots, created, sent, dropped, arrived, past, stale,
                     connected, publisher, pub, batch, current, faults>>
  BY DEF Receive, store, clocks, publisher
<1>3. TypeOK'
  BY <1>1, <1>2 DEF IInv, TypeOK
<1>4. DocInv' /\ PaidInv'
  BY <1>2, DocKept
<1>5. HandInv'
  <2>1. e \in Callback \cup Requests /\ e # Nothing
    BY <1>1, Messages DEF IInv, TypeOK
  <2> QED BY <1>1, <1>2, <2>1 DEF IInv, TypeOK, HandInv, Reserved, Created,
     Has, Begun
<1>6. PubInv'
  BY <1>2, TickKept
<1>7. WayInv'
  BY <1>1, <1>2 DEF IInv, TypeOK, WayInv, Delivered
<1> QED BY <1>3, <1>4, <1>5, <1>6, <1>7 DEF IInv

\* An acknowledged event has had its effect.
LEMMA AckStep ==
  ASSUME IInv, NEW i \in Instance, Ack(i) PROVE IInv'
<1>1. /\ at[i] = "done" /\ at' = [at EXCEPT ![i] = "idle"]
      /\ hand' = [hand EXCEPT ![i] = Nothing]
      /\ UNCHANGED <<payments, slots, created, queue, sent, dropped, arrived, past,
                     stale, connected, publisher, pub, batch, current, faults>>
  BY DEF Ack, store, clocks, publisher
<1>2. TypeOK'
  BY <1>1 DEF IInv, TypeOK
<1>3. DocInv' /\ PaidInv'
  BY <1>1, DocKept
<1>4. HandInv'
  BY <1>1 DEF IInv, TypeOK, HandInv, Reserved, Created, Has, Begun
<1>5. PubInv'
  BY <1>1, TickKept
<1>6. WayInv'
  BY <1>1 DEF IInv, TypeOK, WayInv, Delivered
<1> QED BY <1>2, <1>3, <1>4, <1>5, <1>6 DEF IInv

\* What the queue holds once the event of i is handed back to it.
LEMMA RequeuedIs ==
  ASSUME IInv, NEW i \in Instance
  PROVE  /\ Requeued(i) \subseteq Callback \cup Requests
         /\ Requeued(i) \cap Callback \subseteq arrived
         /\ queue \subseteq Requeued(i)
         /\ connected[i] /\ hand[i] # Nothing => hand[i] \in Requeued(i)
BY DEF IInv, TypeOK, HandInv, Requeued

\* An event that is delivered again waits in the queue.
LEMMA RedeliverStep ==
  ASSUME IInv, NEW i \in Instance, Redeliver(i) PROVE IInv'
<1>1. /\ at' = [at EXCEPT ![i] = "idle"] /\ hand' = [hand EXCEPT ![i] = Nothing]
      /\ queue' = Requeued(i) /\ faults < MaxFaults /\ faults' = faults + 1
      /\ UNCHANGED <<payments, slots, created, sent, dropped, arrived, past,
                     stale, connected, publisher, pub, batch, current>>
  BY DEF Redeliver, Fault, store, clocks, publisher
<1>2. TypeOK'
  BY <1>1, RequeuedIs DEF IInv, TypeOK
<1>3. DocInv' /\ PaidInv'
  BY <1>1, DocKept
<1>4. HandInv'
  BY <1>1, RequeuedIs DEF IInv, TypeOK, HandInv, Reserved, Created, Has, Begun
<1>5. PubInv'
  BY <1>1, TickKept
<1>6. WayInv'
  <2>1. \A p \in Payment : Msg(p, "deliver") # Nothing
    BY Messages DEF Kind
  <2> QED BY <1>1, <2>1, RequeuedIs DEF IInv, TypeOK, WayInv, Delivered
<1> QED BY <1>2, <1>3, <1>4, <1>5, <1>6 DEF IInv

-------------------------------------------------------------------------------
(* The publisher. *)

\* A claim changes who works on a message, not whether it is stored.
LEMMA ClaimStep ==
  ASSUME IInv, NEW i \in Instance, ClaimPending(i) PROVE IInv'
<1>1. PICK ms \in SUBSET {m \in Message : Claimable(m)} :
        \/ /\ slots' = Claimed(ms, i)
           /\ batch' = [batch EXCEPT ![i] = ms]
           /\ pub' = [pub EXCEPT ![i] = "publishing"]
           /\ UNCHANGED faults
        \/ /\ Fault("database")
           /\ slots' = Claimed(ms, Nobody)
           /\ UNCHANGED <<batch, pub>>
  BY DEF ClaimPending
<1>2. UNCHANGED <<payments, created, queue, sent, dropped, arrived, past, stale,
                  connected, consumer, hand, at, current>>
  BY DEF ClaimPending, clocks, consumer
<1>3. /\ ms \subseteq Message
      /\ \A m \in ms : slots[m].in
      /\ \A m \in Message : /\ slots'[m] \in Slot
                            /\ slots'[m].in = slots[m].in
                            /\ slots'[m].token # Nobody => slots'[m].in
      /\ slots' \in [Message -> Slot]
  <2>1. PICK o \in Instance \cup {Nobody} : slots' = Claimed(ms, o)
    BY <1>1
  <2>2. ms \subseteq Message /\ \A m \in ms : slots[m].in
    BY DEF Claimable
  <2>3. ASSUME NEW m \in Message
        PROVE  /\ slots'[m] \in Slot
               /\ slots'[m].in = slots[m].in
               /\ slots'[m].token # Nobody => slots'[m].in
    <3>1. slots[m] \in Slot /\ (slots[m].token # Nobody => slots[m].in)
      BY DEF IInv, TypeOK, PubInv, SlotOK
    <3>2. CASE m \in ms
      <4>1. slots'[m] = [slots[m] EXCEPT !.leased = TRUE, !.token = o]
        BY <2>1, <3>2 DEF Claimed
      <4>2. slots'[m] \in Slot /\ slots'[m].in = slots[m].in
        BY <3>1, <4>1 DEF Slot
      <4> QED BY <2>2, <3>2, <4>2
    <3>3. CASE m \notin ms
      BY <2>1, <3>1, <3>3 DEF Claimed
    <3> QED BY <3>2, <3>3
  <2>4. slots' \in [Message -> Slot]
    BY <2>1, <2>3 DEF Claimed
  <2> QED BY <2>2, <2>3, <2>4
<1>4. /\ batch' \in [Instance -> SUBSET Message]
      /\ pub' \in [Instance -> {"idle", "publishing", "ack", "retry"}]
      /\ faults' \in 0..MaxFaults
      /\ \A j \in Instance : batch'[j] = batch[j] \/ batch'[j] = ms
      /\ \A j \in Instance : pub'[j] = pub[j] \/ pub'[j] = "publishing"
  <2>1. CASE /\ batch' = [batch EXCEPT ![i] = ms]
             /\ pub' = [pub EXCEPT ![i] = "publishing"] /\ UNCHANGED faults
    BY <2>1, <1>3 DEF IInv, TypeOK
  <2>2. CASE Fault("database") /\ UNCHANGED <<batch, pub>>
    BY <2>2 DEF IInv, TypeOK, Fault
  <2> QED BY <1>1, <2>1, <2>2
<1>5. TypeOK'
  BY <1>2, <1>3, <1>4 DEF IInv, TypeOK
<1>6. PubInv'
  <2>1. \A m \in Message : SlotOK(m)'
    BY <1>2, <1>3 DEF IInv, PubInv, SlotOK
  <2>2. NothingIsLost'
    BY <1>2, <1>3 DEF IInv, PubInv, NothingIsLost
  <2>3. \A m \in ms : created[m] > 0
    BY <1>3 DEF IInv, PubInv, SlotOK
  <2> QED BY <1>2, <1>4, <2>1, <2>2, <2>3 DEF IInv, PubInv
<1> QED BY <1>2, <1>5, <1>6, DocKept, HandKept, WayKept DEF IInv

\* A published request waits in the queue.
LEMMA PublishStep ==
  ASSUME IInv, NEW i \in Instance, Publish(i) PROVE IInv'
<1>1. PICK m \in batch[i] :
        /\ batch' = [batch EXCEPT ![i] = batch[i] \ {m}]
        /\ current' = [current EXCEPT ![i] = m]
        /\ \/ /\ sent' = [sent EXCEPT ![m] = sent[m] + 1]
              /\ queue' = queue \cup ({m} \cap Requests)
              /\ pub' = [pub EXCEPT ![i] = "ack"]
           \/ /\ UNCHANGED <<sent, queue>>
              /\ pub' = [pub EXCEPT ![i] = "retry"]
  BY DEF Publish, Takes
<1>2. UNCHANGED <<payments, slots, created, dropped, arrived, past, stale,
                  connected, consumer, hand, at, faults>>
  BY DEF Publish, store, clocks, consumer
<1>3. m \in Message /\ created[m] > 0
  BY DEF IInv, TypeOK, PubInv
<1>4. /\ sent' \in [Message -> Nat]
      /\ \A n \in Message : sent[n] > 0 => sent'[n] > 0
      /\ \A n \in Message : sent'[n] > 0 => sent[n] > 0 \/ n = m
      /\ \A n \in Message :
           sent'[n] > 0 => sent[n] > 0 \/ {n} \cap Requests \subseteq queue'
  <2>1. sent \in [Message -> Nat]
    BY DEF IInv, TypeOK
  <2>2. CASE sent' = sent
    BY <2>1, <2>2
  <2>3. CASE /\ sent' = [sent EXCEPT ![m] = sent[m] + 1]
             /\ queue' = queue \cup ({m} \cap Requests)
    <3>1. \A n \in Message : sent'[n] = IF n = m THEN sent[n] + 1 ELSE sent[n]
      BY <2>1, <2>3
    <3>2. sent' \in [Message -> Nat]
      BY <2>1, <2>3, <1>3
    <3> QED BY <2>1, <2>3, <3>1, <3>2
  <2> QED BY <1>1, <2>2, <2>3
<1>5. /\ queue' \subseteq Callback \cup Requests
      /\ queue \subseteq queue'
      /\ queue' \cap Callback = queue \cap Callback
  BY <1>1, <1>3 DEF IInv, TypeOK
<1>6. TypeOK'
  BY <1>1, <1>2, <1>3, <1>4, <1>5 DEF IInv, TypeOK
<1>7. HandInv'
  BY <1>2, <1>5 DEF IInv, HandInv, Reserved, Created, Has, Begun
<1>8. PubInv'
  <2>1. \A n \in Message : SlotOK(n)'
    BY <1>2, <1>3, <1>4 DEF IInv, PubInv, SlotOK
  <2>2. NothingIsLost'
    BY <1>2, <1>4 DEF IInv, PubInv, NothingIsLost
  <2>3. ASSUME NEW j \in Instance
        PROVE  /\ \A n \in batch'[j] : created[n] > 0
               /\ pub'[j] \in {"ack", "retry"} => current'[j] \in Message
               /\ pub'[j] = "ack" => sent'[current'[j]] > 0 \/ current'[j] \in dropped
    <3>1. CASE j = i
      BY <1>1, <1>3, <3>1 DEF IInv, TypeOK, PubInv
    <3>2. CASE j # i
      BY <1>1, <1>4, <3>2 DEF IInv, TypeOK, PubInv
    <3> QED BY <3>1, <3>2
  <2> QED BY <1>2, <2>1, <2>2, <2>3 DEF PubInv
<1>9. WayInv'
  <2> SUFFICES ASSUME NEW p \in Payment, sent'[Msg(p, "deliver")] > 0
               PROVE  \/ payments[p].delivery = "DELIVERED"
                      \/ Msg(p, "deliver") \in queue'
                      \/ \E j \in Instance : /\ connected[j] /\ at[j] = "received"
                                             /\ hand[j] = Msg(p, "deliver")
    BY <1>2 DEF WayInv, Delivered
  <2>1. Msg(p, "deliver") \in Requests /\ Msg(p, "deliver") \in Message
    BY Messages
  <2>2. CASE sent[Msg(p, "deliver")] > 0
    BY <2>2, <1>5 DEF IInv, WayInv, Delivered
  <2>3. CASE ~(sent[Msg(p, "deliver")] > 0)
    BY <2>1, <2>3, <1>4
  <2> QED BY <2>2, <2>3
<1> QED BY <1>2, <1>6, <1>7, <1>8, <1>9, DocKept DEF IInv

\* A consumer whose connection closes hands its event back, and goes on.
LEMMA DisconnectedWay ==
  ASSUME IInv, NEW i \in Instance, queue' = Requeued(i),
         connected' = [connected EXCEPT ![i] = FALSE],
         UNCHANGED <<payments, created, arrived, sent, consumer>>
  PROVE  HandInv' /\ WayInv'
<1>1. HandInv'
  BY RequeuedIs DEF IInv, HandInv, consumer, Reserved, Created, Has, Begun
<1>2. WayInv'
  <2>1. \A p \in Payment : Msg(p, "deliver") # Nothing
    BY Messages DEF Kind
  <2> QED BY <2>1, RequeuedIs DEF IInv, TypeOK, WayInv, Delivered, consumer
<1> QED BY <1>1, <1>2

\* A message written to a dead connection is remembered as dropped.
LEMMA InVainStep ==
  ASSUME IInv, NEW i \in Instance, PublishInVain(i) PROVE IInv'
<1>1. PICK m \in batch[i] : /\ batch' = [batch EXCEPT ![i] = batch[i] \ {m}]
                            /\ current' = [current EXCEPT ![i] = m]
                            /\ dropped' = dropped \cup {m}
  BY DEF PublishInVain, Takes
<1>2. /\ connected' = [connected EXCEPT ![i] = FALSE]
      /\ queue' = Requeued(i) /\ pub' = [pub EXCEPT ![i] = "ack"]
      /\ faults < MaxFaults /\ faults' = faults + 1
      /\ UNCHANGED <<payments, slots, created, sent, arrived, past, stale,
                     consumer, hand, at>>
  BY DEF PublishInVain, Fault, store, clocks, consumer
<1>3. m \in Message /\ created[m] > 0
  BY DEF IInv, TypeOK, PubInv
<1>4. TypeOK'
  BY <1>1, <1>2, <1>3, RequeuedIs DEF IInv, TypeOK
<1>5. PubInv'
  <2>1. \A n \in Message : SlotOK(n)'
    BY <1>2 DEF IInv, PubInv, SlotOK
  <2>2. NothingIsLost'
    BY <1>1, <1>2 DEF IInv, PubInv, NothingIsLost
  <2>3. ASSUME NEW j \in Instance
        PROVE  /\ \A n \in batch'[j] : created[n] > 0
               /\ pub'[j] \in {"ack", "retry"} => current'[j] \in Message
               /\ pub'[j] = "ack" => sent[current'[j]] > 0 \/ current'[j] \in dropped'
    <3>1. CASE j = i
      BY <1>1, <1>2, <1>3, <3>1 DEF IInv, TypeOK, PubInv
    <3>2. CASE j # i
      BY <1>1, <1>2, <3>2 DEF IInv, TypeOK, PubInv
    <3> QED BY <3>1, <3>2
  <2> QED BY <1>2, <2>1, <2>2, <2>3 DEF PubInv
<1> QED BY <1>2, <1>4, <1>5, DocKept, DisconnectedWay DEF IInv

\* The end of the work on one message: it is removed if it was published.
LEMMA SettleStep ==
  ASSUME IInv, NEW i \in Instance,
         NEW slot \in {NoSlot, [NewSlot EXCEPT !.due = FALSE]},
         pub[i] \in {"ack", "retry"}, slot = NoSlot => pub[i] = "ack", Settle(i, slot)
  PROVE  IInv'
<1>1. /\ current[i] \in Message
      /\ pub[i] = "ack" => sent[current[i]] > 0 \/ current[i] \in dropped
  BY DEF IInv, PubInv
<1>2. PICK m \in Message : m = current[i]
  BY <1>1
<1>3. /\ \/ slots' = (IF slots[m].token = i THEN [slots EXCEPT ![m] = slot] ELSE slots)
            /\ UNCHANGED faults
         \/ /\ faults < MaxFaults /\ faults' = faults + 1
            /\ slots' = [slots EXCEPT ![m].token =
                           IF slots[m].token = i THEN Nobody ELSE slots[m].token]
      /\ pub' = [pub EXCEPT ![i] = IF batch[i] = {} THEN "idle" ELSE "publishing"]
      /\ current' = [current EXCEPT ![i] = Nothing]
      /\ UNCHANGED <<payments, created, queue, sent, dropped, arrived, past, stale,
                     connected, consumer, hand, at, batch>>
  BY <1>2 DEF Settle, Fault, clocks, consumer
<1>4. /\ slot \in Slot /\ slot.token = Nobody
      /\ slot.in \/ slot = NoSlot
      /\ ~NoSlot.in
  <2>1. NoSlot \in Slot /\ NoSlot.token = Nobody /\ ~NoSlot.in
    BY DEF NoSlot, Slot
  <2>2. NewSlot \in Slot /\ NewSlot.token = Nobody /\ NewSlot.in
    BY DEF NewSlot, NoSlot, Slot
  <2>3. CASE slot = [NewSlot EXCEPT !.due = FALSE]
    BY <2>1, <2>2, <2>3 DEF Slot
  <2> QED BY <2>1, <2>3
<1>5. /\ slots' \in [Message -> Slot]
      /\ \A n \in Message : n # m => slots'[n] = slots[n]
      /\ \/ slots'[m] = slots[m]
         \/ slots'[m] = slot /\ slots[m].token = i
         \/ /\ slots'[m].in = slots[m].in
            /\ slots'[m].token \in {Nobody, slots[m].token}
      /\ faults' \in 0..MaxFaults
  <2>1. CASE slots' = (IF slots[m].token = i THEN [slots EXCEPT ![m] = slot] ELSE slots)
             /\ UNCHANGED faults
    BY <2>1, <1>4 DEF IInv, TypeOK
  <2>2. CASE /\ faults < MaxFaults /\ faults' = faults + 1
             /\ slots' = [slots EXCEPT ![m].token =
                            IF slots[m].token = i THEN Nobody ELSE slots[m].token]
    <3>1. slots[m] \in Slot /\ slots \in [Message -> Slot]
      BY DEF IInv, TypeOK
    <3>2. PICK o \in Instance \cup {Nobody} :
            /\ o = IF slots[m].token = i THEN Nobody ELSE slots[m].token
            /\ slots' = [slots EXCEPT ![m].token = o]
      BY <2>2, <3>1 DEF Slot
    <3>3. slots' = [slots EXCEPT ![m] = [slots[m] EXCEPT !.token = o]]
      BY <3>2
    <3>4. slots'[m] = [slots[m] EXCEPT !.token = o]
      BY <3>1, <3>3
    <3>5. slots'[m] \in Slot /\ slots'[m].in = slots[m].in /\ slots'[m].token = o
      BY <3>1, <3>4 DEF Slot
    <3>6. /\ slots' \in [Message -> Slot]
          /\ \A n \in Message : n # m => slots'[n] = slots[n]
      BY <3>1, <3>3, <3>4, <3>5
    <3>7. faults' \in 0..MaxFaults
      BY <2>2 DEF IInv, TypeOK
    <3>8. o = Nobody \/ o = slots[m].token
      BY <3>2
    <3> QED BY <3>5, <3>6, <3>7, <3>8
  <2> QED BY <1>3, <2>1, <2>2
<1>6. TypeOK'
  BY <1>3, <1>5 DEF IInv, TypeOK
<1>7. PubInv'
  <2>1. i # Nobody
    OBVIOUS
  <2>2. \A n \in Message : SlotOK(n)'
    BY <1>3, <1>4, <1>5, <2>1 DEF IInv, PubInv, SlotOK
  <2>3. NothingIsLost'
    BY <1>1, <1>2, <1>3, <1>4, <1>5 DEF IInv, PubInv, NothingIsLost
  <2>4. \A j \in Instance : /\ pub'[j] \in {"ack", "retry"} => j # i /\ pub[j] = pub'[j]
                            /\ j # i => current'[j] = current[j]
    BY <1>3 DEF IInv, TypeOK
  <2> QED BY <1>3, <2>2, <2>3, <2>4 DEF IInv, PubInv
<1> QED BY <1>3, <1>6, <1>7, DocKept, HandKept, WayKept DEF IInv

-------------------------------------------------------------------------------
(* Time and failures. *)

\* Time passes over documents and callbacks.
LEMMA ClockStep ==
  ASSUME IInv,
         \/ \E p \in Payment : Expiry(p)
         \/ \E cb \in Callback : Age(cb)
  PROVE  IInv'
<1>1. /\ past' \subseteq Payment /\ stale' \subseteq Callback
      /\ UNCHANGED <<payments, slots, created, queue, sent, dropped, arrived,
                     connected, consumer, hand, at, publisher, pub, batch, current,
                     faults>>
  BY DEF Expiry, Age, store, consumer, publisher, IInv, TypeOK
<1>2. TypeOK'
  BY <1>1 DEF IInv, TypeOK
<1> QED BY <1>1, <1>2, DocKept, HandKept, TickKept, WayKept DEF IInv

\* A retry falls due or a claim runs out: the message stays where it is.
LEMMA SlotStep ==
  ASSUME IInv, NEW m \in Message, RetryFallsDue(m) \/ LeaseExpires(m)
  PROVE  IInv'
<1>1. /\ \/ slots' = [slots EXCEPT ![m].due = TRUE]
         \/ slots' = [slots EXCEPT ![m].leased = FALSE]
      /\ UNCHANGED <<payments, created, queue, sent, dropped, arrived, past, stale,
                     connected, consumer, hand, at, publisher, pub, batch, current>>
  BY DEF RetryFallsDue, LeaseExpires, clocks, consumer, publisher
<1>2. faults' \in 0..MaxFaults
  BY DEF IInv, TypeOK, RetryFallsDue, LeaseExpires, Fault
<1>3. /\ slots' \in [Message -> Slot]
      /\ \A n \in Message : /\ slots'[n].in = slots[n].in
                            /\ slots'[n].token = slots[n].token
  <2>1. slots \in [Message -> Slot] /\ slots[m] \in Slot
    BY DEF IInv, TypeOK
  <2>2. PICK r \in Slot : /\ r.in = slots[m].in /\ r.token = slots[m].token
                          /\ slots' = [slots EXCEPT ![m] = r]
    <3>1. CASE slots' = [slots EXCEPT ![m].due = TRUE]
      <4>1. [slots[m] EXCEPT !.due = TRUE] \in Slot
        BY <2>1 DEF Slot
      <4> QED BY <2>1, <3>1, <4>1 DEF Slot
    <3>2. CASE slots' = [slots EXCEPT ![m].leased = FALSE]
      <4>1. [slots[m] EXCEPT !.leased = FALSE] \in Slot
        BY <2>1 DEF Slot
      <4> QED BY <2>1, <3>2, <4>1 DEF Slot
    <3> QED BY <1>1, <3>1, <3>2
  <2> QED BY <2>1, <2>2
<1>4. TypeOK'
  BY <1>1, <1>2, <1>3 DEF IInv, TypeOK
<1>5. PubInv'
  BY <1>1, <1>3 DEF IInv, PubInv, SlotOK, NothingIsLost, publisher
<1> QED BY <1>1, <1>4, <1>5, DocKept, HandKept, WayKept DEF IInv

\* A process loses its connection.
LEMMA LoseStep ==
  ASSUME IInv, NEW i \in Instance, LoseConnection(i) PROVE IInv'
<1>1. /\ connected' = [connected EXCEPT ![i] = FALSE]
      /\ queue' = Requeued(i) /\ faults < MaxFaults /\ faults' = faults + 1
      /\ UNCHANGED <<payments, slots, created, sent, dropped, arrived, past, stale,
                     consumer, hand, at, publisher, pub, batch, current>>
  BY DEF LoseConnection, Fault, store, clocks, consumer, publisher
<1>2. TypeOK'
  BY <1>1, RequeuedIs DEF IInv, TypeOK
<1> QED BY <1>1, <1>2, DocKept, TickKept, DisconnectedWay DEF IInv

\* A crash leaves the claims of the process to run out, and hands its event back.
LEMMA CrashStep ==
  ASSUME IInv, NEW i \in Instance, Crash(i) PROVE IInv'
<1>1. /\ slots' = [m \in Message |-> [slots[m] EXCEPT !.token =
                                        IF @ = i THEN Nobody ELSE @]]
      /\ queue' = Requeued(i)
      /\ connected' = [connected EXCEPT ![i] = TRUE]
      /\ hand' = [hand EXCEPT ![i] = Nothing]
      /\ at' = [at EXCEPT ![i] = "idle"]
      /\ pub' = [pub EXCEPT ![i] = "idle"]
      /\ batch' = [batch EXCEPT ![i] = {}]
      /\ current' = [current EXCEPT ![i] = Nothing]
      /\ faults < MaxFaults /\ faults' = faults + 1
      /\ UNCHANGED <<payments, created, sent, dropped, arrived, past, stale>>
  BY DEF Crash, Fault, clocks
<1>2. /\ slots' \in [Message -> Slot]
      /\ \A m \in Message : /\ slots'[m].in = slots[m].in
                            /\ slots'[m].token \in {Nobody, slots[m].token}
  <2>1. ASSUME NEW m \in Message
        PROVE  /\ slots'[m] \in Slot
               /\ slots'[m].in = slots[m].in
               /\ slots'[m].token \in {Nobody, slots[m].token}
    <3>1. slots[m] \in Slot
      BY DEF IInv, TypeOK
    <3>2. PICK o \in {Nobody, slots[m].token} :
            slots'[m] = [slots[m] EXCEPT !.token = o]
      BY <1>1
    <3> QED BY <3>1, <3>2 DEF Slot
  <2> QED BY <1>1, <2>1
<1>3. TypeOK'
  <2>1. queue' \subseteq Callback \cup Requests
    BY <1>1, RequeuedIs
  <2> QED BY <1>1, <1>2, <2>1 DEF IInv, TypeOK
<1>4. HandInv'
  BY <1>1, RequeuedIs DEF IInv, TypeOK, HandInv, Reserved, Created, Has, Begun
<1>5. PubInv'
  <2>1. \A m \in Message : SlotOK(m)'
    BY <1>1, <1>2 DEF IInv, PubInv, SlotOK
  <2>2. NothingIsLost'
    BY <1>1, <1>2 DEF IInv, PubInv, NothingIsLost
  <2>3. \A j \in Instance : \/ /\ batch'[j] = batch[j] /\ pub'[j] = pub[j]
                               /\ current'[j] = current[j]
                            \/ batch'[j] = {} /\ pub'[j] = "idle"
    BY <1>1 DEF IInv, TypeOK
  <2> QED BY <1>1, <2>1, <2>2, <2>3 DEF IInv, PubInv
<1>6. WayInv'
  <2>1. \A p \in Payment : Msg(p, "deliver") # Nothing
    BY Messages DEF Kind
  <2> QED BY <1>1, <2>1, RequeuedIs DEF IInv, TypeOK, WayInv, Delivered
<1> QED BY <1>1, <1>3, <1>4, <1>5, <1>6, DocKept DEF IInv

-------------------------------------------------------------------------------
(* The inductive invariant. *)

\* Nothing has been created when the service starts.
LEMMA InitInv == ASSUME Init PROVE IInv
<1>1. NoSlot \in Slot /\ ~NoSlot.in /\ NoSlot.token = Nobody
  BY DEF NoSlot, Slot
<1>2. TypeOK
  BY <1>1 DEF Init, TypeOK, Status
<1>3. DocInv /\ PaidInv
  BY Messages DEF Init, DocInv, DocOK, PaidInv, Created, Has, Begun,
     Delivered, Kind
<1>4. HandInv
  BY DEF Init, HandInv, Reserved
<1>5. PubInv
  BY <1>1 DEF Init, PubInv, SlotOK, NothingIsLost
<1>6. WayInv
  BY Messages DEF Init, WayInv, Kind
<1> QED BY <1>2, <1>3, <1>4, <1>5, <1>6 DEF IInv

\* Every action keeps it.
LEMMA StepInv == ASSUME IInv, [Next]_vars PROVE IInv'
<1>1. CASE UNCHANGED vars
  <2>1. UNCHANGED <<payments, slots, created, queue, sent, dropped, arrived, past,
                    stale, connected, consumer, hand, at, publisher, pub, batch,
                    current, faults>>
    BY <1>1 DEF vars, store, clocks, consumer, publisher
  <2>2. TypeOK'
    BY <2>1 DEF IInv, TypeOK
  <2> QED BY <2>1, <2>2, DocKept, HandKept, TickKept, WayKept DEF IInv
<1>2. ASSUME NEW p \in Payment, CreatePayment(p) \/ Expiry(p) PROVE IInv'
  BY <1>2, CreateStep, ClockStep
<1>3. ASSUME NEW cb \in Callback, Arrive(cb) \/ Age(cb) PROVE IInv'
  BY <1>3, ArriveStep, ClockStep
<1>4. ASSUME NEW i \in Instance, Handle(i) PROVE IInv'
  BY <1>4, ReserveStep, NotReservedStep, EnqueueStep, GatewayStep, CallbackStep,
     ExpireStep, ConfirmStep, HandleDeliveryStep, AckStep DEF Handle
<1>5. ASSUME NEW i \in Instance, Tick(i) PROVE IInv'
  <2>1. ASSUME Acknowledge(i) \/ RetryPending(i) PROVE IInv'
    <3>1. NoSlot # [NewSlot EXCEPT !.due = FALSE]
      <4>1. NoSlot.in # [NewSlot EXCEPT !.due = FALSE].in
        BY DEF NewSlot, NoSlot
      <4> QED BY <4>1
    <3>2. CASE Acknowledge(i)
      BY <3>2, SettleStep DEF Acknowledge
    <3>3. CASE RetryPending(i)
      BY <3>1, <3>3, SettleStep DEF RetryPending
    <3> QED BY <2>1, <3>2, <3>3
  <2> QED BY <1>5, <2>1, ClaimStep, PublishStep DEF Tick
<1>6. ASSUME NEW i \in Instance,
             \/ Receive(i) \/ Redeliver(i) \/ PublishInVain(i)
             \/ LoseConnection(i) \/ Crash(i)
      PROVE  IInv'
  BY <1>6, ReceiveStep, RedeliverStep, InVainStep, LoseStep, CrashStep
<1>7. ASSUME NEW m \in Message, RetryFallsDue(m) \/ LeaseExpires(m) PROVE IInv'
  BY <1>7, SlotStep
<1> QED BY <1>1, <1>2, <1>3, <1>4, <1>5, <1>6, <1>7 DEF Next

\* IInv holds in every reachable state.
THEOREM Invariance == Spec => []IInv
<1>1. Init => IInv
  BY InitInv
<1>2. IInv /\ [Next]_vars => IInv'
  BY StepInv
<1> QED BY <1>1, <1>2, PTL DEF Spec

-------------------------------------------------------------------------------
(* The properties of the runs. *)

\* The variables keep their types; in particular no message is stored twice in
\* its document, whatever is delivered again.
THEOREM TypeCorrect == Spec => []TypeOK
<1>1. IInv => TypeOK
  BY DEF IInv
<1> QED BY <1>1, Invariance, PTL

\* What the service announces is true of the document and stored once, whatever
\* is repeated, and an honest callback is behind every completion.
THEOREM AnnouncementsAreTrue == Spec => []AnnouncedIsTrue
<1>1. IInv => AnnouncedIsTrue
  <2> SUFFICES ASSUME IInv, NEW p \in Payment
               PROVE  /\ \A kind \in Kind : created[Msg(p, kind)] <= 1
                      /\ Created(p, "COMPLETED") <=> Has(p, {"COMPLETED"})
                      /\ Created(p, "EXPIRED") <=> Has(p, {"EXPIRED"})
                      /\ Created(p, "confirmed") <=> payments[p].delivery = "DELIVERED"
                      /\ Created(p, "confirmed") => Has(p, {"COMPLETED"})
                      /\ Has(p, {"COMPLETED"}) =>
                           \E cb \in arrived \cap InTime \cap Matching : PaymentOf[cb] = p
    BY DEF AnnouncedIsTrue
  <2>1. ASSUME NEW kind \in Kind PROVE created[Msg(p, kind)] <= 1
    BY Messages DEF IInv, TypeOK
  <2> QED BY <2>1 DEF IInv, DocInv, DocOK, PaidInv, Delivered
<1> QED BY <1>1, Invariance, PTL

\* No message leaves its document before the broker has it, except by a write to
\* a dead connection.
THEOREM MessagesAreKept == Spec => []NothingIsLost
<1>1. IInv => NothingIsLost
  BY DEF IInv, PubInv
<1> QED BY <1>1, Invariance, PTL

\* A completed payment is confirmed, or its delivery request is still stored,
\* waiting or in a hand that can give it back.
THEOREM DeliveryIsKept == Spec => []ConfirmationIsUnderWay
<1>1. IInv => ConfirmationIsUnderWay
  <2> SUFFICES ASSUME IInv, NEW p \in Payment, Has(p, {"COMPLETED"})
               PROVE  \/ Created(p, "confirmed")
                      \/ slots[Msg(p, "deliver")].in
                      \/ Msg(p, "deliver") \in queue \cup dropped
                      \/ \E i \in Instance : /\ connected[i]
                                             /\ hand[i] = Msg(p, "deliver")
                                             /\ at[i] = "received"
    BY DEF ConfirmationIsUnderWay
  <2>1. created[Msg(p, "deliver")] > 0
    BY DEF IInv, DocInv, DocOK, Created
  <2>2. \/ slots[Msg(p, "deliver")].in
        \/ sent[Msg(p, "deliver")] > 0
        \/ Msg(p, "deliver") \in dropped
    BY <2>1, Messages DEF IInv, PubInv, NothingIsLost, Kind
  <2>3. Delivered(p) => Created(p, "confirmed")
    BY DEF IInv, DocInv, DocOK
  <2> QED BY <2>2, <2>3 DEF IInv, WayInv
<1> QED BY <1>1, Invariance, PTL

-------------------------------------------------------------------------------
(* How often the broker gets a message. *)

Senders(m) == {i \in Instance : m \in batch[i]}

Returning(i, m) == pub[i] = "retry" /\ current[i] = m

\* m may be claimed (again) without a fault.
Free(m) ==
  \/ created[m] = 0
  \/ /\ slots[m].in
     /\ \/ ~slots[m].leased
        \/ slots[m].token = Nobody
        \/ Returning(slots[m].token, m)

CountOK(m) ==
  /\ IsFiniteSet(Senders(m))
  /\ sent[m] + Cardinality(Senders(m)) + (IF Free(m) THEN 1 ELSE 0) <= 1 + faults

CopyInv == /\ \A i \in Instance : pub[i] = "idle" => batch[i] = {}
           /\ \A m \in Message : CountOK(m)

\* Numbers are numbers.
LEMMA CountTypes ==
  ASSUME IInv, CopyInv, NEW m \in Message
  PROVE  /\ sent[m] \in Nat /\ faults \in Nat
         /\ IsFiniteSet(Senders(m)) /\ Cardinality(Senders(m)) \in Nat
         /\ sent[m] + Cardinality(Senders(m)) + (IF Free(m) THEN 1 ELSE 0)
              <= 1 + faults
<1>1. IsFiniteSet(Senders(m))
  BY DEF CopyInv, CountOK
<1>2. Cardinality(Senders(m)) \in Nat
  BY <1>1, FS_CardinalityType
<1>3. sent[m] \in Nat /\ faults \in Nat
  BY DEF IInv, TypeOK
<1> QED BY <1>1, <1>2, <1>3 DEF CopyInv, CountOK

\* A step that frees m for no new claim...
LEMMA CountKept ==
  ASSUME IInv, CopyInv, NEW m \in Message, sent'[m] = sent[m],
         Senders(m)' = Senders(m), Free(m)' => Free(m),
         faults' \in Nat, faults <= faults'
  PROVE  CountOK(m)'
<1>1. CASE Free(m)'
  BY <1>1, CountTypes DEF CountOK
<1>2. CASE ~Free(m)'
  BY <1>2, CountTypes DEF CountOK
<1> QED BY <1>1, <1>2

\* ... or that is a fault...
LEMMA CountPaid ==
  ASSUME IInv, CopyInv, NEW m \in Message, sent'[m] = sent[m],
         Senders(m)' \subseteq Senders(m), faults' = faults + 1
  PROVE  CountOK(m)'
<1>1. /\ IsFiniteSet(Senders(m)')
      /\ Cardinality(Senders(m)') <= Cardinality(Senders(m))
  BY CountTypes, FS_Subset
<1>2. Cardinality(Senders(m)') \in Nat
  BY <1>1, FS_CardinalityType
<1>3. CASE Free(m)'
  BY <1>1, <1>2, <1>3, CountTypes DEF CountOK
<1>4. CASE ~Free(m)'
  BY <1>1, <1>2, <1>4, CountTypes DEF CountOK
<1> QED BY <1>3, <1>4

\* ... or in which a sender sends m or gives it back...
LEMMA CountSent ==
  ASSUME IInv, CopyInv, NEW m \in Message, NEW i \in Senders(m),
         Senders(m)' = Senders(m) \ {i}, faults' \in Nat, faults <= faults',
         \/ sent'[m] \in {sent[m], sent[m] + 1} /\ (Free(m)' => Free(m))
         \/ sent'[m] = sent[m]
  PROVE  CountOK(m)'
<1>1. /\ IsFiniteSet(Senders(m)')
      /\ Cardinality(Senders(m)') = Cardinality(Senders(m)) - 1
  BY CountTypes, FS_RemoveElement
<1>2. CASE Free(m)'
  BY <1>1, <1>2, CountTypes DEF CountOK
<1>3. CASE ~Free(m)'
  BY <1>1, <1>3, CountTypes DEF CountOK
<1> QED BY <1>2, <1>3

\* ... or claims a message that was free, keeps the count.
LEMMA CountClaimed ==
  ASSUME IInv, CopyInv, NEW m \in Message, NEW i, i \notin Senders(m),
         Senders(m)' = Senders(m) \cup {i}, faults' = faults,
         sent'[m] = sent[m], Free(m), ~Free(m)'
  PROVE  CountOK(m)'
<1>1. /\ IsFiniteSet(Senders(m)')
      /\ Cardinality(Senders(m)') = Cardinality(Senders(m)) + 1
  BY CountTypes, FS_AddElement
<1> QED BY <1>1, CountTypes DEF CountOK

\* What is written to documents frees a message only when it is stored first.
LEMMA CopiesOfStore ==
  ASSUME IInv, IInv', CopyInv, UNCHANGED <<sent, publisher, faults>>,
         \/ UNCHANGED <<slots, created>>
         \/ \E ms : Push(ms)
  PROVE  CopyInv'
<1>1. \A m \in Message : Free(m)' => Free(m)
  <2>1. CASE UNCHANGED <<slots, created>>
    BY <2>1 DEF Free, Returning, publisher
  <2>2. ASSUME NEW ms, Push(ms), NEW m \in Message
        PROVE  Free(m)' => Free(m)
    <3>1. CASE m \in ms
      <4>1. created'[m] = created[m] + 1 /\ created'[m] \in 0..1
        BY <2>2, <3>1 DEF Push, IInv, TypeOK
      <4>2. created[m] \in 0..1
        BY DEF IInv, TypeOK
      <4> QED BY <4>1, <4>2 DEF Free
    <3>2. CASE m \notin ms
      <4>1. created'[m] = created[m] /\ slots'[m] = slots[m]
        BY <2>2, <3>2 DEF Push
      <4> QED BY <4>1 DEF Free, Returning, publisher
    <3> QED BY <3>1, <3>2
  <2> QED BY <2>1, <2>2
<1>2. ASSUME NEW m \in Message PROVE CountOK(m)'
  <2>1. Senders(m)' = Senders(m) /\ sent'[m] = sent[m]
    BY DEF Senders, publisher
  <2>2. faults' \in Nat /\ faults <= faults'
    BY DEF IInv, TypeOK
  <2> QED BY <1>1, <2>1, <2>2, CountKept
<1> QED BY <1>2 DEF CopyInv, publisher

\* Consumers, clocks and connections do not send.
LEMMA CopiesElsewhere ==
  ASSUME IInv, IInv', CopyInv, UNCHANGED <<slots, created, sent, publisher>>,
         faults <= faults'
  PROVE  CopyInv'
<1>1. ASSUME NEW m \in Message PROVE CountOK(m)'
  <2>1. /\ Senders(m)' = Senders(m) /\ sent'[m] = sent[m]
        /\ Free(m)' => Free(m)
    BY DEF Senders, Free, Returning, publisher
  <2>2. faults' \in Nat
    BY DEF IInv, TypeOK
  <2> QED BY <2>1, <2>2, CountKept
<1> QED BY <1>1 DEF CopyInv, publisher

\* A claim takes free messages into an empty batch.
LEMMA CopiesOfClaim ==
  ASSUME IInv, IInv', CopyInv, NEW i \in Instance, ClaimPending(i)
  PROVE  CopyInv'
<1>1. PICK ms \in SUBSET {m \in Message : Claimable(m)} :
        \/ /\ slots' = Claimed(ms, i)
           /\ batch' = [batch EXCEPT ![i] = ms]
           /\ pub' = [pub EXCEPT ![i] = "publishing"]
           /\ faults' = faults
        \/ /\ faults' = faults + 1
           /\ slots' = Claimed(ms, Nobody)
           /\ UNCHANGED <<batch, pub>>
  BY DEF ClaimPending, Fault
<1>2. /\ pub[i] = "idle" /\ batch[i] = {}
      /\ UNCHANGED <<created, sent, current>>
  BY DEF ClaimPending, CopyInv
<1>3. /\ batch \in [Instance -> SUBSET Message] /\ slots \in [Message -> Slot]
      /\ pub \in [Instance -> {"idle", "publishing", "ack", "retry"}]
  BY DEF IInv, TypeOK
<1>4. CASE /\ slots' = Claimed(ms, i)
           /\ batch' = [batch EXCEPT ![i] = ms]
           /\ pub' = [pub EXCEPT ![i] = "publishing"]
           /\ faults' = faults
  <2>1. ASSUME NEW m \in ms PROVE CountOK(m)'
    <3>1. m \in Message /\ slots[m].in /\ ~slots[m].leased
      BY DEF Claimable
    <3>2. Free(m)
      BY <3>1 DEF Free
    <3>3. created[m] # 0
      BY <3>1 DEF IInv, PubInv, SlotOK
    <3>4. slots'[m] = [slots[m] EXCEPT !.leased = TRUE, !.token = i]
      BY <1>4, <3>1 DEF Claimed
    <3>5. slots'[m].leased /\ slots'[m].token = i
      <4>1. slots[m] \in Slot
        BY <1>3, <3>1
      <4> QED BY <3>4, <4>1 DEF Slot
    <3>6. pub'[i] = "publishing"
      BY <1>3, <1>4
    <3>7. ~Free(m)'
      BY <1>2, <3>3, <3>5, <3>6, NamesAreNew DEF Free, Returning
    <3>8. i \notin Senders(m) /\ Senders(m)' = Senders(m) \cup {i}
      BY <1>2, <1>3, <1>4 DEF Senders
    <3> QED BY <1>2, <1>4, <3>1, <3>2, <3>7, <3>8, CountClaimed
  <2>2. ASSUME NEW m \in Message \ ms PROVE CountOK(m)'
    <3>1. slots'[m] = slots[m] /\ created'[m] = created[m]
      BY <1>2, <1>4 DEF Claimed
    <3>2. Free(m)' => Free(m)
      BY <1>2, <1>3, <1>4, <3>1 DEF Free, Returning
    <3>3. Senders(m)' = Senders(m)
      BY <1>2, <1>3, <1>4 DEF Senders
    <3>4. faults' \in Nat /\ faults <= faults'
      BY <1>4 DEF IInv, TypeOK
    <3> QED BY <1>2, <3>2, <3>3, <3>4, CountKept
  <2>3. \A j \in Instance : pub'[j] = "idle" => batch'[j] = {}
    BY <1>3, <1>4 DEF CopyInv
  <2> QED BY <2>1, <2>2, <2>3 DEF CopyInv
<1>5. CASE /\ faults' = faults + 1
           /\ slots' = Claimed(ms, Nobody)
           /\ UNCHANGED <<batch, pub>>
  <2>1. \A m \in Message : Senders(m)' = Senders(m)
    BY <1>5 DEF Senders
  <2>2. \A m \in Message : CountOK(m)'
    BY <1>2, <1>5, <2>1, CountPaid
  <2> QED BY <1>5, <2>2 DEF CopyInv
<1> QED BY <1>1, <1>4, <1>5

\* A message that is taken leaves the batch.
LEMMA TakesOne ==
  ASSUME IInv, NEW i \in Instance, NEW taken \in batch[i], Takes(i, taken)
  PROVE  /\ taken \in Message /\ i \in Senders(taken)
         /\ Senders(taken)' = Senders(taken) \ {i}
         /\ \A m \in Message \ {taken} : Senders(m)' = Senders(m)
         /\ current'[i] = taken
         /\ \A j \in Instance \ {i} : current'[j] = current[j]
<1>1. batch \in [Instance -> SUBSET Message]
      /\ current \in [Instance -> Message \cup {Nothing}]
  BY DEF IInv, TypeOK
<1> QED BY <1>1 DEF Takes, Senders

\* It is sent, or its publisher has it back to return it.
LEMMA CopiesOfPublish ==
  ASSUME IInv, IInv', CopyInv, NEW i \in Instance, Publish(i) \/ PublishInVain(i)
  PROVE  CopyInv'
<1>1. PICK taken \in batch[i] :
        /\ Takes(i, taken)
        /\ \/ /\ sent' = [sent EXCEPT ![taken] = @ + 1]
              /\ pub' = [pub EXCEPT ![i] = "ack"]
           \/ /\ sent' = sent
              /\ pub' = [pub EXCEPT ![i] = "retry"]
           \/ /\ sent' = sent
              /\ pub' = [pub EXCEPT ![i] = "ack"]
  BY DEF Publish, PublishInVain
<1>2. /\ taken \in Message /\ i \in Senders(taken)
      /\ Senders(taken)' = Senders(taken) \ {i}
      /\ \A m \in Message \ {taken} : Senders(m)' = Senders(m)
      /\ current'[i] = taken
      /\ \A j \in Instance \ {i} : current'[j] = current[j]
  BY <1>1, TakesOne
<1>3. UNCHANGED <<slots, created>> /\ faults' \in Nat /\ faults <= faults'
  BY DEF Publish, PublishInVain, store, Fault, IInv, TypeOK
<1>4. /\ sent \in [Message -> Nat]
      /\ pub \in [Instance -> {"idle", "publishing", "ack", "retry"}]
      /\ batch \in [Instance -> SUBSET Message]
      /\ slots \in [Message -> Slot]
  BY DEF IInv, TypeOK
<1>5. ASSUME NEW m \in Message \ {taken} PROVE CountOK(m)'
  <2>1. sent'[m] = sent[m]
    BY <1>1, <1>4
  <2>2. ASSUME NEW j \in Instance, Returning(j, m)' PROVE Returning(j, m)
    <3>1. pub'[j] = "retry" /\ current'[j] = m
      BY <2>2 DEF Returning
    <3>2. j # i
      BY <1>2, <3>1
    <3>3. current'[j] = current[j]
      BY <1>2, <3>2
    <3>4. pub'[j] = pub[j]
      <4>1. PICK place : pub' = [pub EXCEPT ![i] = place]
        BY <1>1
      <4> QED BY <1>4, <3>2, <4>1
    <3> QED BY <3>1, <3>3, <3>4 DEF Returning
  <2>3. Free(m)' => Free(m)
    BY <1>3, <1>4, <2>2 DEF Free, Slot
  <2> QED BY <1>2, <1>3, <2>1, <2>3, CountKept
<1>6. CountOK(taken)'
  <2>1. CASE sent' = sent
    BY <1>2, <1>3, <2>1, CountSent
  <2>2. CASE /\ sent' = [sent EXCEPT ![taken] = @ + 1]
             /\ pub' = [pub EXCEPT ![i] = "ack"]
    <3>1. sent'[taken] = sent[taken] + 1
      BY <1>2, <1>4, <2>2
    <3>2. ASSUME NEW j \in Instance, Returning(j, taken)'
          PROVE  Returning(j, taken)
      <4>1. pub'[j] = "retry" /\ current'[j] = taken
        BY <3>2 DEF Returning
      <4>2. j # i
        BY <1>4, <2>2, <4>1
      <4>3. pub'[j] = pub[j]
        BY <1>4, <2>2, <4>2
      <4>4. current'[j] = current[j]
        BY <1>2, <4>2
      <4> QED BY <4>1, <4>3, <4>4 DEF Returning
    <3>3. Free(taken)' => Free(taken)
      BY <1>2, <1>3, <1>4, <3>2 DEF Free, Slot
    <3> QED BY <1>2, <1>3, <3>1, <3>3, CountSent
  <2> QED BY <1>1, <2>1, <2>2
<1>7. \A j \in Instance : pub'[j] = "idle" => batch'[j] = {}
  <2>1. batch' = [batch EXCEPT ![i] = @ \ {taken}]
    BY <1>1 DEF Takes
  <2> QED BY <1>1, <1>4, <2>1 DEF CopyInv
<1> QED BY <1>5, <1>6, <1>7 DEF CopyInv

\* The statement that ends the work on a message frees it for the next claim when
\* the publisher still holds it, and then the publisher is done with it.
LEMMA CopiesOfSettle ==
  ASSUME IInv, IInv', CopyInv, NEW i \in Instance,
         Acknowledge(i) \/ RetryPending(i)
  PROVE  CopyInv'
<1>1. /\ current[i] \in Message
      /\ UNCHANGED <<created, sent, batch>>
      /\ pub' = [pub EXCEPT ![i] = IF batch[i] = {} THEN "idle"
                                                     ELSE "publishing"]
      /\ current' = [current EXCEPT ![i] = Nothing]
  BY DEF Acknowledge, RetryPending, Settle, IInv, PubInv
<1> DEFINE m == current[i]
<1>2. PICK c \in Message : c = m
  BY <1>1
<1>3. PICK slot :
        /\ slot = NoSlot \/ pub[i] = "retry"
        /\ \/ /\ slots' = IF slots[c].token = i THEN [slots EXCEPT ![c] = slot]
                                                ELSE slots
              /\ faults' = faults
           \/ /\ faults' = faults + 1
              /\ slots' = [slots EXCEPT ![c].token = IF @ = i THEN Nobody ELSE @]
  BY <1>2 DEF Acknowledge, RetryPending, Settle, Fault
<1> HIDE DEF m
<1>4. /\ pub \in [Instance -> {"idle", "publishing", "ack", "retry"}]
      /\ current \in [Instance -> Message \cup {Nothing}]
      /\ slots \in [Message -> Slot] /\ slots' \in [Message -> Slot]
      /\ faults \in Nat /\ faults' \in Nat
  BY DEF IInv, TypeOK
<1>5. ASSUME NEW n \in Message, NEW j \in Instance, Returning(j, n)'
      PROVE  Returning(j, n)
  <2>1. pub'[j] = "retry" /\ current'[j] = n
    BY <1>5 DEF Returning
  <2>2. j # i
    BY <1>1, <1>4, <2>1
  <2> QED BY <1>1, <1>4, <2>1, <2>2 DEF Returning
<1>6. ASSUME NEW n \in Message
      PROVE  Senders(n)' = Senders(n) /\ sent'[n] = sent[n]
  BY <1>1 DEF Senders
<1>7. ASSUME NEW n \in Message, slots'[n] = slots[n], faults <= faults'
      PROVE  CountOK(n)'
  <2>1. Free(n)' => Free(n)
    BY <1>1, <1>4, <1>5, <1>7 DEF Free, Slot
  <2> QED BY <1>4, <1>6, <1>7, <2>1, CountKept
<1>8. \A n \in Message : CountOK(n)'
  <2>1. CASE faults' = faults + 1
    BY <1>6, <2>1, CountPaid
  <2>2. CASE /\ slots' = IF slots[c].token = i THEN [slots EXCEPT ![c] = slot]
                                               ELSE slots
             /\ faults' = faults
    <3>1. ASSUME NEW n \in Message, n # c \/ slots[c].token # i
          PROVE  CountOK(n)'
      <4>1. slots'[n] = slots[n]
        BY <1>4, <2>2, <3>1
      <4> QED BY <1>4, <1>7, <2>2, <4>1
    <3>2. ASSUME slots[c].token = i PROVE CountOK(c)'
      <4>1. slots'[c] = slot
        BY <1>4, <2>2, <3>2
      <4>2. CASE slot = NoSlot
        BY <1>1, <1>4, <1>6, <2>2, <4>1, <4>2, CountKept DEF Free, NoSlot
      <4>3. CASE pub[i] = "retry"
        <5>1. Returning(i, c)
          BY <1>2, <4>3 DEF Returning, m
        <5>2. slots[c].in
          BY <3>2, NamesAreNew DEF IInv, PubInv, SlotOK
        <5>3. Free(c)
          BY <3>2, <5>1, <5>2 DEF Free
        <5> QED BY <1>4, <1>6, <2>2, <5>3, CountKept
      <4> QED BY <1>3, <4>2, <4>3
    <3> QED BY <3>1, <3>2
  <2> QED BY <1>3, <2>1, <2>2
<1>9. \A j \in Instance : pub'[j] = "idle" => batch'[j] = {}
  BY <1>1, <1>4 DEF CopyInv
<1> QED BY <1>8, <1>9 DEF CopyInv

\* A lease that runs out frees a message: nobody is at work on it, or a publisher
\* has been slow.
LEMMA CopiesOfClocks ==
  ASSUME IInv, IInv', CopyInv, NEW m \in Message,
         RetryFallsDue(m) \/ LeaseExpires(m)
  PROVE  CopyInv'
<1>1. UNCHANGED <<created, sent, pub, batch, current>>
  BY DEF RetryFallsDue, LeaseExpires, publisher
<1>2. /\ slots \in [Message -> Slot] /\ faults \in Nat /\ faults' \in Nat
  BY DEF IInv, TypeOK
<1>3. \A n \in Message : Senders(n)' = Senders(n) /\ sent'[n] = sent[n]
  BY <1>1 DEF Senders
<1>4. CASE faults' = faults + 1
  BY <1>1, <1>3, <1>4, CountPaid DEF CopyInv
<1>5. CASE RetryFallsDue(m)
  <2>1. slots' = [slots EXCEPT ![m].due = TRUE] /\ faults' = faults
    BY <1>5 DEF RetryFallsDue
  <2>2. ASSUME NEW n \in Message PROVE Free(n)' => Free(n)
    <3>1. /\ slots'[n].in = slots[n].in /\ slots'[n].leased = slots[n].leased
          /\ slots'[n].token = slots[n].token
      BY <1>2, <2>1 DEF Slot
    <3> QED BY <1>1, <3>1 DEF Free, Returning
  <2>3. \A n \in Message : CountOK(n)'
    BY <1>2, <1>3, <2>1, <2>2, CountKept
  <2> QED BY <1>1, <2>3 DEF CopyInv
<1>6. CASE LeaseExpires(m) /\ slots[m].token = Nobody
  <2>1. slots' = [slots EXCEPT ![m].leased = FALSE] /\ faults' = faults
    BY <1>6 DEF LeaseExpires
  <2>2. ASSUME NEW n \in Message PROVE Free(n)' => Free(n)
    <3>1. /\ slots'[n].in = slots[n].in
          /\ slots'[n].token = slots[n].token
          /\ n # m => slots'[n] = slots[n]
      BY <1>2, <2>1 DEF Slot
    <3> QED BY <1>1, <1>6, <3>1 DEF Free, Returning
  <2>3. \A n \in Message : CountOK(n)'
    BY <1>2, <1>3, <2>1, <2>2, CountKept
  <2> QED BY <1>1, <2>3 DEF CopyInv
<1> QED BY <1>4, <1>5, <1>6 DEF LeaseExpires, Fault

\* A process that ends sends nothing more.
LEMMA CopiesOfCrash ==
  ASSUME IInv, IInv', CopyInv, NEW i \in Instance, Crash(i)
  PROVE  CopyInv'
<1>1. /\ faults' = faults + 1 /\ UNCHANGED sent
      /\ batch' = [batch EXCEPT ![i] = {}]
      /\ pub' = [pub EXCEPT ![i] = "idle"]
  BY DEF Crash, Fault
<1>2. /\ batch \in [Instance -> SUBSET Message]
      /\ pub \in [Instance -> {"idle", "publishing", "ack", "retry"}]
  BY DEF IInv, TypeOK
<1>3. ASSUME NEW m \in Message PROVE CountOK(m)'
  <2>1. Senders(m)' \subseteq Senders(m)
    BY <1>1, <1>2 DEF Senders
  <2> QED BY <1>1, <2>1, CountPaid
<1>4. \A j \in Instance : pub'[j] = "idle" => batch'[j] = {}
  BY <1>1, <1>2 DEF CopyInv
<1> QED BY <1>3, <1>4 DEF CopyInv

\* Nothing has been sent when the service starts.
LEMMA InitCopies == ASSUME Init PROVE CopyInv
<1>1. ASSUME NEW m \in Message PROVE CountOK(m)
  <2>1. Senders(m) = {}
    BY DEF Init, Senders
  <2>2. IsFiniteSet(Senders(m)) /\ Cardinality(Senders(m)) = 0
    BY <2>1, FS_EmptySet
  <2>3. sent[m] = 0 /\ faults = 0
    BY DEF Init
  <2> QED BY <2>2, <2>3 DEF CountOK
<1> QED BY <1>1 DEF CopyInv, Init

\* Every action keeps the count.
LEMMA StepCopies == ASSUME IInv, IInv', CopyInv, [Next]_vars PROVE CopyInv'
<1>1. faults \in Nat
  BY DEF IInv, TypeOK
<1>2. CASE UNCHANGED vars
  BY <1>1, <1>2, CopiesElsewhere DEF vars, store
<1>3. ASSUME NEW p \in Payment, CreatePayment(p) \/ Expiry(p) PROVE CopyInv'
  <2>1. CASE CreatePayment(p)
    BY <2>1, CopiesOfStore DEF CreatePayment
  <2>2. CASE Expiry(p)
    BY <1>1, <2>2, CopiesElsewhere DEF Expiry, store
  <2> QED BY <1>3, <2>1, <2>2
<1>4. ASSUME NEW cb \in Callback, Arrive(cb) \/ Age(cb) PROVE CopyInv'
  BY <1>1, <1>4, CopiesElsewhere DEF Arrive, Age, store
<1>5. ASSUME NEW i \in Instance, Handle(i) PROVE CopyInv'
  <2>1. CASE Ack(i)
    BY <1>1, <2>1, CopiesElsewhere DEF Ack, store
  <2>2. CASE Reserve(i) \/ NotReserved(i) \/ IgnoreCallback(i) \/ LateCallback(i)
    BY <2>2, CopiesOfStore
       DEF Reserve, NotReserved, IgnoreCallback, LateCallback, Goes, store
  <2>3. CASE EnqueueProcessing(i)
    BY <2>3, CopiesOfStore DEF EnqueueProcessing, Goes
  <2>4. CASE GatewayEnds(i)
    BY <2>4, CopiesOfStore DEF GatewayEnds, MarkFailed, Goes, store
  <2>5. CASE Expire(i)
    BY <2>5, CopiesOfStore DEF Expire, MarkExpired, Goes, store
  <2>6. CASE ConfirmPayment(i)
    BY <2>6, CopiesOfStore DEF ConfirmPayment, MarkCompleted, Goes, store
  <2>7. CASE HandleDelivery(i)
    BY <2>7, CopiesOfStore DEF HandleDelivery, MarkDelivery, Goes, store
  <2> QED BY <1>5, <2>1, <2>2, <2>3, <2>4, <2>5, <2>6, <2>7 DEF Handle
<1>6. ASSUME NEW i \in Instance, Tick(i) PROVE CopyInv'
  BY <1>6, CopiesOfClaim, CopiesOfPublish, CopiesOfSettle DEF Tick
<1>7. ASSUME NEW i \in Instance,
             \/ Receive(i) \/ Redeliver(i) \/ PublishInVain(i)
             \/ LoseConnection(i) \/ Crash(i)
      PROVE  CopyInv'
  <2>1. CASE Receive(i)
    BY <1>1, <2>1, CopiesElsewhere DEF Receive, store
  <2>2. CASE Redeliver(i)
    BY <1>1, <2>2, CopiesElsewhere DEF Redeliver, store, Fault
  <2>3. CASE LoseConnection(i)
    BY <1>1, <2>3, CopiesElsewhere DEF LoseConnection, store, Fault
  <2> QED BY <1>7, <2>1, <2>2, <2>3, CopiesOfPublish, CopiesOfCrash
<1>8. ASSUME NEW m \in Message, RetryFallsDue(m) \/ LeaseExpires(m)
      PROVE  CopyInv'
  BY <1>8, CopiesOfClocks
<1> QED BY <1>2, <1>3, <1>4, <1>5, <1>6, <1>7, <1>8 DEF Next

\* The broker gets each message once, and at most once more for each fault:
\* claims, leases and retries of the tickers alone never send one twice.
THEOREM CopiesHaveFaults == Spec => []CopiesAreFaults
<1>1. Init => IInv /\ CopyInv
  BY InitInv, InitCopies
<1>2. (IInv /\ CopyInv) /\ [Next]_vars => (IInv /\ CopyInv)'
  BY StepInv, StepCopies
<1>3. IInv /\ CopyInv => CopiesAreFaults
  <2> SUFFICES ASSUME IInv, CopyInv, NEW m \in Message
               PROVE  sent[m] <= 1 + faults
    BY DEF CopiesAreFaults
  <2> QED BY CountTypes
<1> QED BY <1>1, <1>2, <1>3, PTL DEF Spec
-------------------------------------------------------------------------------
(* The documents keep the promise of an outbox. *)

\* Where a message stands, as an outbox sees it.
Standing(m) == IF created[m] = 0 THEN "none"
               ELSE IF slots[m].in THEN "stored" ELSE "settled"

\* One step of an outbox, for one message.
Handled(m) ==
  \/ /\ Standing(m)' = Standing(m) /\ sent'[m] = sent[m]
     /\ m \in dropped' <=> m \in dropped
  \/ /\ Standing(m) = "none" /\ Standing(m)' = "stored"
     /\ sent'[m] = sent[m] /\ (m \in dropped' <=> m \in dropped)
  \/ /\ Standing(m) # "none" /\ Standing(m)' = Standing(m)
     /\ sent'[m] = sent[m] + 1 /\ (m \in dropped' <=> m \in dropped)
  \/ /\ "connection" \in FaultKinds
     /\ Standing(m) # "none" /\ Standing(m)' = Standing(m)
     /\ sent'[m] = sent[m] /\ m \in dropped'
  \/ /\ Standing(m) = "stored" /\ Standing(m)' = "settled"
     /\ sent[m] > 0 \/ m \in dropped
     /\ sent'[m] = sent[m] /\ (m \in dropped' <=> m \in dropped)

\* That is what the outbox with the documents in it does, with the lapse it has
\* when connections are lost.
LEMMA HandledIsNext == (\A m \in Message : Handled(m)) => Outgoing!Next
<1> SUFFICES ASSUME NEW m \in Message, Handled(m)
             PROVE  \/ Outgoing!Rest(m) \/ Outgoing!Store(m) \/ Outgoing!Send(m)
                    \/ Outgoing!Drop(m) \/ Outgoing!Settle(m)
  BY DEF Outgoing!Next
<1> USE DEF Standing, Outgoing!Stays, Outgoing!Unsent, Outgoing!Undropped
<1> QED BY DEF Handled, Outgoing!Rest, Outgoing!Store, Outgoing!Send,
           Outgoing!Drop, Outgoing!Settle

\* A step that leaves every message in or out of its document moves none.
LEMMA QuietHandled ==
  ASSUME UNCHANGED <<created, sent, dropped>>,
         \A m \in Message : slots'[m].in = slots[m].in
  PROVE  \A m \in Message : Handled(m)
BY DEF Handled, Standing

\* A message that is written into a document has not been created before.
LEMMA StoreHandled ==
  ASSUME IInv, IInv', UNCHANGED <<sent, dropped>>,
         \/ UNCHANGED <<slots, created>>
         \/ \E ms : Push(ms)
  PROVE  \A m \in Message : Handled(m)
<1>1. CASE UNCHANGED <<slots, created>>
  BY <1>1, QuietHandled
<1>2. ASSUME NEW ms, Push(ms), NEW m \in Message PROVE Handled(m)
  <2>1. CASE m \in ms
    <3>1. /\ created'[m] = created[m] + 1 /\ created'[m] \in 0..1
          /\ created[m] \in 0..1 /\ slots'[m] = NewSlot
      BY <1>2, <2>1 DEF Push, IInv, TypeOK
    <3>2. NewSlot.in
      BY DEF NewSlot, NoSlot
    <3>3. Standing(m) = "none" /\ Standing(m)' = "stored"
      BY <3>1, <3>2 DEF Standing
    <3> QED BY <3>3 DEF Handled
  <2>2. CASE m \notin ms
    <3>1. created'[m] = created[m] /\ slots'[m] = slots[m]
      BY <1>2, <2>2 DEF Push
    <3> QED BY <3>1 DEF Handled, Standing
  <2> QED BY <2>1, <2>2
<1> QED BY <1>1, <1>2

\* A claim, or what ends one without having published, leaves messages in place.
LEMMA SlotsHandled ==
  ASSUME IInv,
         \/ \E i \in Instance : ClaimPending(i) \/ Crash(i)
         \/ \E m \in Message : RetryFallsDue(m) \/ LeaseExpires(m)
  PROVE  \A m \in Message : Handled(m)
<1>1. slots \in [Message -> Slot]
  BY DEF IInv, TypeOK
<1>2. ASSUME NEW i \in Instance, ClaimPending(i), NEW m \in Message
      PROVE  slots'[m].in = slots[m].in
  <2>1. PICK ms, o : slots' = Claimed(ms, o)
    BY <1>2 DEF ClaimPending
  <2>2. slots'[m] = IF m \in ms
           THEN [slots[m] EXCEPT !.leased = TRUE, !.token = o] ELSE slots[m]
    BY <2>1 DEF Claimed
  <2>3. slots[m] \in Slot
    BY <1>1
  <2> QED BY <2>2, <2>3 DEF Slot
<1>3. ASSUME NEW i \in Instance, Crash(i), NEW m \in Message
      PROVE  slots'[m].in = slots[m].in
  <2>1. slots'[m] = [slots[m] EXCEPT !.token = IF @ = i THEN Nobody ELSE @]
    BY <1>3 DEF Crash
  <2>2. slots[m] \in Slot
    BY <1>1
  <2> QED BY <2>1, <2>2 DEF Slot
<1>4. ASSUME NEW n \in Message, RetryFallsDue(n) \/ LeaseExpires(n),
             NEW m \in Message
      PROVE  slots'[m].in = slots[m].in
  <2>1. slots'[m] \in {slots[m], [slots[m] EXCEPT !.due = TRUE],
                       [slots[m] EXCEPT !.leased = FALSE]}
    BY <1>1, <1>4 DEF RetryFallsDue, LeaseExpires
  <2>2. slots[m] \in Slot
    BY <1>1
  <2> QED BY <2>1, <2>2 DEF Slot
<1>5. UNCHANGED <<created, sent, dropped>>
  BY DEF ClaimPending, Crash, RetryFallsDue, LeaseExpires
<1> QED BY <1>2, <1>3, <1>4, <1>5, QuietHandled

\* What a publisher sends, or drops, has been stored.
LEMMA PublishHandled ==
  ASSUME IInv, NEW i \in Instance, Publish(i) \/ PublishInVain(i)
  PROVE  \A m \in Message : Handled(m)
<1>1. PICK n \in Message :
        /\ created[n] > 0
        /\ \/ sent' = [sent EXCEPT ![n] = @ + 1] /\ dropped' = dropped
           \/ sent' = sent /\ dropped' = dropped
           \/ /\ "connection" \in FaultKinds
              /\ sent' = sent /\ dropped' = dropped \cup {n}
  <2>1. \A m \in batch[i] : m \in Message /\ created[m] > 0
    BY DEF IInv, TypeOK, PubInv
  <2>2. CASE Publish(i)
    BY <2>1, <2>2 DEF Publish
  <2>3. CASE PublishInVain(i)
    BY <2>1, <2>3 DEF PublishInVain, Fault
  <2> QED BY <2>2, <2>3
<1>2. sent \in [Message -> Nat] /\ created \in [Message -> 0..1]
  BY DEF IInv, TypeOK
<1> SUFFICES ASSUME NEW m \in Message PROVE Handled(m)
  OBVIOUS
<1>3. Standing(m)' = Standing(m)
  BY DEF Publish, PublishInVain, store, Standing
<1>4. CASE m = n
  <2>1. Standing(m) # "none"
    BY <1>1, <1>2, <1>4 DEF Standing
  <2> QED BY <1>1, <1>2, <1>3, <1>4, <2>1 DEF Handled
<1>5. CASE m # n
  BY <1>1, <1>2, <1>3, <1>5 DEF Handled
<1> QED BY <1>4, <1>5

\* A message is removed by the publisher that has sent it under its claim, or has
\* taken it for sent.
LEMMA SettleHandled ==
  ASSUME IInv, NEW i \in Instance, Acknowledge(i) \/ RetryPending(i)
  PROVE  \A m \in Message : Handled(m)
<1>1. PICK n \in Message : n = current[i]
  BY DEF IInv, PubInv, Acknowledge, RetryPending
<1>2. UNCHANGED <<created, sent, dropped>>
  BY DEF Acknowledge, RetryPending, Settle
<1>3. /\ slots \in [Message -> Slot] /\ slots[n] \in Slot /\ SlotOK(n)
      /\ i # Nobody
  BY DEF IInv, TypeOK, PubInv
<1>4. \/ \A m \in Message : slots'[m].in = slots[m].in
      \/ /\ \A m \in Message \ {n} : slots'[m] = slots[m]
         /\ ~slots'[n].in
         /\ slots[n].token = i /\ pub[i] = "ack"
  <2>1. CASE slots' = [slots EXCEPT ![n].token = IF @ = i THEN Nobody ELSE @]
    <3>1. PICK o \in Instance \cup {Nobody} : slots' = [slots EXCEPT ![n].token = o]
      BY <1>3, <2>1 DEF Slot
    <3>2. slots' = [slots EXCEPT ![n] = [slots[n] EXCEPT !.token = o]]
      BY <3>1
    <3>3. slots'[n].in = slots[n].in
      BY <1>3, <3>2 DEF Slot
    <3> QED BY <1>3, <3>2, <3>3
  <2>2. CASE slots' = slots
    BY <2>2
  <2>3. CASE /\ pub[i] = "ack" /\ slots[n].token = i
             /\ slots' = [slots EXCEPT ![n] = NoSlot]
    <3>1. ~NoSlot.in
      BY DEF NoSlot
    <3> QED BY <1>3, <2>3, <3>1
  <2>4. CASE /\ slots[n].token = i
             /\ slots' = [slots EXCEPT ![n] = [NewSlot EXCEPT !.due = FALSE]]
    <3>1. [NewSlot EXCEPT !.due = FALSE].in
      BY DEF NewSlot, NoSlot
    <3>2. slots[n].in
      BY <1>3, <2>4 DEF SlotOK
    <3>3. slots[n].in \in BOOLEAN
      BY <1>3 DEF Slot
    <3> QED BY <1>3, <2>4, <3>1, <3>2, <3>3
  <2> QED BY <1>1, <2>1, <2>2, <2>3, <2>4 DEF Acknowledge, RetryPending, Settle
<1>5. CASE \A m \in Message : slots'[m].in = slots[m].in
  BY <1>2, <1>5, QuietHandled
<1>6. CASE /\ \A m \in Message \ {n} : slots'[m] = slots[m]
           /\ ~slots'[n].in
           /\ slots[n].token = i /\ pub[i] = "ack"
  <2>1. Handled(n)
    <3>1. slots[n].in /\ created[n] > 0
      BY <1>3, <1>6 DEF SlotOK
    <3>2. sent[n] > 0 \/ n \in dropped
      BY <1>1, <1>6 DEF IInv, PubInv
    <3>3. created[n] # 0
      BY <3>1
    <3>4. Standing(n) = "stored" /\ Standing(n)' = "settled"
      BY <1>2, <1>6, <3>1, <3>3 DEF Standing
    <3> QED BY <1>2, <3>2, <3>4 DEF Handled
  <2>2. ASSUME NEW m \in Message \ {n} PROVE Handled(m)
    BY <1>2, <1>6, <2>2 DEF Handled, Standing
  <2> QED BY <2>1, <2>2
<1> QED BY <1>4, <1>5, <1>6

\* Every step of the service is one of the outbox, for every message.
LEMMA StepHandled ==
  ASSUME IInv, IInv', [Next]_vars PROVE \A m \in Message : Handled(m)
<1>1. CASE UNCHANGED <<slots, created, sent, dropped>>
  BY <1>1, QuietHandled
<1>2. ASSUME NEW p \in Payment, CreatePayment(p)
      PROVE  \A m \in Message : Handled(m)
  BY <1>2, StoreHandled DEF CreatePayment
<1>3. ASSUME NEW i \in Instance, Handle(i) PROVE \A m \in Message : Handled(m)
  <2>1. CASE Ack(i)
    BY <1>1, <2>1 DEF Ack, store
  <2>2. CASE Reserve(i) \/ NotReserved(i) \/ IgnoreCallback(i) \/ LateCallback(i)
    BY <1>1, <2>2
       DEF Reserve, NotReserved, IgnoreCallback, LateCallback, Goes, store
  <2>3. CASE EnqueueProcessing(i)
    BY <2>3, StoreHandled DEF EnqueueProcessing, Goes
  <2>4. CASE GatewayEnds(i)
    BY <2>4, StoreHandled DEF GatewayEnds, MarkFailed, Goes, store
  <2>5. CASE Expire(i)
    BY <2>5, StoreHandled DEF Expire, MarkExpired, Goes, store
  <2>6. CASE ConfirmPayment(i)
    BY <2>6, StoreHandled DEF ConfirmPayment, MarkCompleted, Goes, store
  <2>7. CASE HandleDelivery(i)
    BY <2>7, StoreHandled DEF HandleDelivery, MarkDelivery, Goes, store
  <2> QED BY <1>3, <2>1, <2>2, <2>3, <2>4, <2>5, <2>6, <2>7 DEF Handle
<1>4. ASSUME NEW i \in Instance, Tick(i) PROVE \A m \in Message : Handled(m)
  BY <1>4, SlotsHandled, PublishHandled, SettleHandled DEF Tick
<1>5. ASSUME NEW i \in Instance, PublishInVain(i) \/ Crash(i)
      PROVE  \A m \in Message : Handled(m)
  BY <1>5, SlotsHandled, PublishHandled
<1>6. ASSUME NEW m \in Message, RetryFallsDue(m) \/ LeaseExpires(m)
      PROVE  \A n \in Message : Handled(n)
  BY <1>6, SlotsHandled
<1> QED BY <1>1, <1>2, <1>3, <1>4, <1>5, <1>6
        DEF Next, vars, store, Expiry, Arrive, Age, Receive, Redeliver,
            LoseConnection

\* The service implements an outbox of its messages: a message is stored once, in
\* the write that makes it true, goes out only from its document, and is removed
\* from it only when the broker has had it, or a connection that was dead.
THEOREM PaymentIsAnOutbox == Spec => KeepsMessages
<1>1. Init => Outgoing!Init
  BY DEF Init, Outgoing!Init
<1>2. IInv /\ IInv' /\ [Next]_vars =>
        [Outgoing!Next]_<<[m \in Message |-> IF created[m] = 0 THEN "none"
                                   ELSE IF slots[m].in THEN "stored"
                                   ELSE "settled"], sent, dropped>>
  BY StepHandled, HandledIsNext
<1> QED BY <1>1, <1>2, Invariance, PTL DEF Spec, KeepsMessages, Outgoing!Spec
===============================================================================
