--------------------------- MODULE MembershipProofs ---------------------------
(***************************************************************************)
(* Theorems about Membership, for every set of payments and instances and  *)
(* every number and kind of faults within the delivery limit.              *)
(*                                                                         *)
(* ActivationIsWhole needs that what a handler has read stays true until   *)
(* it commits (HandInv): a receipt or a premium user it found is still     *)
(* there, and if it found no premium user the commit itself tests the      *)
(* receipt.  ReturnInv counts a fault for each return of a message whose   *)
(* user is not premium yet.  OutboxInv says that a tick records only what  *)
(* it has sent, and SendInv counts the copies of an event that the         *)
(* publishers may yet send without another fault.                          *)
(***************************************************************************)
EXTENDS Membership, FiniteSetTheorems, TLAPS

HandOK(i) ==
  /\ at[i] = "idle" <=> hand[i] = Nothing
  /\ i \in live => at[i] # "idle"
  /\ hand[i] # Nothing => copies[hand[i].payment] > 0
  /\ i \in found => /\ at[i] \in {"registered", "decided"}
                    /\ Payee(i) \in receipts
  /\ at[i] = "decided" /\ i \notin grants => Payee(i) \in premium

HandInv == /\ \A i \in Instance : HandOK(i)
           /\ \A c \in queue : copies[c.payment] > 0

\* What a message has been returned for.
Excused(c) == c.returns <= faults \/ c.payment \in premium

ReturnInv == /\ \A c \in queue : Excused(c)
             /\ \A i \in live : Excused(hand[i])
             /\ DeadLettersAreRepeated

TickOK(i, e) ==
  /\ e \in batch[i] \/ outcome[i][e] # "none" => rows[e] > 0
  /\ outcome[i][e] = "PUBLISHED" => sent[e] > 0 \/ e \in dropped

OutboxInv == /\ PublishedIsSent
             /\ \A e \in Event : status[e] = "absent" <=> rows[e] = 0
             /\ \A i \in Instance, e \in Event : TickOK(i, e)

IInv == TypeOK /\ ActivationIsWhole /\ HandInv /\ ReturnInv /\ OutboxInv

-------------------------------------------------------------------------------
(* What steps leave alone. *)

\* A listener does not touch the outbox before it commits.
LEMMA OutboxKept ==
  ASSUME IInv, UNCHANGED <<status, rows, batch, outcome, sent, dropped>>
  PROVE  OutboxInv'
BY DEF IInv, OutboxInv, PublishedIsSent, TickOK

\* A publisher does not touch what listeners look at.
LEMMA ListenersKept ==
  ASSUME IInv, UNCHANGED <<copies, queue, dead, receipts, premium, rows,
                           hand, at, live, found, grants>>,
         faults' \in Nat, faults <= faults'
  PROVE  ActivationIsWhole' /\ HandInv' /\ ReturnInv'
<1>1. ActivationIsWhole'
  BY DEF IInv, ActivationIsWhole
<1>2. HandInv'
  BY DEF IInv, HandInv, HandOK, Payee
<1>3. ReturnInv'
  <2>1. ASSUME NEW c \in Copy, Excused(c) PROVE Excused(c)'
    BY <2>1 DEF IInv, TypeOK, Excused, Copy
  <2>2. queue \subseteq Copy
    BY DEF IInv, TypeOK
  <2>3. \A i \in live : hand[i] \in Copy
    BY DEF IInv, TypeOK, HandInv, HandOK
  <2> QED BY <2>1, <2>2, <2>3 DEF IInv, ReturnInv, DeadLettersAreRepeated
<1> QED BY <1>1, <1>2, <1>3

\* Nobody is made premium and nothing confirmed.
LEMMA ActivationKept ==
  ASSUME IInv, UNCHANGED <<receipts, premium, rows>>,
         \A p \in Payment : copies[p] > 0 => copies'[p] > 0
  PROVE  ActivationIsWhole'
BY DEF IInv, TypeOK, ActivationIsWhole

\* A message is a record with a number of returns.
LEMMA InHand ==
  ASSUME IInv, NEW i \in Instance, at[i] # "idle"
  PROVE  /\ hand[i] \in Copy /\ hand[i] # Nothing
         /\ Payee(i) \in Payment /\ copies[Payee(i)] > 0
         /\ hand[i].returns \in 0..DeliveryLimit
BY NothingIsNew DEF IInv, TypeOK, HandInv, HandOK, Payee, Copy

\* A message is returned at the price of a fault, or its user is premium.
LEMMA ReturnedIs ==
  ASSUME IInv, NEW i \in Instance, Returned(i), at[i] # "idle",
         UNCHANGED <<copies, premium>>,
         \/ faults < MaxFaults /\ faults' = faults + 1
         \/ Payee(i) \in premium /\ faults' = faults
  PROVE  /\ queue' \subseteq Copy /\ dead' \subseteq Copy
         /\ \A c \in queue' : copies'[c.payment] > 0 /\ Excused(c)'
         /\ DeadLettersAreRepeated'
<1>1. /\ hand[i] \in Copy /\ copies[hand[i].payment] > 0
      /\ hand[i].returns \in 0..DeliveryLimit
  BY InHand DEF Payee
<1>2. /\ queue \subseteq Copy /\ dead \subseteq Copy
      /\ faults \in Nat /\ MaxFaults <= DeliveryLimit
      /\ DeliveryLimit \in Nat /\ MaxFaults \in Nat
  BY BoundsAreNat, LimitIsEnough DEF IInv, TypeOK
<1>3. /\ \A c \in queue : copies[c.payment] > 0 /\ Excused(c)
      /\ DeadLettersAreRepeated
      /\ i \in live => Excused(hand[i])
  BY DEF IInv, HandInv, ReturnInv
<1>4. \A c \in queue : Excused(c)'
  BY <1>2, <1>3 DEF Excused, Copy
<1>5. CASE i \notin live
  BY <1>2, <1>3, <1>4, <1>5 DEF Returned, DeadLettersAreRepeated
<1>6. CASE i \in live /\ hand[i].returns < DeliveryLimit
  <2>1. [hand[i] EXCEPT !.returns = @ + 1] \in Copy
    BY <1>1, <1>2, <1>6 DEF Copy
  <2>2. PICK c \in Copy : c = [hand[i] EXCEPT !.returns = @ + 1]
    BY <2>1
  <2>3. c.payment = hand[i].payment /\ c.returns = hand[i].returns + 1
    BY <1>1, <2>2 DEF Copy
  <2>4. queue' = queue \cup {c} /\ dead' = dead
    BY <1>6, <2>2 DEF Returned
  <2>5. Excused(c)'
    BY <1>1, <1>2, <1>3, <1>6, <2>3 DEF Excused, Payee
  <2> QED BY <1>1, <1>2, <1>3, <1>4, <2>3, <2>4, <2>5 DEF DeadLettersAreRepeated
<1>7. CASE i \in live /\ ~(hand[i].returns < DeliveryLimit)
  <2>1. queue' = queue /\ dead' = dead \cup {hand[i]}
    BY <1>7 DEF Returned
  <2>2. hand[i].payment \in premium
    BY <1>1, <1>2, <1>3, <1>7 DEF Excused, Payee
  <2> QED BY <1>1, <1>2, <1>3, <1>4, <2>1, <2>2 DEF DeadLettersAreRepeated
<1> QED BY <1>5, <1>6, <1>7

-------------------------------------------------------------------------------
(* The listener, action by action. *)

\* A confirmation is published.
LEMMA ConfirmStep == ASSUME IInv, NEW p \in Payment, Confirm(p) PROVE IInv'
<1> DEFINE c == [payment |-> p, copy |-> copies[p] + 1, returns |-> 0]
<1>1. /\ copies' = [copies EXCEPT ![p] = @ + 1] /\ queue' = queue \cup {c}
      /\ UNCHANGED <<dead, receipts, premium, status, rows, due, hand, at, live,
                     found, grants, batch, outcome, sent, dropped, faults>>
  BY DEF Confirm, store, listener, publisher
<1>2. /\ c \in Copy /\ c.payment = p /\ c.returns = 0
      /\ copies' \in [Payment -> 0..MaxCopies]
      /\ copies'[p] > 0 /\ \A q \in Payment : copies[q] > 0 => copies'[q] > 0
  BY <1>1, BoundsAreNat DEF Confirm, IInv, TypeOK, Copy
<1> HIDE DEF c
<1>3. TypeOK'
  BY <1>1, <1>2 DEF IInv, TypeOK
<1>4. HandInv'
  <2>1. queue \subseteq Copy /\ \A i \in Instance : hand[i] \in Copy \cup {Nothing}
    BY DEF IInv, TypeOK
  <2>2. \A d \in Copy : copies[d.payment] > 0 => copies'[d.payment] > 0
    BY <1>2 DEF Copy
  <2> QED BY <1>1, <1>2, <2>1, <2>2 DEF IInv, HandInv, HandOK, Payee
<1>5. ReturnInv'
  <2>1. faults \in Nat
    BY DEF IInv, TypeOK
  <2> QED BY <1>1, <1>2, <2>1
          DEF IInv, ReturnInv, Excused, DeadLettersAreRepeated
<1> QED BY <1>1, <1>2, <1>3, <1>4, <1>5, ActivationKept, OutboxKept DEF IInv

\* A listener takes a message out of the queue.
LEMMA ReceiveStep == ASSUME IInv, NEW i \in Instance, Receive(i) PROVE IInv'
<1>1. PICK c \in queue : /\ queue' = queue \ {c}
                         /\ hand' = [hand EXCEPT ![i] = c]
  BY DEF Receive
<1>2. /\ at[i] = "idle" /\ at' = [at EXCEPT ![i] = "received"]
      /\ live' = live \cup {i}
      /\ UNCHANGED <<copies, dead, receipts, premium, status, rows, due, found,
                     grants, batch, outcome, sent, dropped, faults>>
  BY DEF Receive, store, publisher
<1>3. c \in Copy /\ c # Nothing /\ copies[c.payment] > 0 /\ Excused(c)
  BY NothingIsNew DEF IInv, TypeOK, HandInv, ReturnInv
<1>4. TypeOK'
  BY <1>1, <1>2, <1>3 DEF IInv, TypeOK
<1>5. /\ hand'[i] = c /\ at'[i] = "received" /\ i \notin found
      /\ \A j \in Instance \ {i} : hand'[j] = hand[j] /\ at'[j] = at[j]
  BY <1>1, <1>2 DEF IInv, TypeOK, HandInv, HandOK
<1>6. HandInv'
  <2>1. HandOK(i)'
    BY <1>2, <1>3, <1>5 DEF HandOK
  <2>2. ASSUME NEW j \in Instance \ {i} PROVE HandOK(j)'
    BY <1>2, <1>5 DEF IInv, HandInv, HandOK, Payee
  <2> QED BY <1>1, <1>2, <2>1, <2>2 DEF IInv, HandInv
<1>7. ReturnInv'
  <2>1. live \subseteq Instance
    BY DEF IInv, TypeOK
  <2> QED BY <1>1, <1>2, <1>3, <1>5, <2>1
          DEF IInv, ReturnInv, Excused, DeadLettersAreRepeated
<1> QED BY <1>2, <1>4, <1>6, <1>7, ActivationKept, OutboxKept DEF IInv

\* A listener looks for the receipt, or for the user.
LEMMA ReadStep ==
  ASSUME IInv, NEW i \in Instance, Register(i) \/ FindUser(i)
  PROVE  IInv'
<1>1. PICK place \in {"registered", "decided"} :
        /\ at' = [at EXCEPT ![i] = place]
        /\ at[i] \in {"received", "registered"}
        /\ \/ /\ place = "registered" /\ grants' = grants
              /\ found' = IF Payee(i) \in receipts THEN found \cup {i} ELSE found
           \/ /\ place = "decided" /\ at[i] = "registered" /\ found' = found
              /\ grants' = IF Payee(i) \in premium THEN grants
                                                   ELSE grants \cup {i}
  BY DEF Register, FindUser
<1>2. UNCHANGED <<copies, queue, dead, receipts, premium, status, rows, due, hand,
                  live, batch, outcome, sent, dropped, faults>>
  BY DEF Register, FindUser, store, publisher
<1>3. TypeOK'
  BY <1>1, <1>2 DEF IInv, TypeOK
<1>4. at'[i] = place /\ \A j \in Instance \ {i} : at'[j] = at[j]
  BY <1>1 DEF IInv, TypeOK
<1>5. HandInv'
  <2>1. HandOK(i)'
    BY <1>1, <1>2, <1>4 DEF IInv, HandInv, HandOK, Payee
  <2>2. ASSUME NEW j \in Instance \ {i} PROVE HandOK(j)'
    BY <1>1, <1>2, <1>4 DEF IInv, HandInv, HandOK, Payee
  <2> QED BY <1>2, <2>1, <2>2 DEF IInv, HandInv
<1>6. ReturnInv'
  BY <1>2 DEF IInv, ReturnInv, Excused, DeadLettersAreRepeated
<1> QED BY <1>2, <1>3, <1>5, <1>6, ActivationKept, OutboxKept DEF IInv

\* The first handler of a payment makes its user premium, and no other commits.
LEMMA CommitActivationStep ==
  ASSUME IInv, NEW i \in Instance, CommitActivation(i)
  PROVE  IInv'
<1> DEFINE p == Payee(i)
<1>1. /\ at[i] = "decided" /\ i \notin found /\ p \notin receipts
      /\ receipts' = receipts \cup {p}
      /\ at' = [at EXCEPT ![i] = "handled"]
      /\ found' = found \ {i} /\ grants' = grants \ {i}
      /\ UNCHANGED <<copies, queue, dead, hand, live, batch, outcome, sent, dropped,
                     faults>>
  BY DEF CommitActivation, Conflicts, Finished, publisher
<1>2. p \in Payment /\ copies[p] > 0
  BY <1>1, InHand
<1>3. i \in grants /\ p \notin premium
  BY <1>1 DEF IInv, ActivationIsWhole, HandInv, HandOK
<1>4. /\ premium' = premium \cup {p}
      /\ status' = [e \in Event |-> IF e \in EventsOf(p) THEN "PENDING"
                                                         ELSE status[e]]
      /\ rows' = [e \in Event |-> IF e \in EventsOf(p) THEN rows[e] + 1
                                                       ELSE rows[e]]
      /\ due' = due \cup EventsOf(p)
  BY <1>3 DEF CommitActivation
<1> HIDE DEF p
<1>5. \A e \in Event : e \in EventsOf(p) <=> e.payment = p
  BY DEF EventsOf
<1>6. \A e \in Event : rows[e] = IF e.payment \in premium THEN 1 ELSE 0
  BY DEF IInv, ActivationIsWhole
<1>7. \A e \in Event : /\ e.payment = p => rows[e] = 0 /\ rows'[e] = 1
                                            /\ status'[e] = "PENDING"
                       /\ e.payment # p => /\ rows'[e] = rows[e]
                                           /\ status'[e] = status[e]
  BY <1>3, <1>4, <1>5, <1>6
<1>8. TypeOK'
  <2>1. rows' \in [Event -> 0..1]
    BY <1>4, <1>7 DEF IInv, TypeOK
  <2>2. status' \in [Event -> {"absent", "PENDING", "PUBLISHED"}]
    BY <1>4, <1>7 DEF IInv, TypeOK
  <2>3. due' \subseteq Event
    BY <1>4 DEF EventsOf, IInv, TypeOK
  <2> QED BY <1>1, <1>2, <1>4, <2>1, <2>2, <2>3 DEF IInv, TypeOK
<1>9. ActivationIsWhole'
  <2>1. ASSUME NEW e \in Event
        PROVE  rows'[e] = IF e.payment \in premium' THEN 1 ELSE 0
    BY <1>3, <1>4, <1>6, <1>7
  <2> QED BY <1>1, <1>2, <1>4, <2>1 DEF IInv, ActivationIsWhole
<1>10. HandInv'
  <2>1. at'[i] = "handled" /\ \A j \in Instance \ {i} : at'[j] = at[j]
    BY <1>1 DEF IInv, TypeOK
  <2>2. HandOK(i)'
    BY <1>1, <2>1 DEF IInv, HandInv, HandOK
  <2>3. ASSUME NEW j \in Instance \ {i} PROVE HandOK(j)'
    BY <1>1, <1>4, <2>1 DEF IInv, HandInv, HandOK, Payee
  <2> QED BY <1>1, <2>2, <2>3 DEF IInv, HandInv
<1>11. ReturnInv'
  BY <1>1, <1>4 DEF IInv, ReturnInv, Excused, DeadLettersAreRepeated
<1>12. OutboxInv'
  <2>1. PublishedIsSent'
    BY <1>1, <1>7 DEF IInv, OutboxInv, PublishedIsSent
  <2>2. \A e \in Event : status'[e] = "absent" <=> rows'[e] = 0
    BY <1>7 DEF IInv, OutboxInv
  <2>3. \A j \in Instance, e \in Event : TickOK(j, e)'
    BY <1>1, <1>7 DEF IInv, OutboxInv, TickOK
  <2> QED BY <2>1, <2>2, <2>3 DEF OutboxInv
<1> QED BY <1>8, <1>9, <1>10, <1>11, <1>12 DEF IInv

\* What remains when a handler has ended and its message is back.
LEMMA HandlerEnds ==
  ASSUME IInv, NEW i \in Instance, at[i] # "idle", Returned(i),
         Finished(i, "idle"), Dismissed(i), UNCHANGED <<copies, receipts, premium>>,
         \/ faults < MaxFaults /\ faults' = faults + 1
         \/ Payee(i) \in premium /\ faults' = faults
  PROVE  /\ queue' \subseteq Copy /\ dead' \subseteq Copy
         /\ hand' \in [Instance -> Copy \cup {Nothing}]
         /\ at' \in [Instance -> {"idle", "received", "registered", "decided",
                                  "handled"}]
         /\ live' \subseteq Instance /\ found' \subseteq Instance
         /\ grants' \subseteq Instance /\ faults' \in 0..MaxFaults
         /\ HandInv' /\ ReturnInv'
<1>1. /\ at' = [at EXCEPT ![i] = "idle"] /\ hand' = [hand EXCEPT ![i] = Nothing]
      /\ live' = live \ {i} /\ found' = found \ {i} /\ grants' = grants \ {i}
  BY DEF Finished, Dismissed
<1>2. /\ queue' \subseteq Copy /\ dead' \subseteq Copy
      /\ \A c \in queue' : copies'[c.payment] > 0 /\ Excused(c)'
      /\ DeadLettersAreRepeated'
  BY ReturnedIs
<1>3. /\ hand' \in [Instance -> Copy \cup {Nothing}]
      /\ at' \in [Instance -> {"idle", "received", "registered", "decided",
                               "handled"}]
      /\ live' \subseteq Instance /\ found' \subseteq Instance
      /\ grants' \subseteq Instance
      /\ hand'[i] = Nothing /\ at'[i] = "idle"
      /\ \A j \in Instance \ {i} : hand'[j] = hand[j] /\ at'[j] = at[j]
  BY <1>1 DEF IInv, TypeOK
<1>4. faults \in Nat /\ faults' \in 0..MaxFaults /\ faults <= faults'
  BY BoundsAreNat DEF IInv, TypeOK
<1>5. HandInv'
  <2>1. HandOK(i)'
    BY <1>1, <1>3 DEF HandOK
  <2>2. ASSUME NEW j \in Instance \ {i} PROVE HandOK(j)'
    BY <1>1, <1>3 DEF IInv, HandInv, HandOK, Payee
  <2> QED BY <1>2, <2>1, <2>2 DEF HandInv
<1>6. ReturnInv'
  <2>1. ASSUME NEW j \in live' PROVE Excused(hand[j])'
    <3>1. j \in live /\ j \in Instance /\ hand'[j] = hand[j]
      BY <1>1, <1>3, <2>1 DEF IInv, TypeOK
    <3>2. Excused(hand[j]) /\ hand[j] \in Copy
      BY <3>1, InHand DEF IInv, ReturnInv, HandInv, HandOK
    <3> QED BY <1>4, <3>1, <3>2 DEF Excused, Copy
  <2> QED BY <1>2, <2>1 DEF ReturnInv
<1> QED BY <1>2, <1>3, <1>4, <1>5, <1>6

\* A handler fails, because of a fault or because its user is premium.
LEMMA FailActivationStep ==
  ASSUME IInv, NEW i \in Instance, FailActivation(i)
  PROVE  IInv'
<1>1. /\ at[i] = "decided" /\ Returned(i) /\ Finished(i, "idle") /\ Dismissed(i)
      /\ UNCHANGED <<copies, receipts, premium, status, rows, due, batch, outcome,
                     sent, dropped>>
  BY DEF FailActivation, store, publisher
<1>2. \/ faults < MaxFaults /\ faults' = faults + 1
      \/ Payee(i) \in premium /\ faults' = faults
  BY DEF FailActivation, Fault, Conflicts, IInv, ActivationIsWhole, HandInv, HandOK
<1>3. TypeOK'
  BY <1>1, <1>2, HandlerEnds DEF IInv, TypeOK
<1> QED BY <1>1, <1>2, <1>3, HandlerEnds, ActivationKept, OutboxKept DEF IInv

\* A handler is acknowledged.
LEMMA AckStep == ASSUME IInv, NEW i \in Instance, Ack(i) PROVE IInv'
<1>1. /\ at[i] = "handled"
      /\ at' = [at EXCEPT ![i] = "idle"] /\ hand' = [hand EXCEPT ![i] = Nothing]
      /\ live' = live \ {i}
      /\ UNCHANGED <<copies, queue, dead, receipts, premium, status, rows, due,
                     found, grants, batch, outcome, sent, dropped, faults>>
  BY DEF Ack, Dismissed, store, publisher
<1>2. TypeOK'
  BY <1>1 DEF IInv, TypeOK
<1>3. /\ hand'[i] = Nothing /\ at'[i] = "idle" /\ i \notin found
      /\ \A j \in Instance \ {i} : hand'[j] = hand[j] /\ at'[j] = at[j]
  BY <1>1 DEF IInv, TypeOK, HandInv, HandOK
<1>4. HandInv'
  <2>1. HandOK(i)'
    BY <1>1, <1>3 DEF HandOK
  <2>2. ASSUME NEW j \in Instance \ {i} PROVE HandOK(j)'
    BY <1>1, <1>3 DEF IInv, HandInv, HandOK, Payee
  <2> QED BY <1>1, <2>1, <2>2 DEF IInv, HandInv
<1>5. ReturnInv'
  <2>1. live \subseteq Instance
    BY DEF IInv, TypeOK
  <2> QED BY <1>1, <1>3, <2>1
          DEF IInv, ReturnInv, Excused, DeadLettersAreRepeated
<1> QED BY <1>1, <1>2, <1>4, <1>5, ActivationKept, OutboxKept DEF IInv

\* A handler goes on while its message is delivered again.
LEMMA LoseConnectionStep ==
  ASSUME IInv, NEW i \in Instance, LoseConnection(i)
  PROVE  IInv'
<1>1. /\ i \in live /\ Returned(i) /\ live' = live \ {i}
      /\ faults < MaxFaults /\ faults' = faults + 1
      /\ UNCHANGED <<copies, receipts, premium, status, rows, due, hand, at, found,
                     grants, batch, outcome, sent, dropped>>
  BY DEF LoseConnection, Fault, store, publisher
<1>2. at[i] # "idle"
  BY <1>1 DEF IInv, HandInv, HandOK
<1>3. /\ queue' \subseteq Copy /\ dead' \subseteq Copy
      /\ \A c \in queue' : copies'[c.payment] > 0 /\ Excused(c)'
      /\ DeadLettersAreRepeated'
  BY <1>1, <1>2, ReturnedIs
<1>4. faults \in Nat /\ faults' \in 0..MaxFaults
  BY <1>1, BoundsAreNat DEF IInv, TypeOK
<1>5. TypeOK'
  BY <1>1, <1>3, <1>4 DEF IInv, TypeOK
<1>6. HandInv'
  BY <1>1, <1>3 DEF IInv, HandInv, HandOK, Payee
<1>7. ReturnInv'
  <2>1. ASSUME NEW j \in live' PROVE Excused(hand[j])'
    <3>1. j \in live /\ j \in Instance
      BY <1>1, <2>1 DEF IInv, TypeOK
    <3>2. Excused(hand[j]) /\ hand[j] \in Copy
      BY <3>1, InHand DEF IInv, ReturnInv, HandInv, HandOK
    <3> QED BY <1>1, <1>4, <3>2 DEF Excused, Copy
  <2> QED BY <1>3, <2>1 DEF ReturnInv
<1> QED BY <1>1, <1>5, <1>6, <1>7, ActivationKept, OutboxKept DEF IInv

-------------------------------------------------------------------------------
(* The publisher, action by action. *)

\* A tick selects events that are there.
LEMMA SelectStep == ASSUME IInv, NEW i \in Instance, Select(i) PROVE IInv'
<1>1. /\ batch' = [batch EXCEPT ![i] = {e \in due : status[e] = "PENDING"}]
      /\ UNCHANGED <<copies, queue, dead, receipts, premium, status, rows, due,
                     hand, at, live, found, grants, outcome, sent, dropped,
                     faults>>
  BY DEF Select, store, listener
<1>2. due \subseteq Event /\ faults \in Nat
  BY DEF IInv, TypeOK
<1>3. TypeOK'
  BY <1>1, <1>2 DEF IInv, TypeOK
<1>4. \A e \in Event : status[e] = "PENDING" => rows[e] > 0
  BY DEF IInv, TypeOK, OutboxInv
<1>5. \A j \in Instance, e \in Event : TickOK(j, e)'
  <2>1. ASSUME NEW e \in Event PROVE TickOK(i, e)'
    BY <1>1, <1>2, <1>4 DEF IInv, TypeOK, OutboxInv, TickOK
  <2>2. ASSUME NEW j \in Instance \ {i}, NEW e \in Event PROVE TickOK(j, e)'
    BY <1>1 DEF IInv, TypeOK, OutboxInv, TickOK
  <2> QED BY <2>1, <2>2
<1>6. OutboxInv'
  BY <1>1, <1>5 DEF IInv, OutboxInv, PublishedIsSent
<1> QED BY <1>1, <1>2, <1>3, <1>6, ListenersKept DEF IInv

\* What a tick does with an event of its batch.
LEMMA Sends ==
  ASSUME IInv, NEW i \in Instance, NEW e \in Event, Send(i, e)
  PROVE  /\ e \in batch[i] /\ rows[e] > 0
         /\ batch' = [batch EXCEPT ![i] = @ \ {e}]
         /\ UNCHANGED <<copies, queue, dead, receipts, premium, status, rows, due,
                        hand, at, live, found, grants>>
         /\ \E result \in {"PENDING", "PUBLISHED"} :
              /\ outcome' = [outcome EXCEPT ![i][e] = result]
              /\ \/ /\ result = "PUBLISHED" /\ sent' = [sent EXCEPT ![e] = @ + 1]
                    /\ dropped' = dropped /\ faults' = faults
                 \/ /\ result = "PENDING" /\ sent' = sent /\ dropped' = dropped
                    /\ faults < MaxFaults /\ faults' = faults + 1
                 \/ /\ result = "PUBLISHED" /\ sent' = sent
                    /\ dropped' = dropped \cup {e}
                    /\ faults < MaxFaults /\ faults' = faults + 1
BY DEF Send, Settled, Retry, Fault, store, listener, IInv, OutboxInv, TickOK

\* An event is sent, or not.
LEMMA SendStep ==
  ASSUME IInv, NEW i \in Instance, NEW e \in Event, Send(i, e)
  PROVE  IInv'
<1>1. PICK result \in {"PENDING", "PUBLISHED"} :
        /\ outcome' = [outcome EXCEPT ![i][e] = result]
        /\ \/ /\ result = "PUBLISHED" /\ sent' = [sent EXCEPT ![e] = @ + 1]
              /\ dropped' = dropped /\ faults' = faults
           \/ /\ result = "PENDING" /\ sent' = sent /\ dropped' = dropped
              /\ faults < MaxFaults /\ faults' = faults + 1
           \/ /\ result = "PUBLISHED" /\ sent' = sent
              /\ dropped' = dropped \cup {e}
              /\ faults < MaxFaults /\ faults' = faults + 1
  BY Sends
<1>2. /\ rows[e] > 0
      /\ batch' = [batch EXCEPT ![i] = @ \ {e}]
      /\ UNCHANGED <<copies, queue, dead, receipts, premium, status, rows, due,
                     hand, at, live, found, grants>>
  BY Sends
<1>3. /\ sent \in [Event -> Nat] /\ faults \in Nat /\ MaxFaults \in Nat
      /\ outcome \in [Instance -> [Event -> {"none", "PENDING", "PUBLISHED"}]]
      /\ batch \in [Instance -> SUBSET Event] /\ dropped \subseteq Event
      /\ faults \in 0..MaxFaults
  BY BoundsAreNat DEF IInv, TypeOK
<1>4. /\ sent' \in [Event -> Nat] /\ dropped' \subseteq Event
      /\ faults' \in 0..MaxFaults /\ faults <= faults'
      /\ dropped \subseteq dropped' /\ \A d \in Event : sent[d] <= sent'[d]
      /\ \A d \in Event \ {e} : sent'[d] = sent[d]
  <2>1. CASE sent' = sent
    BY <1>1, <1>3, <2>1
  <2>2. CASE sent' = [sent EXCEPT ![e] = @ + 1]
    BY <1>1, <1>3, <2>2
  <2> QED BY <1>1, <2>1, <2>2
<1>5. /\ outcome' \in [Instance -> [Event -> {"none", "PENDING", "PUBLISHED"}]]
      /\ outcome'[i][e] = result
      /\ \A j \in Instance, d \in Event :
           j # i \/ d # e => outcome'[j][d] = outcome[j][d]
  BY <1>1, <1>3
<1>6. /\ batch' \in [Instance -> SUBSET Event]
      /\ \A j \in Instance : batch'[j] \subseteq batch[j]
  BY <1>2, <1>3
<1>7. TypeOK'
  BY <1>2, <1>4, <1>5, <1>6 DEF IInv, TypeOK
<1>8. result = "PUBLISHED" => sent'[e] > 0 \/ e \in dropped'
  BY <1>1, <1>3
<1>9. ASSUME NEW j \in Instance, NEW d \in Event PROVE TickOK(j, d)'
  <2>1. TickOK(j, d)
    BY DEF IInv, OutboxInv
  <2>2. sent[d] \in Nat /\ sent'[d] \in Nat /\ sent[d] <= sent'[d]
    BY <1>3, <1>4
  <2>3. CASE j = i /\ d = e
    BY <1>2, <1>5, <1>8, <2>3 DEF TickOK
  <2>4. CASE j # i \/ d # e
    BY <1>2, <1>4, <1>5, <1>6, <2>1, <2>2, <2>4 DEF TickOK
  <2> QED BY <2>3, <2>4
<1>10. PublishedIsSent'
  <2> SUFFICES ASSUME NEW d \in Event
               PROVE  /\ status'[d] = "PUBLISHED" => sent'[d] > 0 \/ d \in dropped'
                      /\ sent'[d] > 0 => rows'[d] > 0
    BY DEF PublishedIsSent
  <2>1. /\ sent[d] \in Nat /\ sent'[d] \in Nat /\ sent[d] <= sent'[d]
        /\ d # e => sent'[d] = sent[d]
    BY <1>3, <1>4
  <2> QED BY <1>2, <1>4, <2>1 DEF IInv, OutboxInv, PublishedIsSent
<1>11. OutboxInv'
  BY <1>2, <1>9, <1>10 DEF IInv, OutboxInv
<1> QED BY <1>2, <1>3, <1>4, <1>7, <1>11, ListenersKept DEF IInv

\* A tick commits what it has sent, or fails.
LEMMA EndTickStep ==
  ASSUME IInv, NEW i \in Instance, CommitTick(i) \/ FailTick(i)
  PROVE  IInv'
<1>1. /\ outcome' = [outcome EXCEPT ![i] = Untouched]
      /\ UNCHANGED <<copies, queue, dead, receipts, premium, rows, hand, at, live,
                     found, grants, batch, sent, dropped>>
      /\ status' = Written(i) \/ status' = status
      /\ due' \subseteq due
      /\ faults' = faults \/ (faults < MaxFaults /\ faults' = faults + 1)
  BY DEF CommitTick, FailTick, Ended, Fault, store, listener
<1>2. /\ faults \in 0..MaxFaults /\ MaxFaults \in Nat
      /\ outcome \in [Instance -> [Event -> {"none", "PENDING", "PUBLISHED"}]]
      /\ status \in [Event -> {"absent", "PENDING", "PUBLISHED"}]
  BY BoundsAreNat DEF IInv, TypeOK
<1>3. \A e \in Event :
        \/ status'[e] = status[e]
        \/ outcome[i][e] # "none" /\ status'[e] = outcome[i][e]
  BY <1>1 DEF Written, Touched
<1>4. status' \in [Event -> {"absent", "PENDING", "PUBLISHED"}]
  <2>1. CASE status' = Written(i)
    BY <1>2, <2>1 DEF Written, Touched
  <2> QED BY <1>1, <1>2, <2>1
<1>5. Untouched \in [Event -> {"none", "PENDING", "PUBLISHED"}]
      /\ \A e \in Event : Untouched[e] = "none"
  BY DEF Untouched
<1>6. faults' \in 0..MaxFaults /\ faults <= faults'
  BY <1>1, <1>2
<1>7. TypeOK'
  BY <1>1, <1>4, <1>5, <1>6 DEF IInv, TypeOK
<1>8. ASSUME NEW e \in Event
      PROVE  /\ status'[e] = "absent" <=> rows'[e] = 0
             /\ status'[e] = "PUBLISHED" => sent'[e] > 0 \/ e \in dropped'
             /\ sent'[e] > 0 => rows'[e] > 0
  <2>1. TickOK(i, e) /\ rows[e] \in 0..1
    BY DEF IInv, TypeOK, OutboxInv
  <2>2. outcome[i][e] \in {"none", "PENDING", "PUBLISHED"}
    BY <1>2
  <2> QED BY <1>1, <1>3, <2>1, <2>2 DEF IInv, OutboxInv, PublishedIsSent, TickOK
<1>9. ASSUME NEW j \in Instance, NEW e \in Event PROVE TickOK(j, e)'
  <2>1. outcome'[j][e] = outcome[j][e] \/ outcome'[j][e] = "none"
    BY <1>1, <1>2, <1>5
  <2> QED BY <1>1, <2>1 DEF IInv, OutboxInv, TickOK
<1>10. OutboxInv'
  BY <1>8, <1>9 DEF OutboxInv, PublishedIsSent
<1> QED BY <1>1, <1>2, <1>6, <1>7, <1>10, ListenersKept DEF IInv

\* Time passes.
LEMMA RetryFallsDueStep ==
  ASSUME IInv, NEW e \in Event, RetryFallsDue(e)
  PROVE  IInv'
<1>1. /\ due' = due \cup {e}
      /\ UNCHANGED <<copies, queue, dead, receipts, premium, status, rows, hand, at,
                     live, found, grants, batch, outcome, sent, dropped, faults>>
  BY DEF RetryFallsDue, listener, publisher
<1>2. TypeOK' /\ faults' \in Nat /\ faults <= faults'
  BY <1>1 DEF IInv, TypeOK
<1> QED BY <1>1, <1>2, ListenersKept, OutboxKept DEF IInv

\* A process ends.
LEMMA CrashStep == ASSUME IInv, NEW i \in Instance, Crash(i) PROVE IInv'
<1>1. /\ Returned(i) /\ Finished(i, "idle") /\ Dismissed(i)
      /\ batch' = [batch EXCEPT ![i] = {}]
      /\ outcome' = [outcome EXCEPT ![i] = Untouched]
      /\ faults < MaxFaults /\ faults' = faults + 1
      /\ UNCHANGED <<copies, receipts, premium, status, rows, due, sent, dropped>>
  BY DEF Crash, Fault, Ended, store
<1>2. /\ Untouched \in [Event -> {"none", "PENDING", "PUBLISHED"}]
      /\ \A e \in Event : Untouched[e] = "none"
  BY DEF Untouched
<1>3. /\ outcome \in [Instance -> [Event -> {"none", "PENDING", "PUBLISHED"}]]
      /\ batch \in [Instance -> SUBSET Event] /\ faults \in 0..MaxFaults
      /\ MaxFaults \in Nat
  BY BoundsAreNat DEF IInv, TypeOK
<1>4. /\ outcome' \in [Instance -> [Event -> {"none", "PENDING", "PUBLISHED"}]]
      /\ batch' \in [Instance -> SUBSET Event]
      /\ \A j \in Instance, e \in Event :
           /\ e \in batch'[j] => e \in batch[j]
           /\ outcome'[j][e] = outcome[j][e] \/ outcome'[j][e] = "none"
  BY <1>1, <1>2, <1>3
<1>5. OutboxInv'
  <2>1. \A j \in Instance, e \in Event : TickOK(j, e)'
    BY <1>1, <1>4 DEF IInv, OutboxInv, TickOK
  <2> QED BY <1>1, <2>1 DEF IInv, OutboxInv, PublishedIsSent
<1>6. CASE at[i] # "idle"
  <2>1. TypeOK'
    BY <1>1, <1>4, <1>6, HandlerEnds DEF IInv, TypeOK
  <2> QED BY <1>1, <1>5, <1>6, <2>1, HandlerEnds, ActivationKept DEF IInv
<1>7. CASE at[i] = "idle"
  <2>1. i \notin live /\ i \notin found /\ hand[i] = Nothing
    BY <1>7 DEF IInv, HandInv, HandOK
  <2>2. /\ at' = [at EXCEPT ![i] = "idle"] /\ hand' = [hand EXCEPT ![i] = Nothing]
        /\ live' = live \ {i} /\ found' = found \ {i} /\ grants' = grants \ {i}
        /\ UNCHANGED <<queue, dead>>
    BY <1>1, <2>1 DEF Returned, Finished, Dismissed
  <2>3. /\ at' = at /\ hand' = hand /\ live' = live /\ found' = found
        /\ grants' \subseteq grants /\ \A j \in Instance \ {i} :
                                         j \in grants => j \in grants'
    BY <1>7, <2>1, <2>2 DEF IInv, TypeOK
  <2>4. faults' \in 0..MaxFaults /\ faults <= faults' /\ faults' \in Nat
    BY <1>1, <1>3
  <2>5. TypeOK'
    BY <1>1, <1>4, <2>2, <2>3, <2>4 DEF IInv, TypeOK
  <2>6. HandInv'
    BY <1>1, <1>7, <2>2, <2>3 DEF IInv, HandInv, HandOK, Payee
  <2>7. ReturnInv'
    <3>1. ASSUME NEW c \in Copy, Excused(c) PROVE Excused(c)'
      BY <1>1, <1>3, <2>4, <3>1 DEF Excused, Copy
    <3>2. queue \subseteq Copy /\ live \subseteq Instance
      BY DEF IInv, TypeOK
    <3>3. \A j \in live : hand[j] \in Copy
      BY DEF IInv, TypeOK, HandInv, HandOK
    <3> QED BY <1>1, <2>2, <2>3, <3>1, <3>2, <3>3
            DEF IInv, ReturnInv, DeadLettersAreRepeated
  <2> QED BY <1>1, <1>5, <2>5, <2>6, <2>7, ActivationKept DEF IInv
<1> QED BY <1>6, <1>7

-------------------------------------------------------------------------------
(* The inductive invariant. *)

\* Nothing has been confirmed when the service starts.
LEMMA InitInv == ASSUME Init PROVE IInv
<1>1. Untouched \in [Event -> {"none", "PENDING", "PUBLISHED"}]
      /\ \A e \in Event : Untouched[e] = "none"
  BY DEF Untouched
<1>2. TypeOK
  BY <1>1, BoundsAreNat DEF Init, TypeOK
<1>3. ActivationIsWhole /\ HandInv /\ ReturnInv
  BY DEF Init, ActivationIsWhole, HandInv, HandOK, ReturnInv,
     DeadLettersAreRepeated
<1>4. OutboxInv
  BY <1>1 DEF Init, OutboxInv, PublishedIsSent, TickOK
<1> QED BY <1>2, <1>3, <1>4 DEF IInv

\* Every action keeps it.
LEMMA StepInv == ASSUME IInv, [Next]_vars PROVE IInv'
<1>1. CASE UNCHANGED vars
  <2>1. UNCHANGED <<copies, queue, dead, receipts, premium, status, rows, due, hand,
                    at, live, found, grants, batch, outcome, sent, dropped, faults>>
    BY <1>1 DEF vars, store, listener, publisher
  <2>2. TypeOK' /\ faults' \in Nat /\ faults <= faults'
    BY <2>1 DEF IInv, TypeOK
  <2> QED BY <2>1, <2>2, ListenersKept, OutboxKept DEF IInv
<1>2. ASSUME NEW p \in Payment, Confirm(p) PROVE IInv'
  BY <1>2, ConfirmStep
<1>3. ASSUME NEW i \in Instance,
             \/ Receive(i) \/ Listen(i) \/ LoseConnection(i)
             \/ Tick(i) \/ FailTick(i) \/ Crash(i)
      PROVE  IInv'
  <2>1. CASE Listen(i)
    BY <2>1, ReadStep, CommitActivationStep, FailActivationStep, AckStep DEF Listen
  <2>2. CASE Tick(i)
    BY <2>2, SelectStep, SendStep, EndTickStep DEF Tick
  <2> QED BY <1>3, <2>1, <2>2, ReceiveStep, LoseConnectionStep, EndTickStep, CrashStep
<1>4. ASSUME NEW e \in Event, RetryFallsDue(e) PROVE IInv'
  BY <1>4, RetryFallsDueStep
<1> QED BY <1>1, <1>2, <1>3, <1>4 DEF Next

\* IInv holds in every reachable state.
THEOREM Invariance == Spec => []IInv
<1>1. Init => IInv
  BY InitInv
<1>2. IInv /\ [Next]_vars => IInv'
  BY StepInv
<1> QED BY <1>1, <1>2, PTL DEF Spec

-------------------------------------------------------------------------------
(* The properties of the run. *)

\* The variables keep their types; in particular no event has two rows and no
\* message is delivered more often than the limit allows.
THEOREM TypeCorrect == Spec => []TypeOK
<1>1. IInv => TypeOK
  BY DEF IInv
<1> QED BY <1>1, Invariance, PTL

\* However often payment.confirmed is delivered and however its handlers overlap,
\* a user becomes premium once, with one row for each event.
THEOREM PremiumIsGrantedOnce == Spec => []ActivationIsWhole
<1>1. IInv => ActivationIsWhole
  BY DEF IInv
<1> QED BY <1>1, Invariance, PTL

\* No confirmation is given up before its user is premium.
THEOREM NothingIsGivenUp == Spec => []DeadLettersAreRepeated
<1>1. IInv => DeadLettersAreRepeated
  BY DEF IInv, ReturnInv
<1> QED BY <1>1, Invariance, PTL

\* Whatever ticks overlap, fail or overwrite each other, a row is PUBLISHED only
\* when its event has left the process.
THEOREM RowsTellTheTruth == Spec => []PublishedIsSent
<1>1. IInv => PublishedIsSent
  BY DEF IInv, OutboxInv
<1> QED BY <1>1, Invariance, PTL

-------------------------------------------------------------------------------
(* How often the broker gets an event. *)

N == Cardinality(Instance)

\* Who may send e before anything else happens to it.
Able(e) == {i \in Instance : \/ e \in batch[i]
                             \/ status[e] # "PUBLISHED" /\ outcome[i][e] = "none"}

\* Who is about to make e PENDING again.
Retrying(e) == {i \in Instance : outcome[i][e] = "PENDING"}

Account(s, a, r, f) == s + a + (Repeats + 1) * r <= N + Repeats * f

SendOK(e) ==
  Account(sent[e], Cardinality(Able(e)), Cardinality(Retrying(e)), faults)

SendInv == /\ \A i \in Instance : \A e \in batch[i] : outcome[i][e] = "none"
           /\ \A e \in Event : SendOK(e)

\* There is an instance, and more than Repeats of them there are not.
LEMMA RepeatsAre ==
  N \in Nat /\ Repeats \in Nat /\ Repeats >= 1 /\ N <= Repeats + 1
<1>1. N \in Nat /\ N # 0
  BY InstancesAreFinite, FS_CardinalityType, FS_EmptySet DEF N
<1> QED BY <1>1 DEF Repeats, N

\* A set of instances is finite, and there are at most N in it.
LEMMA Instances ==
  ASSUME NEW S, S \subseteq Instance
  PROVE  IsFiniteSet(S) /\ Cardinality(S) \in Nat /\ Cardinality(S) <= N
<1>1. IsFiniteSet(S) /\ Cardinality(S) <= N
  BY InstancesAreFinite, FS_Subset DEF N
<1> QED BY <1>1, FS_CardinalityType

\* An account stays balanced when what is sent was allowed, and when a retry
\* that becomes due makes everybody able to send.
LEMMA Balanced ==
  ASSUME NEW s \in Nat, NEW a \in Nat, NEW r \in Nat, NEW f \in Nat,
         NEW t \in Nat, NEW b \in Nat, NEW q \in Nat, NEW g \in Nat,
         Account(s, a, r, f),
         \/ t + b <= s + a /\ q = r /\ f <= g
         \/ t = s /\ b <= N /\ q + 1 = r /\ g = f
  PROVE  Account(t, b, q, g)
<1> DEFINE K == Repeats
<1>1. N \in Nat /\ K \in Nat /\ K >= 1 /\ N <= K + 1
  BY RepeatsAre
<1> HIDE DEF K
<1>2. s + a + (K + 1) * r <= N + K * f
  BY DEF Account, K
<1>3. ASSUME NEW m \in Nat, NEW n \in Nat, m <= n
      PROVE  K * m <= K * n /\ (K + 1) * m <= (K + 1) * n
  BY <1>1, <1>3
<1>4. ASSUME NEW m \in Nat
      PROVE  /\ K * (m + 1) = K * m + K
             /\ (K + 1) * (m + 1) = (K + 1) * m + K + 1
             /\ K * m \in Nat /\ (K + 1) * m \in Nat
  BY <1>1
<1>5. /\ K * f \in Nat /\ K * g \in Nat
      /\ (K + 1) * r \in Nat /\ (K + 1) * q \in Nat
  BY <1>4
<1>6. CASE t + b <= s + a /\ q = r /\ f <= g
  <2>1. K * f <= K * g /\ (K + 1) * q = (K + 1) * r
    BY <1>3, <1>6
  <2> QED BY <1>1, <1>2, <1>5, <1>6, <2>1 DEF Account, K
<1>7. CASE t = s /\ b <= N /\ q + 1 = r /\ g = f
  <2>1. (K + 1) * r = (K + 1) * q + K + 1 /\ K * g = K * f
    BY <1>4, <1>7
  <2> QED BY <1>1, <1>2, <1>5, <1>7, <2>1 DEF Account, K
<1> QED BY <1>6, <1>7

\* And when fewer are able, when a failed publisher retries, and when a fault
\* makes one publisher able again.
LEMMA LessAble ==
  ASSUME NEW s \in Nat, NEW a \in Nat, NEW r \in Nat, NEW f \in Nat,
         NEW b \in Nat, NEW g \in Nat, Account(s, a, r, f), b <= a, f <= g
  PROVE  Account(s, b, r, g)
<1> DEFINE K == Repeats
<1>1. K \in Nat /\ N \in Nat
  BY RepeatsAre
<1> HIDE DEF K
<1>2. s + a + (K + 1) * r <= N + K * f
  BY DEF Account, K
<1>3. K * f <= K * g /\ K * f \in Nat /\ K * g \in Nat /\ (K + 1) * r \in Nat
  BY <1>1
<1>4. s + b + (K + 1) * r <= N + K * g
  BY <1>1, <1>2, <1>3
<1> QED BY <1>4 DEF Account, K

LEMMA NowRetrying ==
  ASSUME NEW s \in Nat, NEW a \in Nat, NEW r \in Nat, NEW f \in Nat,
         NEW b \in Nat, NEW q \in Nat, NEW g \in Nat,
         Account(s, a, r, f), b + 1 = a, q = r + 1, g = f + 1
  PROVE  Account(s, b, q, g)
<1> DEFINE K == Repeats
<1>1. K \in Nat /\ N \in Nat
  BY RepeatsAre
<1> HIDE DEF K
<1>2. s + a + (K + 1) * r <= N + K * f
  BY DEF Account, K
<1>3. /\ K * g = K * f + K /\ (K + 1) * q = (K + 1) * r + K + 1
      /\ K * f \in Nat /\ (K + 1) * r \in Nat
  BY <1>1
<1>4. s + b + (K + 1) * q <= N + K * g
  BY <1>1, <1>2, <1>3
<1> QED BY <1>4 DEF Account, K

LEMMA AbleAgain ==
  ASSUME NEW s \in Nat, NEW a \in Nat, NEW r \in Nat, NEW f \in Nat,
         NEW b \in Nat, NEW q \in Nat, NEW g \in Nat,
         Account(s, a, r, f), b <= a + 1, q <= r, g = f + 1
  PROVE  Account(s, b, q, g)
<1> DEFINE K == Repeats
<1>1. K \in Nat /\ N \in Nat
  BY RepeatsAre
<1> HIDE DEF K
<1>2. s + a + (K + 1) * r <= N + K * f
  BY DEF Account, K
<1>3. K >= 1
  BY RepeatsAre DEF K
<1>4. /\ K * g = K * f + K /\ (K + 1) * q <= (K + 1) * r
      /\ K * f \in Nat /\ (K + 1) * r \in Nat /\ (K + 1) * q \in Nat
  BY <1>1
<1>5. s + b + (K + 1) * q <= N + K * g
  BY <1>1, <1>2, <1>3, <1>4
<1> QED BY <1>5 DEF Account, K

\* The numbers of an account.
LEMMA AccountTypes ==
  ASSUME IInv, SendInv, NEW e \in Event
  PROVE  /\ sent[e] \in Nat /\ faults \in Nat
         /\ Cardinality(Able(e)) \in Nat /\ Cardinality(Retrying(e)) \in Nat
         /\ Account(sent[e], Cardinality(Able(e)), Cardinality(Retrying(e)),
                    faults)
<1>1. Able(e) \subseteq Instance /\ Retrying(e) \subseteq Instance
  BY DEF Able, Retrying
<1>2. sent[e] \in Nat /\ faults \in Nat
  BY DEF IInv, TypeOK
<1> QED BY <1>1, <1>2, Instances DEF SendInv, SendOK

\* Nobody is more able, and nobody else about to retry.
LEMMA KeptAccount ==
  ASSUME IInv, IInv', SendInv, NEW e \in Event, sent'[e] = sent[e],
         Able(e)' \subseteq Able(e), Retrying(e)' = Retrying(e), faults <= faults'
  PROVE  SendOK(e)'
<1>1. Able(e) \subseteq Instance
  BY DEF Able
<1>2. /\ Cardinality(Able(e)') \in Nat
      /\ Cardinality(Able(e)') <= Cardinality(Able(e))
  BY <1>1, Instances, FS_Subset
<1>3. faults' \in Nat
  BY DEF IInv, TypeOK
<1>4. Account(sent[e], Cardinality(Able(e)'), Cardinality(Retrying(e)), faults')
  <2> DEFINE s == sent[e]
             a == Cardinality(Able(e))
             r == Cardinality(Retrying(e))
             f == faults
             b == Cardinality(Able(e)')
             g == faults'
  <2>1. /\ s \in Nat /\ a \in Nat /\ r \in Nat /\ f \in Nat
        /\ Account(s, a, r, f)
    BY AccountTypes
  <2>2. b \in Nat /\ g \in Nat
    BY <1>2, <1>3
  <2>3. b <= a /\ f <= g
    BY <1>2
  <2> HIDE DEF s, a, r, f, b, g
  <2>4. Account(s, b, r, g)
    BY <2>1, <2>2, <2>3, LessAble
  <2> QED BY <2>4 DEF s, b, r, g
<1> QED BY <1>4 DEF SendOK

\* A fault makes one instance able again.
LEMMA FaultAccount ==
  ASSUME IInv, IInv', SendInv, NEW e \in Event, NEW i \in Instance,
         sent'[e] = sent[e], Able(e)' \subseteq Able(e) \cup {i},
         Retrying(e)' \subseteq Retrying(e), faults' = faults + 1
  PROVE  SendOK(e)'
<1>1. /\ IsFiniteSet(Able(e)) /\ IsFiniteSet(Retrying(e))
      /\ Able(e) \cup {i} \subseteq Instance
  BY Instances DEF Able, Retrying
<1>2. Cardinality(Able(e) \cup {i}) <= Cardinality(Able(e)) + 1
  <2>1. Cardinality(Able(e)) \in Nat
    BY AccountTypes
  <2>2. \/ Cardinality(Able(e) \cup {i}) = Cardinality(Able(e))
        \/ Cardinality(Able(e) \cup {i}) = Cardinality(Able(e)) + 1
    BY <1>1, FS_AddElement
  <2> QED BY <2>1, <2>2
<1>3. /\ Cardinality(Able(e)') \in Nat
      /\ Cardinality(Able(e)') <= Cardinality(Able(e) \cup {i})
      /\ Cardinality(Able(e) \cup {i}) \in Nat
  BY <1>1, Instances, FS_Subset
<1>4. /\ Cardinality(Retrying(e)') \in Nat
      /\ Cardinality(Retrying(e)') <= Cardinality(Retrying(e))
  BY <1>1, FS_Subset, FS_CardinalityType
<1>5. faults' \in Nat /\ Cardinality(Able(e)') <= Cardinality(Able(e)) + 1
  BY <1>2, <1>3, AccountTypes
<1>6. Account(sent[e], Cardinality(Able(e)'), Cardinality(Retrying(e)'), faults')
  <2> DEFINE s == sent[e]
             a == Cardinality(Able(e))
             r == Cardinality(Retrying(e))
             f == faults
             b == Cardinality(Able(e)')
             q == Cardinality(Retrying(e)')
             g == faults'
  <2>1. /\ s \in Nat /\ a \in Nat /\ r \in Nat /\ f \in Nat
        /\ Account(s, a, r, f)
    BY AccountTypes
  <2>2. b \in Nat /\ q \in Nat /\ g \in Nat
    BY <1>3, <1>4, <1>5
  <2>3. b <= a + 1 /\ q <= r /\ g = f + 1
    BY <1>4, <1>5
  <2> HIDE DEF s, a, r, f, b, q, g
  <2>4. Account(s, b, q, g)
    BY <2>1, <2>2, <2>3, AbleAgain
  <2> QED BY <2>4 DEF s, b, q, g
<1> QED BY <1>6 DEF SendOK

\* Listeners do not send.
LEMMA SendElsewhere ==
  ASSUME IInv, IInv', SendInv, UNCHANGED <<batch, outcome, sent>>,
         faults <= faults',
         \A e \in Event : status'[e] = "PUBLISHED" <=> status[e] = "PUBLISHED"
  PROVE  SendInv'
<1>1. ASSUME NEW e \in Event PROVE SendOK(e)'
  <2>1. Able(e)' = Able(e) /\ Retrying(e)' = Retrying(e)
    BY DEF Able, Retrying
  <2> QED BY <2>1, KeptAccount
<1>2. \A i \in Instance : batch[i] \subseteq Event
  BY DEF IInv, TypeOK
<1> QED BY <1>1 DEF SendInv

\* Who selects an event could do so before.
LEMMA SendOfSelect ==
  ASSUME IInv, IInv', SendInv, NEW i \in Instance, Select(i)
  PROVE  SendInv'
<1>1. /\ batch' = [batch EXCEPT ![i] = {e \in due : status[e] = "PENDING"}]
      /\ outcome[i] = Untouched
      /\ UNCHANGED <<status, outcome, sent, faults>>
  BY DEF Select, store
<1>2. /\ batch \in [Instance -> SUBSET Event] /\ due \subseteq Event
      /\ faults \in Nat
  BY DEF IInv, TypeOK
<1>3. ASSUME NEW e \in Event PROVE SendOK(e)'
  <2>1. Able(e)' \subseteq Able(e)
    BY <1>1, <1>2 DEF Able, Untouched
  <2>2. Retrying(e)' = Retrying(e)
    BY <1>1 DEF Retrying
  <2> QED BY <1>1, <1>2, <2>1, <2>2, KeptAccount
<1>4. \A j \in Instance : \A e \in batch'[j] : outcome'[j][e] = "none"
  BY <1>1, <1>2 DEF SendInv, Untouched
<1> QED BY <1>3, <1>4 DEF SendInv

\* Who sends an event is not able to do it again at once.
LEMMA SendOfSend ==
  ASSUME IInv, IInv', SendInv, NEW i \in Instance, NEW e \in Event, Send(i, e)
  PROVE  SendInv'
<1>1. PICK result \in {"PENDING", "PUBLISHED"} :
        /\ outcome' = [outcome EXCEPT ![i][e] = result]
        /\ \/ /\ result = "PUBLISHED" /\ sent' = [sent EXCEPT ![e] = @ + 1]
              /\ dropped' = dropped /\ faults' = faults
           \/ /\ result = "PENDING" /\ sent' = sent /\ dropped' = dropped
              /\ faults < MaxFaults /\ faults' = faults + 1
           \/ /\ result = "PUBLISHED" /\ sent' = sent
              /\ dropped' = dropped \cup {e}
              /\ faults < MaxFaults /\ faults' = faults + 1
  BY Sends
<1>2. /\ e \in batch[i] /\ batch' = [batch EXCEPT ![i] = @ \ {e}]
      /\ status' = status
  BY Sends
<1>3. /\ sent \in [Event -> Nat] /\ faults \in Nat /\ faults' \in Nat
      /\ outcome \in [Instance -> [Event -> {"none", "PENDING", "PUBLISHED"}]]
      /\ batch \in [Instance -> SUBSET Event]
  BY DEF IInv, TypeOK
<1>4. /\ outcome[i][e] = "none" /\ outcome'[i][e] = result
      /\ \A j \in Instance, d \in Event :
           j # i \/ d # e => outcome'[j][d] = outcome[j][d]
  BY <1>1, <1>2, <1>3 DEF SendInv
<1>5. /\ batch'[i] = batch[i] \ {e}
      /\ \A j \in Instance \ {i} : batch'[j] = batch[j]
  BY <1>2, <1>3
<1>6. faults <= faults' /\ \A d \in Event \ {e} : sent'[d] = sent[d]
  BY <1>1, <1>3
<1>7. ASSUME NEW d \in Event \ {e} PROVE SendOK(d)'
  <2>1. \A j \in Instance : /\ d \in batch'[j] <=> d \in batch[j]
                            /\ outcome'[j][d] = outcome[j][d]
    BY <1>4, <1>5
  <2>2. Able(d)' = Able(d) /\ Retrying(d)' = Retrying(d)
    BY <1>2, <2>1 DEF Able, Retrying
  <2> QED BY <1>6, <2>2, KeptAccount
<1>8. SendOK(e)'
  <2>1. i \in Able(e) /\ Able(e)' = Able(e) \ {i}
    BY <1>2, <1>4, <1>5 DEF Able
  <2>2. IsFiniteSet(Able(e)) /\ IsFiniteSet(Retrying(e))
    BY Instances DEF Able, Retrying
  <2>3. /\ Cardinality(Able(e)') = Cardinality(Able(e)) - 1
        /\ Cardinality(Able(e)') \in Nat
    BY <2>1, <2>2, FS_RemoveElement, FS_CardinalityType
  <2>4. CASE result = "PENDING"
    <3>1. i \notin Retrying(e) /\ Retrying(e)' = Retrying(e) \cup {i}
      BY <1>4, <2>4 DEF Retrying
    <3>2. /\ Cardinality(Retrying(e)') = Cardinality(Retrying(e)) + 1
          /\ Cardinality(Retrying(e)') \in Nat
      BY <2>2, <3>1, FS_AddElement, FS_CardinalityType
    <3>3. sent'[e] = sent[e] /\ faults' = faults + 1
      BY <1>1, <2>4
    <3>4. Cardinality(Able(e)') + 1 = Cardinality(Able(e))
      BY <2>3, AccountTypes
    <3> DEFINE s == sent[e]
               a == Cardinality(Able(e))
               r == Cardinality(Retrying(e))
               f == faults
               b == Cardinality(Able(e)')
               q == Cardinality(Retrying(e)')
               g == faults'
    <3>5. /\ s \in Nat /\ a \in Nat /\ r \in Nat /\ f \in Nat
          /\ Account(s, a, r, f)
      BY AccountTypes
    <3>6. b \in Nat /\ q \in Nat /\ g \in Nat
      BY <1>3, <2>3, <3>2
    <3>7. b + 1 = a /\ q = r + 1 /\ g = f + 1
      BY <3>2, <3>3, <3>4
    <3> HIDE DEF s, a, r, f, b, q, g
    <3>8. Account(s, b, q, g)
      BY <3>5, <3>6, <3>7, NowRetrying
    <3> QED BY <3>3, <3>8 DEF SendOK, s, b, q, g
  <2>5. CASE result = "PUBLISHED"
    <3>1. Retrying(e)' = Retrying(e)
      BY <1>4, <2>5 DEF Retrying
    <3>2. sent'[e] \in Nat /\ sent'[e] <= sent[e] + 1
      <4>1. CASE sent' = sent
        BY <1>3, <4>1
      <4>2. CASE sent' = [sent EXCEPT ![e] = @ + 1]
        BY <1>3, <4>2
      <4> QED BY <1>1, <4>1, <4>2
    <3>3. sent'[e] + Cardinality(Able(e)') <= sent[e] + Cardinality(Able(e))
      BY <2>3, <3>2, AccountTypes
    <3> QED BY <1>3, <1>6, <2>3, <3>1, <3>2, <3>3, AccountTypes, Balanced
            DEF SendOK
  <2> QED BY <2>4, <2>5
<1>9. \A j \in Instance : \A d \in batch'[j] : outcome'[j][d] = "none"
  BY <1>3, <1>4, <1>5 DEF SendInv
<1> QED BY <1>7, <1>8, <1>9 DEF SendInv

\* A tick that commits PENDING has been paid for.
LEMMA SendOfCommit ==
  ASSUME IInv, IInv', SendInv, NEW i \in Instance, CommitTick(i)
  PROVE  SendInv'
<1>1. /\ batch[i] = {} /\ status' = Written(i)
      /\ outcome' = [outcome EXCEPT ![i] = Untouched]
      /\ UNCHANGED <<batch, sent, faults>>
  BY DEF CommitTick, Ended
<1>2. /\ outcome \in [Instance -> [Event -> {"none", "PENDING", "PUBLISHED"}]]
      /\ batch \in [Instance -> SUBSET Event] /\ faults \in Nat
  BY DEF IInv, TypeOK
<1>3. /\ \A e \in Event : outcome'[i][e] = "none"
      /\ \A j \in Instance \ {i}, e \in Event : outcome'[j][e] = outcome[j][e]
  BY <1>1, <1>2 DEF Untouched
<1>4. \A e \in Event :
        status'[e] = IF outcome[i][e] # "none" THEN outcome[i][e] ELSE status[e]
  BY <1>1 DEF Written, Touched
<1>5. ASSUME NEW e \in Event PROVE SendOK(e)'
  <2>1. CASE outcome[i][e] = "none"
    <3>1. \A j \in Instance : outcome'[j][e] = outcome[j][e]
      BY <1>3, <2>1
    <3>2. Able(e)' = Able(e) /\ Retrying(e)' = Retrying(e)
      BY <1>1, <1>4, <2>1, <3>1 DEF Able, Retrying
    <3> QED BY <1>1, <1>2, <3>2, KeptAccount
  <2>2. CASE outcome[i][e] = "PUBLISHED"
    <3>1. Able(e)' \subseteq Able(e)
      BY <1>1, <1>4, <2>2 DEF Able
    <3>2. Retrying(e)' = Retrying(e)
      BY <1>3, <2>2 DEF Retrying
    <3> QED BY <1>1, <1>2, <3>1, <3>2, KeptAccount
  <2>3. CASE outcome[i][e] = "PENDING"
    <3>1. i \in Retrying(e) /\ Retrying(e)' = Retrying(e) \ {i}
      BY <1>3, <2>3 DEF Retrying
    <3>2. IsFiniteSet(Retrying(e))
      BY Instances DEF Retrying
    <3>3. /\ Cardinality(Retrying(e)') = Cardinality(Retrying(e)) - 1
          /\ Cardinality(Retrying(e)') \in Nat
      BY <3>1, <3>2, FS_RemoveElement, FS_CardinalityType
    <3>4. Able(e)' \subseteq Instance
      BY DEF Able
    <3>5. Cardinality(Able(e)') \in Nat /\ Cardinality(Able(e)') <= N
      BY <3>4, Instances
    <3>6. Cardinality(Retrying(e)') + 1 = Cardinality(Retrying(e))
      BY <3>3, AccountTypes
    <3> QED BY <1>1, <3>3, <3>5, <3>6, AccountTypes, Balanced DEF SendOK
  <2> QED BY <1>2, <2>1, <2>2, <2>3
<1>6. \A j \in Instance : \A e \in batch'[j] : outcome'[j][e] = "none"
  BY <1>1, <1>2, <1>3 DEF SendInv
<1> QED BY <1>5, <1>6 DEF SendInv

\* A tick that is lost is a fault.
LEMMA SendOfLoss ==
  ASSUME IInv, IInv', SendInv, NEW i \in Instance, FailTick(i) \/ Crash(i)
  PROVE  SendInv'
<1>1. /\ batch' = [batch EXCEPT ![i] = {}] \/ batch' = batch
      /\ outcome' = [outcome EXCEPT ![i] = Untouched]
      /\ faults' = faults + 1 /\ UNCHANGED <<status, sent>>
  BY DEF FailTick, Crash, Ended, Fault, store
<1>2. /\ outcome \in [Instance -> [Event -> {"none", "PENDING", "PUBLISHED"}]]
      /\ batch \in [Instance -> SUBSET Event]
  BY DEF IInv, TypeOK
<1>3. /\ \A e \in Event : outcome'[i][e] = "none"
      /\ \A j \in Instance \ {i}, e \in Event : outcome'[j][e] = outcome[j][e]
      /\ \A j \in Instance : batch'[j] \subseteq batch[j]
      /\ \A j \in Instance \ {i} : batch'[j] = batch[j]
  BY <1>1, <1>2 DEF Untouched
<1>4. ASSUME NEW e \in Event PROVE SendOK(e)'
  <2>1. Able(e)' \subseteq Able(e) \cup {i}
    BY <1>1, <1>3 DEF Able
  <2>2. Retrying(e)' \subseteq Retrying(e)
    BY <1>3 DEF Retrying
  <2> QED BY <1>1, <2>1, <2>2, FaultAccount
<1>5. \A j \in Instance : \A e \in batch'[j] : outcome'[j][e] = "none"
  BY <1>2, <1>3 DEF SendInv
<1> QED BY <1>4, <1>5 DEF SendInv

\* Every instance may send every event once.
LEMMA InitSends == ASSUME Init, IInv PROVE SendInv
<1>1. \A i \in Instance : /\ batch[i] = {}
                          /\ \A e \in Event : outcome[i][e] = "none"
  BY DEF Init, Untouched
<1>2. ASSUME NEW e \in Event PROVE SendOK(e)
  <2>1. Able(e) = Instance /\ Retrying(e) = {}
    BY <1>1 DEF Able, Retrying, Init
  <2>2. Cardinality(Able(e)) = N /\ Cardinality(Retrying(e)) = 0
    BY <2>1, FS_EmptySet DEF N
  <2>3. sent[e] = 0 /\ faults = 0
    BY DEF Init
  <2> QED BY <2>2, <2>3, RepeatsAre DEF SendOK, Account
<1> QED BY <1>1, <1>2 DEF SendInv

\* Every action keeps the accounts.
LEMMA StepSends == ASSUME IInv, IInv', SendInv, [Next]_vars PROVE SendInv'
<1>1. faults \in Nat
  BY DEF IInv, TypeOK
<1>2. CASE UNCHANGED vars
  BY <1>1, <1>2, SendElsewhere DEF vars, store, publisher
<1>3. ASSUME NEW p \in Payment, Confirm(p) PROVE SendInv'
  BY <1>1, <1>3, SendElsewhere DEF Confirm, store, publisher
<1>4. ASSUME NEW i \in Instance,
             Receive(i) \/ Register(i) \/ FindUser(i) \/ FailActivation(i)
             \/ Ack(i) \/ LoseConnection(i)
      PROVE  SendInv'
  <2>1. UNCHANGED <<status, batch, outcome, sent>> /\ faults <= faults'
    BY <1>1, <1>4 DEF Receive, Register, FindUser, FailActivation, Ack,
       LoseConnection, Fault, store, publisher
  <2> QED BY <2>1, SendElsewhere
<1>5. ASSUME NEW i \in Instance, CommitActivation(i) PROVE SendInv'
  <2>1. UNCHANGED <<batch, outcome, sent, faults>>
    BY <1>5 DEF CommitActivation, publisher
  <2>2. ASSUME NEW e \in Event
        PROVE  status'[e] = "PUBLISHED" <=> status[e] = "PUBLISHED"
    <3>1. CASE status'[e] = status[e]
      BY <3>1
    <3>2. CASE e \in EventsOf(Payee(i)) /\ status'[e] = "PENDING"
      <4>1. e.payment \notin premium
        BY <1>5, <3>2 DEF CommitActivation, Conflicts, EventsOf, IInv,
           ActivationIsWhole
      <4>2. rows[e] = 0
        BY <4>1 DEF IInv, ActivationIsWhole
      <4>3. status[e] = "absent"
        BY <4>2 DEF IInv, OutboxInv
      <4> QED BY <3>2, <4>3
    <3> QED BY <1>5, <3>1, <3>2 DEF CommitActivation
  <2> QED BY <1>1, <2>1, <2>2, SendElsewhere
<1>6. ASSUME NEW i \in Instance, Tick(i) \/ FailTick(i) \/ Crash(i)
      PROVE  SendInv'
  BY <1>6, SendOfSelect, SendOfSend, SendOfCommit, SendOfLoss DEF Tick
<1>7. ASSUME NEW e \in Event, RetryFallsDue(e) PROVE SendInv'
  BY <1>1, <1>7, SendElsewhere DEF RetryFallsDue, publisher
<1> QED BY <1>2, <1>3, <1>4, <1>5, <1>6, <1>7 DEF Next, Listen

\* Overlapping ticks send an event at most once per instance; whatever is sent
\* beyond that has a fault behind it, for any number of instances.
THEOREM RepetitionsHaveFaults == Spec => []CopiesAreFew
<1>1. Init => IInv /\ SendInv
  BY InitInv, InitSends
<1>2. (IInv /\ SendInv) /\ [Next]_vars => (IInv /\ SendInv)'
  BY StepInv, StepSends
<1>3. IInv /\ SendInv => CopiesAreFew
  <2> SUFFICES ASSUME IInv, SendInv, NEW e \in Event
               PROVE  sent[e] <= N + Repeats * faults
    BY DEF CopiesAreFew, N
  <2> DEFINE a == Cardinality(Able(e))
             r == (Repeats + 1) * Cardinality(Retrying(e))
  <2>1. a \in Nat /\ r \in Nat /\ sent[e] \in Nat /\ Repeats * faults \in Nat
    BY AccountTypes, RepeatsAre
  <2>2. sent[e] + a + r <= N + Repeats * faults
    BY AccountTypes DEF Account
  <2> HIDE DEF a, r
  <2> QED BY <2>1, <2>2, RepeatsAre
<1> QED BY <1>1, <1>2, <1>3, PTL DEF Spec
-------------------------------------------------------------------------------
(* The rows keep the promise of an outbox. *)

\* Only a tick that has met a lost connection makes an event PENDING again.
LossInv == \A i \in Instance, e \in Event :
             outcome[i][e] = "PENDING" => "connection" \in FaultKinds

\* The types of what the outbox is made of.
LEMMA OutboxTypes ==
  ASSUME IInv
  PROVE  /\ status \in [Event -> {"absent", "PENDING", "PUBLISHED"}]
         /\ rows \in [Event -> 0..1] /\ sent \in [Event -> Nat]
         /\ batch \in [Instance -> SUBSET Event]
         /\ outcome \in [Instance -> [Event -> {"none", "PENDING", "PUBLISHED"}]]
         /\ \A e \in Event : status[e] = "absent" <=> rows[e] = 0
BY DEF IInv, TypeOK, OutboxInv

\* No tick has met anything when the service starts.
LEMMA InitLoss == ASSUME Init PROVE LossInv
<1>1. \A e \in Event : Untouched[e] = "none"
  BY DEF Untouched
<1> QED BY <1>1 DEF Init, LossInv

\* A failed send is a fault of the connection; nothing else leaves PENDING.
LEMMA StepLoss == ASSUME IInv, LossInv, [Next]_vars PROVE LossInv'
<1>1. outcome \in [Instance -> [Event -> {"none", "PENDING", "PUBLISHED"}]]
  BY OutboxTypes
<1>2. CASE UNCHANGED outcome
  BY <1>2 DEF LossInv
<1>3. ASSUME NEW i \in Instance, NEW e \in Event, Send(i, e) PROVE LossInv'
  <2>1. PICK result \in {"PENDING", "PUBLISHED"} :
          /\ outcome' = [outcome EXCEPT ![i][e] = result]
          /\ result = "PENDING" => "connection" \in FaultKinds
    BY <1>3 DEF Send, Settled, Retry, Fault
  <2> QED BY <1>1, <2>1 DEF LossInv
<1>4. ASSUME NEW i \in Instance, Ended(i) PROVE LossInv'
  <2>1. Untouched \in [Event -> {"none", "PENDING", "PUBLISHED"}]
        /\ \A e \in Event : Untouched[e] = "none"
    BY DEF Untouched
  <2> QED BY <1>1, <1>4, <2>1 DEF Ended, LossInv
<1> QED BY <1>2, <1>3, <1>4
        DEF Next, vars, publisher, Confirm, Receive, Listen, Register, FindUser,
            CommitActivation, FailActivation, Ack, LoseConnection, Tick, Select,
            CommitTick, FailTick, Crash, RetryFallsDue

\* Where an event stands, as an outbox sees it.
Standing(e) == IF rows[e] = 0 THEN "none"
               ELSE IF status[e] = "PUBLISHED" THEN "settled" ELSE "stored"

\* One step of an outbox, for one event.
Handled(e) ==
  \/ /\ Standing(e)' = Standing(e) /\ sent'[e] = sent[e]
     /\ e \in dropped' <=> e \in dropped
  \/ /\ Standing(e) = "none" /\ Standing(e)' = "stored"
     /\ sent'[e] = sent[e] /\ (e \in dropped' <=> e \in dropped)
  \/ /\ Standing(e) # "none" /\ Standing(e)' = Standing(e)
     /\ sent'[e] = sent[e] + 1 /\ (e \in dropped' <=> e \in dropped)
  \/ /\ "connection" \in FaultKinds
     /\ Standing(e) # "none" /\ Standing(e)' = Standing(e)
     /\ sent'[e] = sent[e] /\ e \in dropped'
  \/ /\ Standing(e) = "stored" /\ Standing(e)' = "settled"
     /\ sent[e] > 0 \/ e \in dropped
     /\ sent'[e] = sent[e] /\ (e \in dropped' <=> e \in dropped)
  \/ /\ "connection" \in FaultKinds
     /\ Standing(e) = "settled" /\ Standing(e)' = "stored"
     /\ sent'[e] = sent[e] /\ (e \in dropped' <=> e \in dropped)

\* That is what the outbox with the rows in it does, with the lapses it has when
\* connections are lost.
LEMMA HandledIsNext == (\A e \in Event : Handled(e)) => Outgoing!Next
<1> SUFFICES ASSUME NEW e \in Event, Handled(e)
             PROVE  \/ Outgoing!Rest(e) \/ Outgoing!Store(e) \/ Outgoing!Send(e)
                    \/ Outgoing!Drop(e) \/ Outgoing!Settle(e) \/ Outgoing!Reopen(e)
  BY DEF Outgoing!Next
<1> USE DEF Standing, Outgoing!Stays, Outgoing!Unsent, Outgoing!Undropped
<1> QED BY DEF Handled, Outgoing!Rest, Outgoing!Store, Outgoing!Send,
           Outgoing!Drop, Outgoing!Settle, Outgoing!Reopen

\* A step that changes neither rows nor what has been sent moves no event.
LEMMA QuietHandled ==
  ASSUME UNCHANGED <<status, rows, sent, dropped>>
  PROVE  \A e \in Event : Handled(e)
BY DEF Handled, Standing

\* The user of a commit was not premium, so that its events had no rows.
LEMMA ActivationHandled ==
  ASSUME IInv, NEW i \in Instance, CommitActivation(i)
  PROVE  \A e \in Event : Handled(e)
<1> DEFINE p == Payee(i)
<1>1. UNCHANGED <<sent, dropped>>
  BY DEF CommitActivation, publisher
<1>2. p \notin premium
  BY DEF CommitActivation, Conflicts, IInv, ActivationIsWhole
<1>3. CASE i \notin grants
  BY <1>1, <1>3, QuietHandled DEF CommitActivation
<1>4. CASE i \in grants
  <2> SUFFICES ASSUME NEW e \in Event PROVE Handled(e)
    OBVIOUS
  <2>1. CASE e \in EventsOf(p)
    <3>1. rows[e] = 0
      BY <1>2, <2>1 DEF IInv, ActivationIsWhole, EventsOf
    <3>2. rows'[e] = 1 /\ status'[e] = "PENDING"
      BY <1>4, <2>1, <3>1 DEF CommitActivation
    <3> QED BY <1>1, <3>1, <3>2 DEF Handled, Standing
  <2>2. CASE e \notin EventsOf(p)
    <3>1. rows'[e] = rows[e] /\ status'[e] = status[e]
      BY <1>4, <2>2 DEF CommitActivation
    <3> QED BY <1>1, <3>1 DEF Handled, Standing
  <2> QED BY <2>1, <2>2
<1> QED BY <1>3, <1>4

\* What a tick sends, or drops, is in a row.
LEMMA SendHandled ==
  ASSUME IInv, NEW i \in Instance, NEW e \in Event, Send(i, e)
  PROVE  \A d \in Event : Handled(d)
<1>1. rows[e] > 0 /\ UNCHANGED <<status, rows>>
  BY Sends
<1>2. sent \in [Event -> Nat] /\ rows[e] \in 0..1
  BY OutboxTypes
<1>3. \/ sent' = [sent EXCEPT ![e] = @ + 1] /\ dropped' = dropped
      \/ sent' = sent /\ dropped' = dropped
      \/ "connection" \in FaultKinds /\ sent' = sent /\ dropped' = dropped \cup {e}
  BY DEF Send, Fault
<1> SUFFICES ASSUME NEW d \in Event PROVE Handled(d)
  OBVIOUS
<1>4. Standing(d)' = Standing(d)
  BY <1>1 DEF Standing
<1>5. CASE d = e
  <2>1. Standing(d) # "none"
    BY <1>1, <1>2, <1>5 DEF Standing
  <2> QED BY <1>2, <1>3, <1>4, <1>5, <2>1 DEF Handled
<1>6. CASE d # e
  BY <1>2, <1>3, <1>4, <1>6 DEF Handled
<1> QED BY <1>5, <1>6

\* A tick marks what it has sent; what it makes PENDING again may be PUBLISHED by
\* then, but only if a connection was lost.
LEMMA TickHandled ==
  ASSUME IInv, LossInv, NEW i \in Instance, CommitTick(i)
  PROVE  \A e \in Event : Handled(e)
<1>1. UNCHANGED <<rows, sent, dropped>> /\ status' = Written(i)
  BY DEF CommitTick
<1> SUFFICES ASSUME NEW e \in Event PROVE Handled(e)
  OBVIOUS
<1>2. /\ outcome[i][e] \in {"none", "PENDING", "PUBLISHED"}
      /\ status[e] \in {"absent", "PENDING", "PUBLISHED"}
      /\ status[e] = "absent" <=> rows[e] = 0
      /\ rows[e] \in 0..1
  BY OutboxTypes
<1>3. TickOK(i, e)
  BY DEF IInv, OutboxInv
<1>4. status'[e] = IF outcome[i][e] # "none" THEN outcome[i][e] ELSE status[e]
  BY <1>1 DEF Written, Touched
<1>5. CASE outcome[i][e] = "none"
  BY <1>1, <1>4, <1>5 DEF Handled, Standing
<1>6. CASE outcome[i][e] = "PUBLISHED"
  BY <1>1, <1>2, <1>3, <1>4, <1>6 DEF Handled, Standing, TickOK
<1>7. CASE outcome[i][e] = "PENDING"
  <2>1. "connection" \in FaultKinds
    BY <1>7 DEF LossInv
  <2> QED BY <1>1, <1>2, <1>3, <1>4, <1>7, <2>1 DEF Handled, Standing, TickOK
<1> QED BY <1>2, <1>5, <1>6, <1>7

\* Every step of the service is one of the outbox, for every event.
LEMMA StepHandled ==
  ASSUME IInv, LossInv, [Next]_vars PROVE \A e \in Event : Handled(e)
<1>1. CASE UNCHANGED <<status, rows, sent, dropped>>
  BY <1>1, QuietHandled
<1>2. ASSUME NEW i \in Instance, CommitActivation(i)
      PROVE  \A e \in Event : Handled(e)
  BY <1>2, ActivationHandled
<1>3. ASSUME NEW i \in Instance, NEW d \in Event, Send(i, d)
      PROVE  \A e \in Event : Handled(e)
  BY <1>3, SendHandled
<1>4. ASSUME NEW i \in Instance, CommitTick(i) PROVE \A e \in Event : Handled(e)
  BY <1>4, TickHandled
<1> QED BY <1>1, <1>2, <1>3, <1>4
        DEF Next, vars, store, publisher, Confirm, Receive, Listen, Register,
            FindUser, FailActivation, Ack, LoseConnection, Tick, Select, FailTick,
            Crash, RetryFallsDue

\* The service implements an outbox of its events: an event is stored once, with
\* the membership it announces, goes out only from its row, and is PUBLISHED only
\* when the broker has it; a lost connection alone may drop one or reopen one.
THEOREM MembershipIsAnOutbox == Spec => KeepsMessages
<1>1. Init => Outgoing!Init
  BY DEF Init, Outgoing!Init
<1>2. Init => LossInv
  BY InitLoss
<1>3. IInv /\ LossInv /\ [Next]_vars => LossInv'
  BY StepLoss
<1>4. IInv /\ LossInv /\ [Next]_vars =>
        [Outgoing!Next]_<<[e \in Event |-> IF rows[e] = 0 THEN "none"
                             ELSE IF status[e] = "PUBLISHED" THEN "settled"
                             ELSE "stored"], sent, dropped>>
  BY StepHandled, HandledIsNext
<1> QED BY <1>1, <1>2, <1>3, <1>4, Invariance, PTL
        DEF Spec, KeepsMessages, Outgoing!Spec
===============================================================================
