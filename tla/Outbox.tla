--------------------------------- MODULE Outbox ---------------------------------
(***************************************************************************)
(* What a service promises of the messages it announces its changes with:  *)
(* a message is stored once, together with its change, and is never taken  *)
(* back; the broker gets only what is stored; and the service holds a      *)
(* message settled only when the broker has had it.  A settled message may *)
(* be sent again by an instance that had it in hand before.                *)
(*                                                                         *)
(* WebhookRelay implements this for the callbacks it has accepted,         *)
(* PaymentLifecycle for the messages in its documents, Membership for the  *)
(* rows of its outbox.  Two of them do so with a lapse:                    *)
(*   "drop"    a message written to a dead connection is taken for sent    *)
(*   "reopen"  a message that is settled may become unsettled again        *)
(***************************************************************************)
EXTENDS Naturals

CONSTANTS Message, Lapses

VARIABLES stage,    \* [Message -> "none", "stored" or "settled"]
          sent,     \* [Message -> copies the broker has got]
          dropped   \* messages written to a dead connection

Init ==
  /\ stage = [m \in Message |-> "none"]
  /\ sent = [m \in Message |-> 0]
  /\ dropped = {}

Stays(m) == stage'[m] = stage[m]
Unsent(m) == sent'[m] = sent[m]
Undropped(m) == m \in dropped' <=> m \in dropped

Store(m) ==
  /\ stage[m] = "none" /\ stage'[m] = "stored"
  /\ Unsent(m) /\ Undropped(m)

Send(m) ==
  /\ stage[m] # "none" /\ Stays(m)
  /\ sent'[m] = sent[m] + 1
  /\ Undropped(m)

Drop(m) ==
  /\ "drop" \in Lapses
  /\ stage[m] # "none" /\ Stays(m)
  /\ m \in dropped'
  /\ Unsent(m)

Settle(m) ==
  /\ stage[m] = "stored" /\ stage'[m] = "settled"
  /\ sent[m] > 0 \/ m \in dropped
  /\ Unsent(m) /\ Undropped(m)

Reopen(m) ==
  /\ "reopen" \in Lapses
  /\ stage[m] = "settled" /\ stage'[m] = "stored"
  /\ Unsent(m) /\ Undropped(m)

Rest(m) == Stays(m) /\ Unsent(m) /\ Undropped(m)

\* A transaction may concern several messages.
Next == \A m \in Message : \/ Rest(m)
                           \/ Store(m) \/ Send(m) \/ Drop(m) \/ Settle(m)
                           \/ Reopen(m)

Spec == Init /\ [][Next]_<<stage, sent, dropped>>
================================================================================
