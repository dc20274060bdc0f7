---------------------------- MODULE MCWebhookRelay ----------------------------
(* Instances of WebhookRelay for TLC. *)
EXTENDS WebhookRelay, TLC

CONSTANTS first, corrected, copied, other, refA, refB, evt1, evt2, evt3

\* Two callbacks of one payment with different contents, one that uses the
\* event of the first for another payment, and an honest one of that payment.
MCRefOf == [cb \in Callback |-> IF cb \in {first, corrected} THEN refA ELSE refB]

MCEventOf == [cb \in Callback |-> IF cb \in {first, copied} THEN evt1
                                  ELSE IF cb = corrected THEN evt2 ELSE evt3]
===============================================================================
