------------------------------- MODULE MCGateway -------------------------------
(* An instance of Gateway for TLC: two browsers send one key with different  *)
(* payloads, and a third request has no key.                                 *)
EXTENDS Gateway, TLC

CONSTANTS first, other, keyless, k1, alice, barter, b1, b2

MCKeyOf == [r \in Request |-> IF r = keyless THEN NoKey ELSE k1]

MCPayloadOf == [r \in Request |-> IF r = other THEN barter ELSE alice]

MCBrowserOf == [r \in Request |-> IF r = other THEN b2 ELSE b1]

MCHandlesOf == [p \in Payload |-> {"alice"}]
================================================================================
