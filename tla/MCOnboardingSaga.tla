--------------------------- MODULE MCOnboardingSaga ---------------------------
(* Instances of OnboardingSaga for TLC. *)
EXTENDS OnboardingSaga, TLC

CONSTANTS alice, barter, cheque, c1, c2, r1, r2

MCWorker == Caller \cup Recoverer

\* Three payloads: that of alice; cheque, which claims the same email in a
\* currency that is not supported; barter, of somebody else and in a currency
\* that is not supported either.
MCHandlesOf == [p \in Payload |-> IF p = barter THEN {"bob"} ELSE {"alice"}]

MCSymmetry == Permutations(Caller) \cup Permutations(Recoverer)
                                   \cup Permutations(Key)
===============================================================================
