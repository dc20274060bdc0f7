------------------------------- MODULE MCConsole -------------------------------
(* An instance of Console for TLC: local storage is empty, or holds the user *)
(* and the token of an earlier account.                                      *)
EXTENDS Console, TLC

CONSTANTS k1, k2

MCService == 1..2

MCRestored == {[base |-> TRUE, headers |-> TRUE, credentials |-> FALSE,
                token |-> k, user |-> k] : k \in {None, k1}}
================================================================================
