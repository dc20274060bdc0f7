---------------------------- MODULE AccountCreation ----------------------------
(***************************************************************************)
(* What the creation of an account promises, however many services,        *)
(* retries and duplicates it takes: a key stands for at most one account,  *)
(* the account belongs to the payload that first came with the key, two    *)
(* accounts never share a user or a handle, an outcome is final, and       *)
(* nobody is told of an account that has not been created.                 *)
(*                                                                         *)
(* OnboardingSaga implements this towards the deliveries of its command    *)
(* queue, Gateway towards the requests of its browsers.                    *)
(***************************************************************************)
EXTENDS Naturals

CONSTANTS Key, NoKey, Payload, NoPayload,
          HandlesOf,    \* [Payload -> set of handles]: email and tax id
          Asker         \* those who are told

VARIABLES accounts,     \* [Key -> Account]
          told          \* [Asker -> Key or NoKey]: of whose success

NoUser == 0

Account == [phase : {"none", "open", "created", "refused"},
            payload : Payload \cup {NoPayload}, user : Nat]

NoAccount == [phase |-> "none", payload |-> NoPayload, user |-> NoUser]

Created(k) == accounts[k].phase = "created"

Ask(k, p) ==
  /\ accounts[k] = NoAccount
  /\ accounts' = [accounts EXCEPT ![k] =
                  [phase |-> "open", payload |-> p, user |-> NoUser]]

\* The user of k is new and shares no handle with the user of another key.
Create(k, user) ==
  /\ accounts[k].phase = "open"
  /\ user # NoUser
  /\ \A other \in Key \ {k} : Created(other) =>
       /\ accounts[other].user # user
       /\ HandlesOf[accounts[other].payload] \cap HandlesOf[accounts[k].payload]
            = {}
  /\ accounts' = [accounts EXCEPT ![k] =
                  [phase |-> "created", payload |-> accounts[k].payload,
                   user |-> user]]

Refuse(k) ==
  /\ accounts[k].phase = "open"
  /\ accounts' = [accounts EXCEPT ![k] =
                  [phase |-> "refused", payload |-> accounts[k].payload,
                   user |-> accounts[k].user]]

\* Askers may learn of an account as soon as it is created; they come and go.
Tell ==
  \A a \in Asker : \/ told'[a] \in {told[a], NoKey}
                   \/ told'[a] \in Key /\ accounts'[told'[a]].phase = "created"

Init ==
  /\ accounts = [k \in Key |-> NoAccount]
  /\ told = [a \in Asker |-> NoKey]

Next ==
  /\ \/ \E k \in Key : \/ \E p \in Payload : Ask(k, p)
                       \/ Create(k, accounts'[k].user)
                       \/ Refuse(k)
     \/ UNCHANGED accounts
  /\ Tell

Spec == Init /\ [][Next]_<<accounts, told>>
================================================================================
