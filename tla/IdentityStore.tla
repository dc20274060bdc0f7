---------------------------- MODULE IdentityStore ----------------------------
(***************************************************************************)
(* The database of the identity service and the two transactions           *)
(* IdentityApplicationService runs on it, as operators: each takes the     *)
(* committed database and the fields of the command, and gives the reply   *)
(* and the database after the commit.                                      *)
(*                                                                         *)
(* HandlesOf[p] is the set of unique values payload p claims (its email    *)
(* and its tax id).  User ids are random UUIDs; issued counts the ids      *)
(* drawn, and the next one is issued + 1.  The premium flag of a user is   *)
(* false here: no handler of the service sets it, so the refusal to        *)
(* compensate a premium user is never taken.                               *)
(***************************************************************************)
EXTENDS Naturals

CONSTANTS Key,          \* idempotency keys of account creations
          Payload, NoPayload,
          HandlesOf     \* [Payload -> non-empty sets of unique handles]

Handle == UNION {HandlesOf[p] : p \in Payload}

User == [id : Nat \ {0}, handles : SUBSET Handle]

Request == [payload : Payload \cup {NoPayload}, user : Nat]

NoRequest == [payload |-> NoPayload, user |-> 0]

Store == [users    : SUBSET User,
          requests : [Key -> Request],  \* onboarding_requests
          receipts : [Key -> Nat],      \* user_compensation_receipts
          issued   : Nat]

EmptyStore == [users    |-> {},
               requests |-> [k \in Key |-> NoRequest],
               receipts |-> [k \in Key |-> 0],
               issued   |-> 0]

Reply == [kind : {"none", "ok", "permanent", "transient"}, user : Nat]

NoReply == [kind |-> "none", user |-> 0]
Ok(u) == [kind |-> "ok", user |-> u]
Refusal == [kind |-> "permanent", user |-> 0]
Unavailable == [kind |-> "transient", user |-> 0]

UserIds(db) == {usr.id : usr \in db.users}

-------------------------------------------------------------------------------
(* createUser *)

\* Mutant: nothing is looked up.
TakenUnchecked(db, p) == FALSE

\* existsByEmail or existsByTaxId
Taken(db, p) == \E usr \in db.users : usr.handles \cap HandlesOf[p] # {}

CreateReply(db, k, p) ==
  LET request == db.requests[k] IN
  IF request # NoRequest
  THEN IF request.payload = p THEN Ok(request.user) ELSE Refusal
  ELSE IF Taken(db, p) THEN Refusal ELSE Ok(db.issued + 1)

CreateUser(db, k, p) ==
  IF db.requests[k] # NoRequest \/ Taken(db, p) THEN db
  ELSE LET u == db.issued + 1 IN
       [db EXCEPT !.users = @ \cup {[id |-> u, handles |-> HandlesOf[p]]},
                  !.requests[k] = [payload |-> p, user |-> u],
                  !.issued = u]

-------------------------------------------------------------------------------
(* compensateUser *)

CompensateReply(db, k, u) ==
  IF db.receipts[k] \notin {0, u} THEN Refusal ELSE Ok(u)

CompensateUser(db, k, u) ==
  IF db.receipts[k] # 0 THEN db
  ELSE [db EXCEPT !.receipts[k] = u,
                  !.requests = [j \in Key |-> IF @[j].user = u THEN NoRequest
                                              ELSE @[j]],
                  !.users = {usr \in @ : usr.id # u}]
===============================================================================
