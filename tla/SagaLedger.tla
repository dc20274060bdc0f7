------------------------------ MODULE SagaLedger ------------------------------
(***************************************************************************)
(* One row of the table account_creation_sagas and what the onboarding     *)
(* repository (onboarding.repository.ts) does to it.  Every operator takes *)
(* the row as the transaction read it and returns the row it writes; that  *)
(* the transaction only runs for the worker named in locked_by is the      *)
(* business of the module that uses them.                                  *)
(*                                                                         *)
(* Abstractions.  A problem document is one of three classes: none,        *)
(* permanent (400 and 409, the statuses below 500 the services answer      *)
(* with) and transient (500 and above).  next_retry_at is the Boolean due: *)
(* it is null or has passed.  locked_until belongs to the worker and not   *)
(* to the row, because a worker computes it once, when it claims: the      *)
(* rows locked by w are leased as long as w is not in the set of expired   *)
(* workers.  attempts only feeds the backoff and is left out.              *)
(***************************************************************************)
EXTENDS Naturals

CONSTANTS Worker,       \* identifiers of the workers that may lock a row
          Nobody,       \* locked_by IS NULL
          Payload,      \* request payloads; requestHash tells them apart
          NoPayload     \* the payload of a row that does not exist

ASSUME NullsAreNotValues == Nobody \notin Worker /\ NoPayload \notin Payload

NoUser == 0             \* user ids are positive numbers

Status == {"ABSENT", "STARTED", "USER_CREATED", "PAYMENT_CREATED",
           "COMPLETED", "FAILED", "COMPENSATED"}

NextAction == {"PROCESS_USER", "PROCESS_PAYMENT", "COMPENSATE_USER",
               "COMPLETE", "NOOP"}

Problem == {"none", "permanent", "transient"}

Row == [status    : Status,
        next      : NextAction,
        payload   : Payload \cup {NoPayload},
        user      : Nat,                \* id in user_payload_json
        paid      : BOOLEAN,            \* payment_payload_json IS NOT NULL
        response  : Nat,                \* user id in response_json
        error     : Problem,
        retryable : BOOLEAN,
        due       : BOOLEAN,
        lockedBy  : Worker \cup {Nobody}]

FreshRow(p) ==
  [status |-> "STARTED", next |-> "PROCESS_USER", payload |-> p,
   user |-> NoUser, paid |-> FALSE, response |-> NoUser,
   error |-> "none", retryable |-> FALSE, due |-> TRUE, lockedBy |-> Nobody]

AbsentRow == [FreshRow(NoPayload) EXCEPT !.status = "ABSENT"]

-------------------------------------------------------------------------------
(* Who may take the row. *)

\* tryAcquire gives the row to w unless another worker's lease still runs.
Acquirable(row, w, expired) == row.lockedBy \in {Nobody, w} \cup expired

\* Mutant: a claimRecoverable that leaves retryable failures alone.  (Operators
\* marked as mutants are wrong on purpose and used by no definition: each
\* replaces the one after it to show that some property would notice.)
RecoverableButFailed(row, expired) ==
  /\ row.status \in {"STARTED", "USER_CREATED", "PAYMENT_CREATED"}
  /\ row.due
  /\ row.lockedBy \in {Nobody} \cup expired

\* The WHERE clause of claimRecoverable.
Recoverable(row, expired) ==
  /\ row.status \in {"STARTED", "USER_CREATED", "PAYMENT_CREATED", "FAILED"}
  /\ row.status = "FAILED" => row.retryable
  /\ row.due
  /\ row.lockedBy \in {Nobody} \cup expired

Locked(row, w) == [row EXCEPT !.lockedBy = w]

Released(row, w) ==
  IF row.lockedBy = w THEN [row EXCEPT !.lockedBy = Nobody] ELSE row

-------------------------------------------------------------------------------
(* The transitions. *)

\* Mutant: the payment step is skipped.
UserCreatedAndPaid(row, u) ==
  [row EXCEPT !.status = "USER_CREATED", !.next = "COMPLETE", !.user = u]

UserCreated(row, u) ==
  [row EXCEPT !.status = "USER_CREATED", !.next = "PROCESS_PAYMENT",
              !.user = u, !.error = "none", !.retryable = FALSE,
              !.due = TRUE, !.response = NoUser]

PaymentCreated(row) ==
  [row EXCEPT !.status = "PAYMENT_CREATED", !.next = "COMPLETE",
              !.paid = TRUE, !.error = "none", !.retryable = FALSE,
              !.due = TRUE, !.response = NoUser]

Completed(row, u) ==
  [row EXCEPT !.status = "COMPLETED", !.next = "NOOP", !.response = u,
              !.error = "none", !.retryable = FALSE, !.due = TRUE,
              !.lockedBy = Nobody]

\* Mutant: a transient failure is taken for a permanent one.
FailedForGood(row, problem) ==
  [row EXCEPT !.status = "FAILED", !.next = "COMPENSATE_USER",
              !.error = problem, !.retryable = FALSE, !.lockedBy = Nobody]

\* Mutant: a failure that will be retried compensates the user as well.
FailedAndCompensated(row, problem) ==
  [row EXCEPT !.status = "FAILED", !.next = "COMPENSATE_USER",
              !.error = problem, !.retryable = problem = "transient",
              !.lockedBy = Nobody]

\* handlePaymentFailure chooses the action from the problem; a retryable
\* failure is not due before its backoff has passed.
Failed(row, problem) ==
  LET retryable == problem = "transient" IN
  [row EXCEPT !.status = "FAILED",
              !.next = IF retryable THEN "PROCESS_PAYMENT"
                                    ELSE "COMPENSATE_USER",
              !.error = problem, !.retryable = retryable,
              !.due = ~retryable, !.lockedBy = Nobody]

Compensated(row, problem) ==
  [row EXCEPT !.status = "COMPENSATED", !.next = "NOOP", !.error = problem,
              !.retryable = FALSE, !.due = TRUE, !.lockedBy = Nobody]

-------------------------------------------------------------------------------
(* What a worker reads off a row before it runs the state machine. *)

IsCompleted(row) == row.status = "COMPLETED" /\ row.response # NoUser

IsTerminalFailure(row) ==
  /\ row.status \in {"FAILED", "COMPENSATED"}
  /\ ~row.retryable
  /\ row.error # "none"
===============================================================================
