---------------------------- MODULE BillingSystem ----------------------------
(***************************************************************************)
(* The billing dispatcher (go/vumitools/billing_worker.py) in front of the *)
(* billing API: every message that passes the dispatcher is POSTed to the  *)
(* API, once more if the first call raises, and then goes on its way, is   *)
(* turned into a session close, or is dropped.                             *)
(*                                                                         *)
(* The k-th call for message m is the API's request <<m, k>>, so the       *)
(* actions of BillingApi run between those of the dispatcher.  A call that *)
(* raises on the dispatcher's side may still be running in the API.        *)
(***************************************************************************)
EXTENDS BillingApi

CONSTANTS
  Messages,          \* what reaches the dispatcher
  SessionOf,         \* [Messages -> {"none", "new", "resume", "close"}]
  Unbillable,        \* messages without an account or a tag in their metadata
  disable_billing

ASSUME BillingSystemAssumption ==
  /\ Requests = Messages \X {1, 2}
  /\ SessionOf \in [Messages -> {"none", "new", "resume", "close"}]
  /\ Unbillable \subseteq Messages
  \* the retry posts what the first call posted
  /\ \A m \in Messages : /\ AccountOf[<<m, 1>>] = AccountOf[<<m, 2>>]
                         /\ DirectionOf[<<m, 1>>] = DirectionOf[<<m, 2>>]
  /\ disable_billing \in BOOLEAN

VARIABLES
  stage,      \* per message, where process_inbound / process_outbound is
  attempt,    \* per message, the HTTP call it is at
  paid,       \* per message, is_paid in its metadata
  closed,     \* per message, the cutoff made it a SESSION_CLOSE
  unheard     \* history: an HTTP call of this message raised

dispatcher == <<stage, attempt, paid, closed, unheard>>
system     == <<vars, dispatcher>>

-----------------------------------------------------------------------------
Direction(m) == DirectionOf[<<m, 1>>]
Account(m)   == AccountOf[<<m, 1>>]
Call(m)      == <<m, attempt[m]>>

SystemInit ==
  /\ Init
  /\ stage = [m \in Messages |-> "idle"]
  /\ attempt = [m \in Messages |-> 1]
  /\ paid = [m \in Messages |-> FALSE]
  /\ closed = [m \in Messages |-> FALSE]
  /\ unheard = [m \in Messages |-> FALSE]

Goes(m, where) == stage' = [stage EXCEPT ![m] = where]

\* disable_billing, or validate_metadata raises: published as it is.
PassUnbilled(m) ==
  /\ stage[m] = "idle" /\ (disable_billing \/ m \in Unbillable)
  /\ Goes(m, "published")
  /\ UNCHANGED <<vars, attempt, paid, closed, unheard>>

\* create_transaction_for_inbound / _outbound: the first POST reaches the API.
PostTransaction(m) ==
  /\ stage[m] = "idle" /\ ~disable_billing /\ m \notin Unbillable
  /\ RenderPost(Call(m))
  /\ Goes(m, "posted")
  /\ UNCHANGED <<attempt, paid, closed, unheard>>

\* http_request_full raises: the API cannot be reached, or the connection drops
\* before the answer is read - whatever the API did or will do with the call.  The
\* first time the dispatcher retries; the second time it sends without billing.
RetryOrPass(m) ==
  IF attempt[m] = 1
  THEN Goes(m, "delay") /\ attempt' = [attempt EXCEPT ![m] = 2]
  ELSE Goes(m, "published") /\ UNCHANGED attempt

CallRaises(m) ==
  /\ \/ /\ Faults /\ stage[m] \in {"idle", "delay"}
        /\ ~disable_billing /\ m \notin Unbillable
     \/ /\ stage[m] = "posted"
        /\ Faults \/ pc[Call(m)] = "lost"
  /\ RetryOrPass(m)
  /\ unheard' = [unheard EXCEPT ![m] = TRUE]
  /\ UNCHANGED <<vars, paid, closed>>

\* _call_with_retry, retry_delay later.
Retry(m) ==
  /\ stage[m] = "delay"
  /\ RenderPost(Call(m))
  /\ Goes(m, "posted")
  /\ UNCHANGED <<attempt, paid, closed, unheard>>

\* _call_api: any answer but 200 is a BillingError: sent without billing.
BillingErrorAnswer(m) ==
  /\ stage[m] = "posted" /\ pc[Call(m)] = "answered"
  /\ reply[Call(m)].code # 200
  /\ Goes(m, "published")
  /\ UNCHANGED <<vars, attempt, paid, closed, unheard>>

\* What set_paid depends on.  (Fault for the mutation runs: any 200 will do.)
PaidByAnyAnswer(m) == TRUE
TransactionMade(m) == reply[Call(m)].transaction

\* _handle_credit_cutoff: a message of an open session closes it with the credit
\* limit message, any other is dropped.
CutoffApplies(m) == Direction(m) = "Outbound" /\ reply[Call(m)].credit_cutoff_reached

HandleAnswer(m) ==
  /\ stage[m] = "posted" /\ pc[Call(m)] = "answered"
  /\ reply[Call(m)].code = 200
  /\ paid' = [paid EXCEPT ![m] = TransactionMade(m)]
  /\ IF ~CutoffApplies(m) THEN Goes(m, "published") /\ UNCHANGED closed
     ELSE IF SessionOf[m] \in {"resume", "close"}
     THEN Goes(m, "published") /\ closed' = [closed EXCEPT ![m] = TRUE]
     ELSE Goes(m, "dropped") /\ UNCHANGED closed
  /\ UNCHANGED <<vars, attempt, unheard>>

Dispatch(m) == PassUnbilled(m) \/ PostTransaction(m) \/ CallRaises(m) \/ Retry(m)
               \/ BillingErrorAnswer(m) \/ HandleAnswer(m)

\* A step of the API for a call it has been given.
ApiStep(r) == pc[r] # "idle" /\ Charge(r)

AllHandled ==
  /\ \A m \in Messages : stage[m] \in {"published", "dropped"}
  /\ \A r \in Requests : pc[r] \in Final \cup {"idle"}

SystemNext ==
  \/ \E m \in Messages : Dispatch(m)
  \/ (\E r \in Requests : ApiStep(r)) /\ UNCHANGED dispatcher
  \/ (\E t \in TopUps : Load(t)) /\ UNCHANGED dispatcher
  \/ Crash /\ UNCHANGED dispatcher
  \/ AllHandled /\ UNCHANGED system

SystemSpec == SystemInit /\ [][SystemNext]_system

\* The API serves what it is given (BillingApi!Fairness), a dead connection is
\* noticed, the retry timer fires, and an answer that has arrived is handled.
Handle(m) == Retry(m) \/ BillingErrorAnswer(m) \/ HandleAnswer(m)
             \/ (stage[m] = "posted" /\ pc[Call(m)] = "lost" /\ CallRaises(m))
SystemFairness ==
  /\ \A r \in Requests : WF_system(Serve(r) /\ UNCHANGED dispatcher)
  /\ \A m \in Messages : WF_system(Handle(m))
FairSystem == SystemSpec /\ SystemFairness

-----------------------------------------------------------------------------
(* Properties *)

Ended == {"published", "dropped"}
Charges(m) == {k \in {1, 2} : <<m, k>> \in charged}

\* The types of the dispatcher's own variables.
SystemTypeOK ==
  /\ stage \in [Messages -> {"idle", "posted", "delay"} \cup Ended]
  /\ attempt \in [Messages -> {1, 2}]
  /\ paid \in [Messages -> BOOLEAN]
  /\ closed \in [Messages -> BOOLEAN]
  /\ unheard \in [Messages -> BOOLEAN]

\* is_paid is never a lie: a message marked paid has a committed transaction row.
\* Routing trusts the flag and does not bill such a message again.
PaidIsCharged == \A m \in Messages : paid[m] => Charges(m) # {}

\* Only a call whose answer was never heard can go wrong for the customer: without
\* one a message that left the dispatcher was charged at most once, and it is
\* marked paid if and only if it was.
BilledOnceUnlessUnheard ==
  \A m \in Messages :
    ~unheard[m] /\ stage[m] \in Ended =>
      /\ Cardinality(Charges(m)) <= 1
      /\ paid[m] <=> Charges(m) # {}

\* A message is stopped only when its account is out of credit, and it still is
\* when the message is dropped: without top-ups nothing brings the balance back
\* between the check inside the API and the dispatcher's decision.  And what a user
\* sent in never is, whatever the balance, the errors and the crashes of the API
\* (credit_cutoff_notification_email.txt: "All incoming messages will be received
\* as normal").
StoppedOnlyUnderLimit ==
  /\ SystemTypeOK
  /\ \A m \in Messages :
       stage[m] = "dropped" \/ closed[m] => Direction(m) = "Outbound" /\ Cutoff(Account(m))

\* Every message that reaches the dispatcher leaves it when the API has more
\* connections than there are calls.  go/vumitools/billing_worker.py promises it of
\* all: "Any errors are logged and the message is allowed to continue on its path
\* and fulfill its destiny" - but a call the API never answers is no error: with as
\* many calls as connections the API blocks on its own pool, http_request_full has
\* no timeout, and the messages stay where they are.
EveryMessageLeaves ==
  \A m \in Messages : stage[m] # "idle" ~> stage[m] \in Ended
=============================================================================
