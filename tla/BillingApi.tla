------------------------------ MODULE BillingApi ------------------------------
(***************************************************************************)
(* The billing HTTP API (go/billing/api.py) over its Postgres database,    *)
(* together with the Django code that loads credits into the same account  *)
(* rows (load_account_credits of go/billing/django_utils.py).              *)
(*                                                                         *)
(* One POST /transactions is a sequence of actions, one per point where    *)
(* the Twisted callback chain gives control back: it waits for a           *)
(* connection, opens a database transaction on it, waits for a SECOND      *)
(* connection of the same pool for the message cost, reads the balance,    *)
(* inserts the transaction row, charges the balance under the row lock,    *)
(* sends a low-credit notification and commits.  `pc' names the statement  *)
(* the request executes next.                                              *)
(*                                                                         *)
(* The connection pool is txpostgres's: a FIFO semaphore with one token    *)
(* per connection (tokens, waiting).  The database is READ COMMITTED: an   *)
(* UPDATE waits for the row lock, then works on the committed row.         *)
(***************************************************************************)
EXTENDS BillingLevels, FiniteSets

CONSTANTS
  Accounts,          \* account_numbers with a row in billing_account
  Requests,          \* POSTs to /transactions
  Probes,            \* GETs of /health
  AccountOf,         \* [Requests -> account numbers], some without a row
  DirectionOf,       \* [Requests -> {"Inbound", "Outbound"}]
  Malformed,         \* the POSTs with a missing or unreadable field
  CreditCosts,       \* what a message may cost, in credits, NoCost included
  NoCost,            \* the cost query found no row
  PoolSize,          \* API_MIN_CONNECTIONS
  LOW_CREDIT_NOTIFICATION_PERCENTAGES,   \* the configured levels, sorted
  ENABLE_LOW_CREDIT_NOTIFICATION,
  ENABLE_LOW_CREDIT_CUTOFF,
  OpeningBalance,    \* [Accounts -> Int]
  OpeningTopup,      \* [Accounts -> Int], last_topup_balance
  TopUps,            \* calls of load_account_credits
  TopUpAccount,      \* [TopUps -> Accounts]
  TopUpAmount,       \* [TopUps -> Nat]
  Targets,           \* the top-ups made by set_account_balance
  Faults,            \* may statements fail and web processes die?
  MaxCrashes,        \* bound: crashes of the API process
  NoRequest          \* nobody holds the row lock

ASSUME BillingApiAssumption ==
  /\ IsFiniteSet(Requests) /\ IsFiniteSet(Probes) /\ Requests \cap Probes = {}
  /\ NoRequest \notin Requests
  /\ DirectionOf \in [Requests -> {"Inbound", "Outbound"}]
  /\ CreditCosts \subseteq Int \cup {NoCost} /\ NoCost \notin Int
  /\ PoolSize \in Nat \ {0}
  /\ LOW_CREDIT_NOTIFICATION_PERCENTAGES \in Seq(Int)
  /\ IsSorted(LOW_CREDIT_NOTIFICATION_PERCENTAGES)
  /\ ENABLE_LOW_CREDIT_NOTIFICATION \in BOOLEAN /\ ENABLE_LOW_CREDIT_CUTOFF \in BOOLEAN
  /\ OpeningBalance \in [Accounts -> Int]
  /\ OpeningTopup \in [Accounts -> Int]
  /\ TopUpAccount \in [TopUps -> Accounts]
  /\ TopUpAmount \in [TopUps -> Nat]
  /\ MaxCrashes \in Nat
  /\ Malformed \subseteq Requests

VARIABLES
  pc,                  \* what each request or probe does next
  tokens,              \* the pool's semaphore: free connections
  waiting,             \* the pool's semaphore: who waits, first come first served
  credit_amount,       \* per request, the cost get_cost returned
  last_topup_balance,  \* per request, as the SELECT saw it
  new_balance,         \* per request, what the UPDATE returned
  inserted,            \* per request, its billing_transaction row is written
  result,              \* per request, what the interaction returns
  reply,               \* per request or probe, the HTTP response
  balance,             \* committed billing_account.credit_balance
  topup,               \* committed billing_account.last_topup_balance
  row_lock,            \* per account, the request whose UPDATE is uncommitted
  charged,             \* the requests with a committed billing_transaction row
  ledger,              \* history: sum of credit_amount over Completed rows
  unfinished,          \* history: the same over the loaded but Pending rows
  stale_save,          \* history: a top-up saved an account row others changed
  notified,            \* history: per account, the notifications sent
  load,                \* per top-up, where load_account_credits is
  obj,                 \* per top-up, the Account object it read
  crashes

local  == <<credit_amount, last_topup_balance, new_balance, inserted, result>>
pool   == <<tokens, waiting>>
account == <<balance, topup>>
history == <<ledger, charged, unfinished, stale_save>>
db     == <<account, row_lock, history>>
django == <<load, obj>>
vars   == <<pc, pool, local, reply, db, notified, django, crashes>>

-----------------------------------------------------------------------------
Callers == Requests \cup Probes

mapping == CreateNotificationMapping(LOW_CREDIT_NOTIFICATION_PERCENTAGES)

NoReply  == [code |-> 0,   transaction |-> FALSE, credit_cutoff_reached |-> FALSE]
Code(c)  == [NoReply EXCEPT !.code = c]
Ok(transaction, cutoff) ==
  [code |-> 200, transaction |-> transaction, credit_cutoff_reached |-> cutoff]

\* The statements of an interaction, which run on its own connection.
InTransaction == {"get_cost", "queued_cost", "cost_query", "select", "insert",
                  "update", "notify", "commit"}
Final == {"answered", "lost"}

Init ==
  /\ pc = [r \in Callers |-> "idle"]
  /\ tokens = PoolSize /\ waiting = <<>>
  /\ credit_amount = [r \in Requests |-> 0]
  /\ last_topup_balance = [r \in Requests |-> 0]
  /\ new_balance = [r \in Requests |-> 0]
  /\ inserted = [r \in Requests |-> FALSE]
  /\ result = [r \in Requests |-> NoReply]
  /\ reply = [r \in Callers |-> NoReply]
  /\ balance = OpeningBalance /\ topup = OpeningTopup
  /\ row_lock = [a \in Accounts |-> NoRequest]
  /\ charged = {} /\ ledger = [a \in Accounts |-> 0]
  /\ unfinished = [a \in Accounts |-> 0]
  /\ stale_save = [a \in Accounts |-> FALSE]
  /\ notified = [a \in Accounts |-> <<>>]
  /\ load = [t \in TopUps |-> "idle"]
  /\ obj = [t \in TopUps |-> [credit_balance |-> 0, amount |-> 0]]
  /\ crashes = 0

-----------------------------------------------------------------------------
(* The connection pool: txpostgres runs runInteraction and runQuery under a *)
(* DeferredSemaphore of `min' tokens, which serves its waiters in order.    *)

\* c asks for a connection: it goes on at `granted' or waits at `queued'.
Acquire(c, granted, queued) ==
  \/ /\ tokens > 0
     /\ tokens' = tokens - 1
     /\ pc' = [pc EXCEPT ![c] = granted]
     /\ UNCHANGED waiting
  \/ /\ tokens = 0
     /\ waiting' = Append(waiting, c)
     /\ pc' = [pc EXCEPT ![c] = queued]
     /\ UNCHANGED tokens

\* Where a waiter goes on once it is given a connection.
Resumed(c) == IF pc[c] = "queued_cost" THEN "cost_query"
              ELSE IF c \in Requests THEN "get_cost" ELSE "ping"

\* How many waiters n released connections go to: release() wakes one for each.
\* (Fault for the mutation runs: it wakes nobody.)
ServedNobody(n) == 0
Served(n) == IF Len(waiting) < n THEN Len(waiting) ELSE n

\* c gives back n connections, which go to the first waiters, and moves on.
Release(c, n, next) ==
  LET granted == {waiting[i] : i \in 1..Served(n)}
  IN  /\ tokens' = tokens + (n - Served(n))
      /\ waiting' = SubSeq(waiting, Served(n) + 1, Len(waiting))
      /\ pc' = [d \in Callers |-> IF d = c THEN next
                                  ELSE IF d \in granted THEN Resumed(d)
                                  ELSE pc[d]]

-----------------------------------------------------------------------------
(* POST /transactions *)

\* render_POST, a body _parse_post rejects: 400 without touching the database.
RejectPost(r) ==
  /\ pc[r] = "idle" /\ r \in Malformed
  /\ pc' = [pc EXCEPT ![r] = "answered"]
  /\ reply' = [reply EXCEPT ![r] = Code(400)]
  /\ UNCHANGED <<pool, local, db, notified, django, crashes>>

\* render_POST and create_transaction: runInteraction asks the pool for the
\* connection of the interaction.
RenderPost(r) ==
  /\ pc[r] = "idle" /\ r \in Requests \ Malformed
  /\ Acquire(r, "get_cost", "queued")
  /\ UNCHANGED <<local, reply, db, notified, django, crashes>>

\* get_cost: runQuery asks the pool for another one while that one is held.
GetCost(r) ==
  /\ pc[r] = "get_cost"
  /\ Acquire(r, "cost_query", "queued_cost")
  /\ UNCHANGED <<local, reply, db, notified, django, crashes>>

\* The connections r holds: the interaction's, and the cost query's while it runs.
\* (Fault for the mutation runs: an exception in the query forgets the second.)
HeldOne(r) == 1
Held(r) == IF pc[r] = "cost_query" THEN 2 ELSE 1

\* The interaction ends in an exception: runInteraction rolls back what it
\* wrote, the connections go back, and _handle_error answers 500.
\* (Fault for the mutation runs: the answer does not wait for the commit.)
AnswerBeforeCommit(r) ==
  /\ Release(r, Held(r), "answered")
  /\ reply' = [reply EXCEPT ![r] = result[r]]
  /\ inserted' = [inserted EXCEPT ![r] = FALSE]
  /\ row_lock' = [a \in Accounts |-> IF row_lock[a] = r THEN NoRequest
                                                        ELSE row_lock[a]]
Rollback(r) ==
  /\ Release(r, Held(r), "answered")
  /\ reply' = [reply EXCEPT ![r] = Code(500)]
  /\ inserted' = [inserted EXCEPT ![r] = FALSE]
  /\ row_lock' = [a \in Accounts |-> IF row_lock[a] = r THEN NoRequest
                                                        ELSE row_lock[a]]

\* The cost query answers and its connection goes back.
CostFound(r) ==
  /\ pc[r] = "cost_query"
  /\ \E cost \in CreditCosts \ {NoCost} : credit_amount' = [credit_amount EXCEPT ![r] = cost]
  /\ Release(r, 1, "select")
  /\ UNCHANGED <<last_topup_balance, new_balance, inserted, result, reply, db,
                 notified, django, crashes>>

\* No message cost matches: BillingError.
CostMissing(r) ==
  /\ pc[r] = "cost_query" /\ NoCost \in CreditCosts
  /\ Rollback(r)
  /\ UNCHANGED <<credit_amount, last_topup_balance, new_balance, result,
                 account, history, notified, django, crashes>>

\* SELECT credit_balance, last_topup_balance: no row, BillingError.
AccountMissing(r) ==
  /\ pc[r] = "select" /\ AccountOf[r] \notin Accounts
  /\ Rollback(r)
  /\ UNCHANGED <<credit_amount, last_topup_balance, new_balance, result,
                 account, history, notified, django, crashes>>

\* The cutoff is enabled and no level is configured: the cutoff check that r
\* makes next takes element 0 of an empty mapping.
IndexError(r) ==
  /\ ENABLE_LOW_CREDIT_CUTOFF /\ DOMAIN mapping = {}
  /\ \/ /\ pc[r] = "select" /\ DirectionOf[r] = "Outbound"
        /\ topup[AccountOf[r]] # 0
     \/ pc[r] = "notify" /\ last_topup_balance[r] # 0

MappingEmpty(r) ==
  /\ pc[r] \in {"select", "notify"} /\ AccountOf[r] \in Accounts /\ IndexError(r)
  /\ Rollback(r)
  /\ UNCHANGED <<credit_amount, last_topup_balance, new_balance, result,
                 account, history, notified, django, crashes>>

Cutoff(a) == ENABLE_LOW_CREDIT_CUTOFF /\ CutoffReached(mapping, balance[a], topup[a])

\* An outbound message of an account that is under the lowest level is not
\* charged.  (Fault for the mutation runs: the check is left out.)
NeverRefused(r) == FALSE
Refused(r) == DirectionOf[r] = "Outbound" /\ Cutoff(AccountOf[r])

\* The SELECT sees the committed row; a refused message goes no further.
SelectBalance(r) ==
  LET a == AccountOf[r]
  IN  /\ pc[r] = "select" /\ a \in Accounts /\ ~IndexError(r)
      /\ last_topup_balance' = [last_topup_balance EXCEPT ![r] = topup[a]]
      /\ pc' = [pc EXCEPT ![r] = IF Refused(r) THEN "commit" ELSE "insert"]
      /\ result' = [result EXCEPT ![r] = IF Refused(r) THEN Ok(FALSE, TRUE) ELSE @]
      /\ UNCHANGED <<pool, credit_amount, new_balance, inserted, reply, db,
                     notified, django, crashes>>

\* INSERT INTO billing_transaction, a Completed row worth -credit_amount.
\* (The first form is a fault for the mutation runs: the row commits at once.)
InsertAutocommit(r) ==
  LET a == AccountOf[r]
  IN  /\ pc[r] = "insert"
      /\ charged' = charged \cup {r}
      /\ ledger' = [ledger EXCEPT ![a] = @ - credit_amount[r]]
      /\ pc' = [pc EXCEPT ![r] = "update"]
      /\ UNCHANGED <<pool, local, reply, account, row_lock, unfinished, stale_save,
                     notified, django, crashes>>
InsertTransaction(r) ==
  /\ pc[r] = "insert"
  /\ inserted' = [inserted EXCEPT ![r] = TRUE]
  /\ pc' = [pc EXCEPT ![r] = "update"]
  /\ UNCHANGED <<pool, credit_amount, last_topup_balance, new_balance, result,
                 reply, db, notified, django, crashes>>

\* (Fault for the mutation runs: two transactions update one row at a time.)
NoRowLock(a) == TRUE
LockFree(a) == row_lock[a] = NoRequest

\* UPDATE billing_account SET credit_balance = credit_balance - credit_amount:
\* waits for the row lock and takes it until the commit.
UpdateBalance(r) ==
  LET a == AccountOf[r]
  IN  /\ pc[r] = "update" /\ LockFree(a)
      /\ row_lock' = [row_lock EXCEPT ![a] = r]
      /\ new_balance' = [new_balance EXCEPT ![r] = balance[a] - credit_amount[r]]
      /\ pc' = [pc EXCEPT ![r] = "notify"]
      /\ UNCHANGED <<pool, credit_amount, last_topup_balance, inserted, result,
                     reply, account, history, notified, django, crashes>>

\* check_and_notify_low_credit_threshold hands the e-mail to celery, before the
\* commit; then the post-charge cutoff check, for either direction.
NotifyThreshold(r) ==
  LET a      == AccountOf[r]
      level  == CheckAllLowCreditThresholds(mapping, new_balance[r],
                                            credit_amount[r], last_topup_balance[r])
      cutoff == /\ ENABLE_LOW_CREDIT_CUTOFF
                /\ CutoffReached(mapping, new_balance[r], last_topup_balance[r])
  IN  /\ pc[r] = "notify" /\ ~IndexError(r)
      /\ notified' =
           IF ENABLE_LOW_CREDIT_NOTIFICATION /\ level # NoLevel
           THEN [notified EXCEPT ![a] = Append(@,
                  [level |-> level, request |-> r,
                   cutoff_notification |-> level = mapping[Lowest(mapping)]])]
           ELSE notified
      /\ result' = [result EXCEPT ![r] = Ok(TRUE, cutoff)]
      /\ pc' = [pc EXCEPT ![r] = "commit"]
      /\ UNCHANGED <<pool, credit_amount, last_topup_balance, new_balance,
                     inserted, reply, db, django, crashes>>

\* The interaction returned: runInteraction commits its row and its update
\* together and frees the connection.
Commit(r) ==
  LET a == AccountOf[r]
  IN  /\ pc[r] = "commit"
      /\ Release(r, 1, "render")
      /\ balance' = IF row_lock[a] = r THEN [balance EXCEPT ![a] = new_balance[r]]
                                       ELSE balance
      /\ ledger'  = IF inserted[r] THEN [ledger EXCEPT ![a] = @ - credit_amount[r]]
                                   ELSE ledger
      /\ charged' = IF inserted[r] THEN charged \cup {r} ELSE charged
      /\ row_lock' = IF row_lock[a] = r THEN [row_lock EXCEPT ![a] = NoRequest]
                                        ELSE row_lock
      /\ inserted' = [inserted EXCEPT ![r] = FALSE]
      /\ UNCHANGED <<credit_amount, last_topup_balance, new_balance, result, reply,
                     topup, unfinished, stale_save, notified, django, crashes>>

\* _render_to_json answers 200.
RenderToJson(r) ==
  /\ pc[r] = "render"
  /\ pc' = [pc EXCEPT ![r] = "answered"]
  /\ reply' = [reply EXCEPT ![r] = result[r]]
  /\ UNCHANGED <<pool, local, db, notified, django, crashes>>

\* A statement, the celery hand-off or the commit itself fails (bound: Faults).
Fail(r) ==
  /\ Faults
  /\ pc[r] \in InTransaction \ {"queued_cost"}
  /\ Rollback(r)
  /\ UNCHANGED <<credit_amount, last_topup_balance, new_balance, result,
                 account, history, notified, django, crashes>>

-----------------------------------------------------------------------------
(* GET /health runs SELECT 1 on a connection of the same pool. *)

HealthCheck(p) ==
  /\ pc[p] = "idle" /\ p \in Probes
  /\ Acquire(p, "ping", "queued")
  /\ UNCHANGED <<local, reply, db, notified, django, crashes>>

Pong(p) ==
  /\ pc[p] = "ping"
  /\ Release(p, 1, "answered")
  /\ \E code \in IF Faults THEN {200, 503} ELSE {200} :
        reply' = [reply EXCEPT ![p] = Code(code)]
  /\ UNCHANGED <<local, db, notified, django, crashes>>

-----------------------------------------------------------------------------
(* The API process dies: its connections drop, Postgres rolls back what was  *)
(* uncommitted, and nobody gets an answer.  It is restarted at once.         *)
Crash ==
  /\ crashes < MaxCrashes
  /\ crashes' = crashes + 1
  /\ pc' = [c \in Callers |-> IF pc[c] \in Final \cup {"idle"} THEN pc[c] ELSE "lost"]
  /\ tokens' = PoolSize /\ waiting' = <<>>
  /\ inserted' = [r \in Requests |-> FALSE]
  /\ row_lock' = [a \in Accounts |-> NoRequest]
  /\ UNCHANGED <<credit_amount, last_topup_balance, new_balance, result, reply,
                 account, history, notified, django>>

-----------------------------------------------------------------------------
(* load_account_credits, run by a Django process in autocommit mode: the    *)
(* credit load form of the admin, and set_account_balance.                  *)

\* The Account object is read; set_account_balance tops up to a target, and
\* never below the balance it read.
LoadRead(t) ==
  LET now == balance[TopUpAccount[t]]
  IN  /\ load[t] = "idle"
      /\ load' = [load EXCEPT ![t] = "read"]
      /\ obj' = [obj EXCEPT ![t] =
           [credit_balance |-> now,
            amount |-> IF t \notin Targets THEN TopUpAmount[t]
                       ELSE IF TopUpAmount[t] > now THEN TopUpAmount[t] - now
                       ELSE 0]]
      /\ UNCHANGED <<pc, pool, local, reply, db, notified, crashes>>

\* Transaction.objects.create: a Pending row.
LoadPending(t) ==
  /\ load[t] = "read"
  /\ load' = [load EXCEPT ![t] = "pending"]
  /\ UNCHANGED <<pc, pool, local, reply, db, notified, obj, crashes>>

\* account.save() writes the whole row from the object, whatever the row is by
\* now; like any UPDATE it waits for the row lock.
LoadSave(t) ==
  LET a      == TopUpAccount[t]
      loaded == obj[t].credit_balance + obj[t].amount
  IN  /\ load[t] = "pending" /\ LockFree(a)
      /\ load' = [load EXCEPT ![t] = "saved"]
      /\ balance' = [balance EXCEPT ![a] = loaded]
      /\ topup' = [topup EXCEPT ![a] = loaded]
      /\ unfinished' = [unfinished EXCEPT ![a] = @ + obj[t].amount]
      /\ stale_save' = [stale_save EXCEPT ![a] = @ \/ balance[a] # obj[t].credit_balance]
      /\ UNCHANGED <<pc, pool, local, reply, row_lock, ledger, charged,
                     notified, obj, crashes>>

\* transaction.status = Completed
LoadComplete(t) ==
  LET a == TopUpAccount[t]
  IN  /\ load[t] = "saved"
      /\ load' = [load EXCEPT ![t] = "done"]
      /\ ledger' = [ledger EXCEPT ![a] = @ + obj[t].amount]
      /\ unfinished' = [unfinished EXCEPT ![a] = @ - obj[t].amount]
      /\ UNCHANGED <<pc, pool, local, reply, account, row_lock, charged, stale_save,
                     notified, obj, crashes>>

\* The Django process dies on the way (bound: Faults).
LoadAbort(t) ==
  /\ Faults /\ load[t] \in {"read", "pending", "saved"}
  /\ load' = [load EXCEPT ![t] = "aborted"]
  /\ UNCHANGED <<pc, pool, local, reply, db, notified, obj, crashes>>

-----------------------------------------------------------------------------
Quiescent ==
  /\ \A c \in Callers : pc[c] \in Final
  /\ \A t \in TopUps : load[t] \in {"done", "aborted"}

\* Every request is served: the only state without a step in the system.
Done == Quiescent /\ UNCHANGED vars

Charge(r) == RejectPost(r) \/ RenderPost(r) \/ GetCost(r) \/ CostFound(r)
             \/ CostMissing(r) \/ AccountMissing(r) \/ SelectBalance(r)
             \/ InsertTransaction(r) \/ UpdateBalance(r) \/ NotifyThreshold(r)
             \/ Commit(r) \/ RenderToJson(r) \/ MappingEmpty(r) \/ Fail(r)
Health(p) == HealthCheck(p) \/ Pong(p)
Load(t)   == LoadRead(t) \/ LoadPending(t) \/ LoadSave(t) \/ LoadComplete(t)
             \/ LoadAbort(t)

Next == \/ \E r \in Requests : Charge(r)
        \/ \E p \in Probes : Health(p)
        \/ \E t \in TopUps : Load(t)
        \/ Crash
        \/ Done

Spec == Init /\ [][Next]_vars

\* Postgres and celery answer every call they are given (with a result or an
\* error), the reactor runs the callback, and Django runs a request to its end.
\* Nothing obliges a client to post, a statement to fail or a process to die.
Serve(r) == GetCost(r) \/ CostFound(r) \/ CostMissing(r) \/ AccountMissing(r)
            \/ SelectBalance(r) \/ InsertTransaction(r) \/ UpdateBalance(r)
            \/ NotifyThreshold(r) \/ Commit(r) \/ RenderToJson(r) \/ MappingEmpty(r)
Fairness == /\ \A r \in Requests : WF_vars(Serve(r))
            /\ \A p \in Probes : WF_vars(Pong(p))
FairSpec == Spec /\ Fairness

-----------------------------------------------------------------------------
(* Properties *)

Steps == {"idle", "queued", "ping", "render"} \cup InTransaction \cup Final
Responses == [code : {0, 200, 400, 500, 503}, transaction : BOOLEAN,
              credit_cutoff_reached : BOOLEAN]

TypeOK ==
  /\ pc \in [Callers -> Steps]
  /\ tokens \in Nat
  /\ waiting \in Seq(Callers)
  /\ credit_amount \in [Requests -> Int]
  /\ last_topup_balance \in [Requests -> Int]
  /\ new_balance \in [Requests -> Int]
  /\ inserted \in [Requests -> BOOLEAN]
  /\ result \in [Requests -> Responses]
  /\ reply \in [Callers -> Responses]
  /\ balance \in [Accounts -> Int]
  /\ topup \in [Accounts -> Int]
  /\ row_lock \in [Accounts -> Requests \cup {NoRequest}]
  /\ ledger \in [Accounts -> Int]
  /\ charged \subseteq Requests
  /\ unfinished \in [Accounts -> Int]
  /\ stale_save \in [Accounts -> BOOLEAN]
  /\ load \in [TopUps -> {"idle", "read", "pending", "saved", "done", "aborted"}]
  /\ obj \in [TopUps -> [credit_balance : Int, amount : Int]]
  /\ crashes \in Nat

\* The books of an account balance whatever the interleaving, the failures and
\* the crashes of the API: the committed balance is the opening balance plus the
\* credit_amount of every row that is Completed, plus the top-ups loaded and not
\* yet marked so - unless a top-up saved an account object that had gone stale.
\* Rests on the INSERT and the relative UPDATE committing together
\* (runInteraction) and on the row lock between two charges.
LedgerBalanced ==
  \A a \in Accounts :
    ~stale_save[a] => balance[a] = OpeningBalance[a] + ledger[a] + unfinished[a]

\* The API over Postgres implements the Ledger: requests are charged in one atomic
\* step, at most once, and every answer is true of the table at that moment.
Told == [r \in Requests |-> IF reply[r].code = 0 THEN "nothing"
                            ELSE IF reply[r].transaction THEN "charged"
                            ELSE "not charged"]
Promise == INSTANCE Ledger WITH told <- Told, Costs <- CreditCosts \ {NoCost}
ImplementsLedger == Promise!Spec

\* What a POST is told agrees with the table: 200 with a transaction means the
\* row is committed; a refusal (cutoff), a 400 and a 500 mean there is none, so
\* that the dispatcher may treat the message as unpaid.
AnswerOf(r) == /\ reply[r].code = 200 => (reply[r].transaction <=> r \in charged)
               /\ reply[r].code \in {400, 500} => r \notin charged
AnswerAgreesWithTable == \A r \in Requests : AnswerOf(r)

\* The pool loses no connection, whichever way an interaction ends (an exception
\* inside get_cost included), and nobody waits while one is free.
Uses(c)  == IF pc[c] = "cost_query" THEN 2
            ELSE IF pc[c] \in InTransaction \cup {"ping"} THEN 1 ELSE 0
InUse    == {s \in Callers \X {1, 2} : s[2] <= Uses(s[1])}
Waiters  == {waiting[i] : i \in 1..Len(waiting)}
PoolConserved ==
  /\ tokens + Cardinality(InUse) = PoolSize
  /\ tokens > 0 => waiting = <<>>
  /\ Waiters = {c \in Callers : pc[c] \in {"queued", "queued_cost"}}

\* The pool is the only thing requests can deadlock on, and it takes PoolSize of
\* them at once, each holding a connection and waiting for another to look up its
\* cost: with fewer requests than connections somebody can always go on.
InFlight(c) == pc[c] \notin Final \cup {"idle"}
Stuck == /\ \E c \in Callers : InFlight(c)
         /\ \A c \in Callers : InFlight(c) => pc[c] \in {"queued", "queued_cost"}
StuckOnlyOnCostQueries ==
  Stuck => Cardinality({r \in Requests : pc[r] = "queued_cost"}) = PoolSize

\* How far an account may go under the cutoff: outbound requests that passed the
\* check before the charge that crosses it still charge, but each holds a
\* connection and needed a second one to get there, so with outbound traffic only
\* the balance stays within PoolSize - 1 messages of the lowest balance that is
\* not cut off.
MaxCost == CHOOSE c \in CreditCosts \ {NoCost} : \A d \in CreditCosts \ {NoCost} : d <= c
OverrunBounded ==
  \A a \in Accounts :
    ~CutoffReached(mapping, balance[a] + (PoolSize - 1) * MaxCost, topup[a])

LevelAt(a, amount) == GetNotificationLevel(mapping, CeilPercent(amount, topup[a]))

\* With no failure and no top-up, concurrent charges send each level at most once
\* and in falling order, and the last one sent is the level the balance is at:
\* the row lock makes the balances before and after a charge those of a serial
\* execution although the threshold check runs before the commit.
NotificationsFollowBalance ==
  \A a \in Accounts :
    LET sent == notified[a]
    IN  /\ \A i, j \in 1..Len(sent) : i < j => sent[i].level > sent[j].level
        /\ row_lock[a] = NoRequest =>
             IF LevelAt(a, balance[a]) = LevelAt(a, OpeningBalance[a])
             THEN sent = <<>>
             ELSE sent # <<>> /\ sent[Len(sent)].level = LevelAt(a, balance[a])

\* Every POST and every health check that reaches the API is answered, or its
\* connection drops in a crash, when fewer requests than connections are under way.
EveryCallerAnswered ==
  \A c \in Callers : pc[c] # "idle" ~> pc[c] \in Final

-----------------------------------------------------------------------------
(* The inductive strengthening of LedgerBalanced and AnswerAgreesWithTable. *)

\* The semaphore's queue holds exactly the callers whose pc says they wait, once.
QueueInv ==
  /\ \A i \in 1..Len(waiting) : pc[waiting[i]] \in {"queued", "queued_cost"}
  /\ \A i, j \in 1..Len(waiting) : waiting[i] = waiting[j] => i = j

\* A request past the cost query has its cost, and past the SELECT its account has
\* a row.
KnownInv == \A r \in Requests :
  /\ pc[r] \in {"select", "insert", "update", "notify", "commit"} =>
       credit_amount[r] \in CreditCosts \ {NoCost}
  /\ pc[r] \in {"insert", "update", "notify", "commit"} => AccountOf[r] \in Accounts

\* A request's row is written from the INSERT to the end of its interaction; from
\* the UPDATE on it holds the row lock, and the balance is the one it charged.
RowOf(r) ==
  /\ inserted[r] <=> (pc[r] \in {"update", "notify"}
                      \/ (pc[r] = "commit" /\ result[r].transaction))
  /\ inserted[r] /\ pc[r] # "update" =>
       /\ row_lock[AccountOf[r]] = r
       /\ new_balance[r] = balance[AccountOf[r]] - credit_amount[r]

\* Whoever holds the lock of an account is charging that account.
HolderOf(a) == row_lock[a] # NoRequest =>
  /\ pc[row_lock[a]] \in {"notify", "commit"}
  /\ inserted[row_lock[a]]
  /\ AccountOf[row_lock[a]] = a

LockInv == (\A r \in Requests : RowOf(r)) /\ (\A a \in Accounts : HolderOf(a))

\* A row is committed only by an interaction that has ended, and the answer that
\* is being rendered says whether it was.
TableOf(r) ==
  /\ r \in charged => pc[r] \in {"render"} \cup Final
  /\ pc[r] \in {"commit", "render"} => result[r].code = 200
  /\ pc[r] = "render" => (result[r].transaction <=> r \in charged)
  /\ pc[r] # "answered" => reply[r].code = 0
  /\ reply[r].transaction => reply[r].code = 200

TableInv == \A r \in Requests : TableOf(r)

IInv == TypeOK /\ QueueInv /\ KnownInv /\ LockInv /\ TableInv /\ LedgerBalanced
        /\ AnswerAgreesWithTable

-----------------------------------------------------------------------------
(* What the repository says of this code, and the runs refute. *)

\* go/billing/models.py, help text of Transaction.credit_amount: "The number of
\* credits this transaction adds or subtracts."  The balance would be the opening
\* balance and the rows - but a top-up that overlaps a charge undoes it.
BooksBalance ==
  \A a \in Accounts : balance[a] = OpeningBalance[a] + ledger[a] + unfinished[a]
=============================================================================
