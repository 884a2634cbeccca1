--------------------------- MODULE BillingApiProofs ---------------------------
(***************************************************************************)
(* Proofs about BillingApi for every set of accounts, requests and         *)
(* top-ups, every pool size, cost and configuration.  The inductive        *)
(* invariant is BillingApi!IInv.                                           *)
(***************************************************************************)
EXTENDS BillingApi, FiniteSetTheorems, FunctionTheorems, WellFoundedInduction, TLAPS

Queued == {"queued", "queued_cost"}

\* What giving n connections back does: c moves on, each of the waiters it wakes
\* goes to the statement its connection is for, and the queue stays a queue.
LEMMA ReleaseFact ==
  ASSUME TypeOK, QueueInv,
         NEW c \in Callers, pc[c] \notin Queued,
         NEW n \in {1, 2}, NEW next \in Steps \ Queued,
         Release(c, n, next)
  PROVE  /\ tokens' \in Nat
         /\ waiting' \in Seq(Callers)
         /\ pc' \in [Callers -> Steps]
         /\ QueueInv'
         /\ pc'[c] = next
         /\ \A d \in Callers \ {c} :
              \/ pc'[d] = pc[d]
              \/ pc[d] \in Queued /\ pc'[d] \in {"get_cost", "cost_query", "ping"}
<1> DEFINE granted == {waiting[i] : i \in 1..Served(n)}
<1>1. /\ Served(n) \in 0..Len(waiting)
      /\ Served(n) \in 0..n
      /\ waiting \in Seq(Callers) /\ tokens \in Nat /\ Len(waiting) \in Nat
  BY DEF Served, TypeOK
<1>2. tokens' \in Nat
  BY <1>1 DEF Release
<1>3. /\ waiting' \in Seq(Callers)
      /\ Len(waiting') = Len(waiting) - Served(n)
      /\ \A i \in 1..Len(waiting') : waiting'[i] = waiting[i + Served(n)]
  BY SMTT(60), <1>1 DEF Release
<1>4. \A d \in granted : d \in Callers /\ pc[d] \in Queued /\ d # c
  BY <1>1 DEF QueueInv, Queued
<1>5. /\ pc'[c] = next
      /\ \A d \in Callers \ {c} : pc'[d] = IF d \in granted THEN Resumed(d) ELSE pc[d]
      /\ pc' = [d \in Callers |-> pc'[d]]
  BY DEF Release
<1>6. \A d \in granted : Resumed(d) \in {"get_cost", "cost_query", "ping"}
  BY <1>4 DEF Resumed, Queued
<1>7. pc' \in [Callers -> Steps]
  <2>1. \A d \in Callers : pc'[d] \in Steps
    BY <1>5, <1>6 DEF TypeOK, Steps, InTransaction
  <2> QED BY <2>1, <1>5
<1>8. QueueInv'
  <2>1. ASSUME NEW i \in 1..Len(waiting')
        PROVE  pc'[waiting'[i]] \in Queued
    <3>1. /\ i + Served(n) \in 1..Len(waiting)
          /\ waiting'[i] = waiting[i + Served(n)]
      BY <1>1, <1>3
    <3>2. waiting'[i] \in Callers /\ pc[waiting'[i]] \in Queued
      BY <1>1, <3>1 DEF QueueInv, Queued
    <3>3. waiting'[i] \notin granted
      BY <1>1, <3>1 DEF QueueInv
    <3> QED BY <1>5, <3>2, <3>3
  <2>2. ASSUME NEW i \in 1..Len(waiting'), NEW j \in 1..Len(waiting'),
               waiting'[i] = waiting'[j]
        PROVE  i = j
    <3>1. /\ i + Served(n) \in 1..Len(waiting)
          /\ j + Served(n) \in 1..Len(waiting)
          /\ waiting[i + Served(n)] = waiting[j + Served(n)]
      BY <1>1, <1>3, <2>2
    <3> QED BY <1>1, <3>1 DEF QueueInv
  <2> QED BY <2>1, <2>2 DEF QueueInv, Queued
<1> QED BY <1>2, <1>3, <1>4, <1>5, <1>6, <1>7, <1>8

\* What asking for a connection does.
LEMMA AcquireFact ==
  ASSUME TypeOK, QueueInv,
         NEW c \in Callers, pc[c] \notin Queued,
         NEW granted \in Steps \ Queued, NEW queued \in Queued,
         Acquire(c, granted, queued)
  PROVE  /\ tokens' \in Nat
         /\ waiting' \in Seq(Callers)
         /\ pc' \in [Callers -> Steps]
         /\ QueueInv'
         /\ pc'[c] \in {granted, queued}
         /\ \A d \in Callers \ {c} : pc'[d] = pc[d]
<1>1. CASE tokens > 0 /\ UNCHANGED waiting /\ tokens' = tokens - 1
           /\ pc' = [pc EXCEPT ![c] = granted]
  <2>1. tokens' \in Nat /\ waiting' \in Seq(Callers) /\ pc' \in [Callers -> Steps]
    BY <1>1 DEF TypeOK
  <2>2. pc'[c] = granted /\ \A d \in Callers \ {c} : pc'[d] = pc[d]
    BY <1>1 DEF TypeOK
  <2>3. \A i \in 1..Len(waiting) : waiting[i] \in Callers /\ waiting[i] # c
    BY DEF TypeOK, QueueInv, Queued
  <2>4. QueueInv'
    BY <1>1, <2>2, <2>3 DEF QueueInv
  <2> QED BY <2>1, <2>2, <2>4
<1>2. CASE tokens = 0 /\ UNCHANGED tokens /\ waiting' = Append(waiting, c)
           /\ pc' = [pc EXCEPT ![c] = queued]
  <2>1. /\ tokens' \in Nat /\ waiting' \in Seq(Callers) /\ pc' \in [Callers -> Steps]
        /\ Len(waiting') = Len(waiting) + 1 /\ Len(waiting) \in Nat
        /\ \A i \in 1..Len(waiting) : waiting'[i] = waiting[i]
        /\ waiting'[Len(waiting) + 1] = c
    BY <1>2 DEF TypeOK, Queued, Steps, InTransaction
  <2>2. pc'[c] = queued /\ \A d \in Callers \ {c} : pc'[d] = pc[d]
    BY <1>2 DEF TypeOK
  <2>3. \A i \in 1..Len(waiting) : waiting[i] \in Callers /\ waiting[i] # c
    BY DEF TypeOK, QueueInv, Queued
  <2>4. QueueInv'
    BY <2>1, <2>2, <2>3 DEF QueueInv, Queued
  <2> QED BY <2>1, <2>2, <2>4
<1> QED BY <1>1, <1>2 DEF Acquire

-----------------------------------------------------------------------------
(* Type correctness *)

\* What every action does to pc and to the queue.
Shift(c) ==
  /\ tokens' \in Nat
  /\ waiting' \in Seq(Callers)
  /\ pc' \in [Callers -> Steps]
  /\ QueueInv'
  /\ \A d \in Callers \ {c} :
       \/ pc'[d] = pc[d]
       \/ pc[d] \in Queued /\ pc'[d] \in {"get_cost", "cost_query", "ping"}

\* A step of one caller that leaves the pool alone.
LEMMA MoveFact ==
  ASSUME TypeOK, QueueInv, NEW c \in Callers, pc[c] \notin Queued,
         NEW next \in Steps \ Queued,
         pc' = [pc EXCEPT ![c] = next], UNCHANGED pool
  PROVE  Shift(c) /\ pc'[c] = next
<1>1. tokens' \in Nat /\ waiting' \in Seq(Callers) /\ pc' \in [Callers -> Steps]
  BY DEF TypeOK, pool
<1>2. pc'[c] = next /\ \A d \in Callers \ {c} : pc'[d] = pc[d]
  BY DEF TypeOK
<1>3. \A i \in 1..Len(waiting) : waiting[i] \in Callers /\ waiting[i] # c
  BY DEF TypeOK, QueueInv, Queued
<1>4. QueueInv'
  BY <1>2, <1>3 DEF QueueInv, pool
<1> QED BY <1>1, <1>2, <1>4 DEF Shift

\* Where each action of a request takes it: pcs, pool and queue.
LEMMA ChargeShift ==
  ASSUME TypeOK, QueueInv, NEW r \in Requests, Charge(r)
  PROVE  Shift(r)
<1> r \in Callers
  BY DEF Callers
<1> USE DEF Queued, Steps, InTransaction, Final
<1>1. ASSUME Rollback(r), pc[r] \in InTransaction \ {"queued_cost"}
      PROVE  Shift(r)
  <2>1. Held(r) \in {1, 2} /\ Release(r, Held(r), "answered")
    BY <1>1 DEF Held, Rollback
  <2> QED BY <1>1, <2>1, ReleaseFact DEF Shift
<1>2. CASE RejectPost(r)
  BY <1>2, MoveFact DEF RejectPost
<1>3. CASE RenderPost(r)
  BY <1>3, AcquireFact DEF RenderPost, Shift
<1>4. CASE GetCost(r)
  BY <1>4, AcquireFact DEF GetCost, Shift
<1>5. CASE CostFound(r)
  BY <1>5, ReleaseFact DEF CostFound, Shift
<1>6. CASE CostMissing(r)
  BY <1>1, <1>6 DEF CostMissing
<1>7. CASE AccountMissing(r)
  BY <1>1, <1>7 DEF AccountMissing
<1>8. CASE MappingEmpty(r)
  BY <1>1, <1>8 DEF MappingEmpty
<1>9. CASE Fail(r)
  BY <1>1, <1>9 DEF Fail
<1>10. CASE SelectBalance(r)
  <2>1. (IF Refused(r) THEN "commit" ELSE "insert") \in Steps \ Queued
    OBVIOUS
  <2> QED BY <1>10, <2>1, MoveFact DEF SelectBalance
<1>11. CASE InsertTransaction(r)
  BY <1>11, MoveFact DEF InsertTransaction
<1>12. CASE UpdateBalance(r)
  BY <1>12, MoveFact DEF UpdateBalance
<1>13. CASE NotifyThreshold(r)
  BY <1>13, MoveFact DEF NotifyThreshold
<1>14. CASE Commit(r)
  BY <1>14, ReleaseFact DEF Commit, Shift
<1>15. CASE RenderToJson(r)
  BY <1>15, MoveFact DEF RenderToJson
<1> QED BY <1>2, <1>3, <1>4, <1>5, <1>6, <1>7, <1>8, <1>9, <1>10, <1>11, <1>12,
           <1>13, <1>14, <1>15 DEF Charge

LEMMA HealthShift ==
  ASSUME TypeOK, QueueInv, NEW p \in Probes, Health(p)
  PROVE  Shift(p) /\ UNCHANGED <<local, db, django, crashes>>
<1> p \in Callers
  BY DEF Callers
<1> USE DEF Queued, Steps, InTransaction, Final
<1>1. CASE HealthCheck(p)
  BY <1>1, AcquireFact DEF HealthCheck, Shift
<1>2. CASE Pong(p)
  BY <1>2, ReleaseFact DEF Pong, Shift
<1> QED BY <1>1, <1>2 DEF Health

\* No response is anything but a code and the two flags.
LEMMA ResponseFact ==
  /\ NoReply \in Responses
  /\ \A c \in {400, 500, 200, 503} : Code(c) \in Responses
  /\ \A t, k \in BOOLEAN : Ok(t, k) \in Responses
<1>1. NoReply \in Responses
  BY DEF NoReply, Responses
<1>2. ASSUME NEW c \in {400, 500, 200, 503} PROVE Code(c) \in Responses
  BY ZenonT(80) DEF Code, NoReply, Responses
<1>3. ASSUME NEW t \in BOOLEAN, NEW k \in BOOLEAN PROVE Ok(t, k) \in Responses
  BY DEF Ok, Responses
<1> QED BY <1>1, <1>2, <1>3

LEMMA ChargeType ==
  ASSUME TypeOK, QueueInv, KnownInv, NEW r \in Requests, Charge(r)
  PROVE  TypeOK'
<1> r \in Callers
  BY DEF Callers
<1> Shift(r)
  BY ChargeShift
<1> pc' \in [Callers -> Steps] /\ tokens' \in Nat /\ waiting' \in Seq(Callers)
  BY DEF Shift
<1> USE BillingApiAssumption, ResponseFact
        DEF TypeOK, local, pool, db, account, history, django
<1>1. ASSUME Rollback(r),
             UNCHANGED <<credit_amount, last_topup_balance, new_balance, result,
                         account, history, notified, django, crashes>>
      PROVE  TypeOK'
  <2>1. row_lock' \in [Accounts -> Requests \cup {NoRequest}]
    BY <1>1 DEF Rollback
  <2>2. reply' \in [Callers -> Responses] /\ inserted' \in [Requests -> BOOLEAN]
    BY <1>1 DEF Rollback
  <2> QED BY <1>1, <2>1, <2>2
<1>2. CASE RejectPost(r)
  BY <1>2 DEF RejectPost
<1>3. CASE RenderPost(r)
  BY <1>3 DEF RenderPost
<1>4. CASE GetCost(r)
  BY <1>4 DEF GetCost
<1>5. CASE CostFound(r)
  BY SMTT(60), <1>5 DEF CostFound
<1>6. CASE CostMissing(r)
  BY <1>1, <1>6 DEF CostMissing
<1>7. CASE AccountMissing(r)
  BY <1>1, <1>7 DEF AccountMissing
<1>8. CASE MappingEmpty(r)
  BY <1>1, <1>8 DEF MappingEmpty
<1>9. CASE Fail(r)
  BY <1>1, <1>9 DEF Fail
<1>10. CASE SelectBalance(r)
  <2>1. result' \in [Requests -> Responses]
    BY ZenonT(80), <1>10 DEF SelectBalance
  <2>2. last_topup_balance' \in [Requests -> Int]
    BY <1>10 DEF SelectBalance
  <2> QED BY <1>10, <2>1, <2>2 DEF SelectBalance
<1>11. CASE InsertTransaction(r)
  BY <1>11 DEF InsertTransaction
<1>12. CASE UpdateBalance(r)
  <2>1. row_lock' \in [Accounts -> Requests \cup {NoRequest}]
    BY <1>12 DEF UpdateBalance
  <2>2. new_balance' \in [Requests -> Int]
    <3>1. AccountOf[r] \in Accounts /\ balance[AccountOf[r]] - credit_amount[r] \in Int
      BY SMTT(60), <1>12 DEF UpdateBalance, KnownInv
    <3> QED BY <1>12, <3>1 DEF UpdateBalance
  <2> QED BY <1>12, <2>1, <2>2 DEF UpdateBalance
<1>13. CASE NotifyThreshold(r)
  BY ZenonT(80), <1>13 DEF NotifyThreshold
<1>14. CASE Commit(r)
  <2>1. row_lock' \in [Accounts -> Requests \cup {NoRequest}]
    BY ZenonT(80), <1>14 DEF Commit
  <2>2. balance' \in [Accounts -> Int]
    BY ZenonT(80), <1>14 DEF Commit
  <2>3. ledger' \in [Accounts -> Int]
    <3>1. pc[r] = "commit"
      BY <1>14 DEF Commit
    <3>2. AccountOf[r] \in Accounts
      BY <3>1 DEF KnownInv
    <3>3. ledger[AccountOf[r]] - credit_amount[r] \in Int
      BY SMTT(60), <3>2
    <3> QED BY <1>14, <3>3 DEF Commit
  <2>4. charged' \subseteq Requests /\ inserted' \in [Requests -> BOOLEAN]
    BY SMTT(60), <1>14 DEF Commit
  <2> QED BY <1>14, <2>1, <2>2, <2>3, <2>4 DEF Commit
<1>15. CASE RenderToJson(r)
  BY <1>15 DEF RenderToJson
<1> HIDE DEF TypeOK, local, pool, db, account, history, django
<1> QED BY <1>2, <1>3, <1>4, <1>5, <1>6, <1>7, <1>8, <1>9, <1>10, <1>11, <1>12,
           <1>13, <1>14, <1>15 DEF Charge

LEMMA LoadType ==
  ASSUME TypeOK, QueueInv, NEW t \in TopUps, Load(t)
  PROVE  TypeOK' /\ UNCHANGED <<pc, pool, local, reply, charged>>
<1> USE BillingApiAssumption DEF TypeOK, local, pool, db, account, history, django
<1>1. CASE LoadRead(t)
  BY SMTT(60), <1>1 DEF LoadRead
<1>2. CASE LoadPending(t)
  BY <1>2 DEF LoadPending
<1>3. CASE LoadSave(t)
  BY SMTT(30), <1>3 DEF LoadSave
<1>4. CASE LoadComplete(t)
  BY SMTT(60), <1>4 DEF LoadComplete
<1>5. CASE LoadAbort(t)
  BY <1>5 DEF LoadAbort
<1> HIDE DEF TypeOK, local, pool, db, account, history, django
<1> QED BY <1>1, <1>2, <1>3, <1>4, <1>5 DEF Load

LEMMA CrashType ==
  ASSUME TypeOK, QueueInv, Crash
  PROVE  TypeOK' /\ QueueInv'
<1>1. pc' \in [Callers -> Steps]
  BY DEF Crash, TypeOK, Steps, Final
<1>2. tokens' \in Nat /\ waiting' \in Seq(Callers) /\ Len(waiting') = 0
  BY BillingApiAssumption DEF Crash
<1>3. row_lock' \in [Accounts -> Requests \cup {NoRequest}]
  BY DEF Crash
<1>4. TypeOK'
  BY <1>1, <1>2, <1>3 DEF Crash, TypeOK, account, history, django
<1> QED BY <1>2, <1>4 DEF QueueInv

\* pc, the pool and the tables have the values the code can give them, whatever
\* the number of requests, connections and failures.
TypeInv == TypeOK /\ QueueInv /\ KnownInv

LEMMA TypeInit == Init => TypeInv
<1> SUFFICES ASSUME Init PROVE TypeInv
  OBVIOUS
<1>1. waiting \in Seq(Callers) /\ Len(waiting) = 0
  BY DEF Init
<1>2. obj \in [TopUps -> [credit_balance : Int, amount : Int]]
  BY DEF Init
<1>3. pc \in [Callers -> Steps] /\ \A r \in Requests : pc[r] = "idle"
  BY DEF Init, Steps, Callers
<1>4. TypeOK
  BY <1>1, <1>2, <1>3, BillingApiAssumption, ResponseFact DEF Init, TypeOK
<1> QED BY <1>1, <1>3, <1>4 DEF TypeInv, QueueInv, KnownInv

LEMMA TypeStep == TypeInv /\ [Next]_vars => TypeInv'
<1> SUFFICES ASSUME TypeInv, [Next]_vars PROVE TypeInv'
  OBVIOUS
<1> TypeOK /\ QueueInv /\ KnownInv
  BY DEF TypeInv
<1> Requests \subseteq Callers /\ Probes \subseteq Callers
  BY DEF Callers
<1>1. CASE \E r \in Requests : Charge(r)
  <2> PICK r \in Requests : Charge(r)
    BY <1>1
  <2>1. TypeOK' /\ Shift(r)
    BY ChargeType, ChargeShift
  <2>2. pc'[r] \in {"insert", "update", "notify", "commit"} => AccountOf[r] \in Accounts
    BY ZenonT(80), BillingApiAssumption
       DEF Charge, TypeOK, KnownInv, RejectPost, RenderPost, GetCost, CostFound,
           CostMissing, AccountMissing, MappingEmpty, Fail, Rollback, SelectBalance,
           InsertTransaction, UpdateBalance, NotifyThreshold, Commit, RenderToJson,
           Acquire, Release
  <2>3. pc'[r] \in {"select", "insert", "update", "notify", "commit"} =>
          credit_amount'[r] \in CreditCosts \ {NoCost}
    <3>1. CASE CostFound(r)
      BY <3>1 DEF CostFound, TypeOK
    <3>2. CASE RejectPost(r) \/ RenderPost(r) \/ GetCost(r)
      BY <3>2 DEF TypeOK, RejectPost, RenderPost, GetCost, Acquire
    <3>3. CASE CostMissing(r) \/ AccountMissing(r) \/ MappingEmpty(r) \/ Fail(r)
      BY <3>3 DEF CostMissing, AccountMissing, MappingEmpty, Fail, Rollback, Release
    <3>4. CASE SelectBalance(r) \/ InsertTransaction(r) \/ UpdateBalance(r)
               \/ NotifyThreshold(r)
      BY <3>4 DEF SelectBalance, InsertTransaction, UpdateBalance, NotifyThreshold,
         KnownInv
    <3>5. CASE Commit(r) \/ RenderToJson(r)
      BY <3>5 DEF TypeOK, Commit, RenderToJson, Release
    <3> QED BY <3>1, <3>2, <3>3, <3>4, <3>5 DEF Charge
  <2>4. \A d \in Requests \ {r} : credit_amount'[d] = credit_amount[d]
    BY DEF Charge, TypeOK, RejectPost, RenderPost, GetCost, CostFound,
           CostMissing, AccountMissing, MappingEmpty, Fail, SelectBalance,
           InsertTransaction, UpdateBalance, NotifyThreshold, Commit, RenderToJson,
           local
  <2>5. KnownInv'
    BY <2>1, <2>2, <2>3, <2>4 DEF Shift, KnownInv, Queued
  <2> QED BY <2>1, <2>5 DEF Shift, TypeInv
<1>2. CASE \E p \in Probes : Health(p)
  <2> PICK p \in Probes : Health(p)
    BY <1>2
  <2>1. Shift(p) /\ UNCHANGED <<local, db, django, crashes>>
    BY HealthShift
  <2>2. reply' \in [Callers -> Responses]
    <3>1. CASE HealthCheck(p)
      BY <3>1 DEF TypeOK, HealthCheck
    <3>2. CASE Pong(p)
      <4> PICK code \in {200, 503} : reply' = [reply EXCEPT ![p] = Code(code)]
        BY <3>2 DEF Pong
      <4> QED BY ResponseFact DEF TypeOK
    <3> QED BY <3>1, <3>2 DEF Health
  <2>3. TypeOK'
    BY <2>1, <2>2 DEF Shift, TypeOK, local, db, account, history, django
  <2>4. KnownInv'
    BY <2>1, BillingApiAssumption DEF Shift, KnownInv, Queued, local
  <2> QED BY <2>1, <2>3, <2>4 DEF Shift, TypeInv
<1>3. CASE \E t \in TopUps : Load(t)
  <2> PICK t \in TopUps : Load(t)
    BY <1>3
  <2> QED BY LoadType DEF TypeInv, QueueInv, KnownInv, pool, local
<1>4. CASE Crash
  <2>1. TypeOK' /\ QueueInv'
    BY <1>4, CrashType
  <2>2. KnownInv'
    BY <1>4 DEF Crash, KnownInv, TypeOK, Final
  <2> QED BY <2>1, <2>2 DEF TypeInv
<1>5. CASE UNCHANGED vars
  BY <1>5 DEF TypeInv, TypeOK, QueueInv, KnownInv, vars, pool, local, db, account,
              history, django
<1> QED BY <1>1, <1>2, <1>3, <1>4, <1>5 DEF Next, Done

(* However requests, answers, loads and crashes interleave, each variable *)
(* has its type.                                                           *)
THEOREM TypeCorrect == Spec => []TypeOK
<1>1. TypeInv => TypeOK
  BY DEF TypeInv
<1> QED BY <1>1, TypeInit, TypeStep, PTL DEF Spec

-----------------------------------------------------------------------------
(* The books: LedgerBalanced and AnswerAgreesWithTable *)

BooksInv == LockInv /\ TableInv /\ LedgerBalanced /\ AnswerAgreesWithTable

\* What the invariant says of one request.
RequestInv(r) == RowOf(r) /\ TableOf(r) /\ AnswerOf(r)

LEMMA BooksParts ==
  BooksInv <=> /\ \A r \in Requests : RequestInv(r)
               /\ \A a \in Accounts : HolderOf(a)
               /\ LedgerBalanced
BY DEF BooksInv, LockInv, TableInv, AnswerAgreesWithTable, RequestInv

\* A step of the request r (or of nobody, when r is no request) that changes no
\* lock but r's: what the invariant says of the other requests, and of the locks
\* they hold, stays true.
Apart(r) ==
  /\ \A d \in Requests \ {r} :
       /\ \/ pc'[d] = pc[d]
          \/ pc[d] \in Queued /\ pc'[d] \in {"get_cost", "cost_query", "ping"}
       /\ reply'[d] = reply[d] /\ inserted'[d] = inserted[d]
       /\ result'[d] = result[d] /\ new_balance'[d] = new_balance[d]
       /\ credit_amount'[d] = credit_amount[d]
       /\ d \in charged' <=> d \in charged
  /\ \A a \in Accounts : row_lock[a] \in Requests \ {r} =>
       row_lock'[a] = row_lock[a] /\ balance'[a] = balance[a]

LEMMA OthersFact ==
  ASSUME TypeInv, BooksInv, NEW r, Apart(r)
  PROVE  /\ \A d \in Requests \ {r} : RequestInv(d)'
         /\ \A a \in Accounts : row_lock[a] \in Requests \ {r} => HolderOf(a)'
<1>1. ASSUME NEW d \in Requests \ {r}
      PROVE  RequestInv(d)'
  <2>1. RowOf(d) /\ TableOf(d) /\ AnswerOf(d)
    BY BooksParts DEF RequestInv
  <2>2. \/ pc'[d] = pc[d]
        \/ pc[d] \in Queued /\ pc'[d] \in {"get_cost", "cost_query", "ping"}
    BY DEF Apart
  <2>3. RowOf(d)'
    <3>1. inserted[d] => pc[d] \in {"update", "notify", "commit"}
      BY <2>1 DEF RowOf
    <3>2. inserted[d] => AccountOf[d] \in Accounts /\ pc'[d] = pc[d]
      BY <2>2, <3>1 DEF TypeInv, KnownInv, Queued
    <3> QED BY <2>1, <2>2, <3>2 DEF RowOf, Apart, Queued
  <2>4. TableOf(d)'
    BY <2>1, <2>2 DEF TableOf, Apart, Queued, Final
  <2>5. AnswerOf(d)'
    BY <2>1 DEF AnswerOf, Apart
  <2> QED BY <2>3, <2>4, <2>5 DEF RequestInv
<1>2. ASSUME NEW a \in Accounts, row_lock[a] \in Requests \ {r}
      PROVE  HolderOf(a)'
  <2>1. HolderOf(a) /\ row_lock[a] # NoRequest
    BY <1>2, BooksParts, BillingApiAssumption
  <2> QED BY <1>2, <2>1 DEF HolderOf, Apart, Queued
<1> QED BY <1>1, <1>2

\* An interaction rolled back leaves no row and no lock behind.
LEMMA RollbackFact ==
  ASSUME TypeInv, BooksInv, NEW r \in Requests, Shift(r), pc'[r] = "answered",
         pc[r] \in InTransaction \ {"queued_cost"}, Rollback(r),
         UNCHANGED <<credit_amount, new_balance, result, account, history>>
  PROVE  BooksInv'
<1> USE DEF account, history
<1>1. /\ \A d \in Requests \ {r} : reply'[d] = reply[d] /\ inserted'[d] = inserted[d]
      /\ reply'[r] = Code(500) /\ inserted'[r] = FALSE
      /\ \A a \in Accounts : row_lock'[a] = IF row_lock[a] = r THEN NoRequest
                                                            ELSE row_lock[a]
  BY DEF Rollback, TypeInv, TypeOK, Callers
<1>2. Apart(r)
  BY <1>1 DEF Apart, Shift, Callers
<1>3. RequestInv(r)'
  <2>1. r \notin charged
    BY BooksParts DEF RequestInv, TableOf, InTransaction, Final
  <2>2. Code(500).code = 500 /\ Code(500).transaction = FALSE
    BY DEF Code, NoReply
  <2> QED BY <1>1, <2>1, <2>2 DEF RequestInv, RowOf, TableOf, AnswerOf
<1>4. ASSUME NEW a \in Accounts
      PROVE  HolderOf(a)'
  <2>1. row_lock[a] \in {r, NoRequest} => row_lock'[a] = NoRequest
    BY <1>1
  <2>2. row_lock[a] \in {r, NoRequest} \/ row_lock[a] \in Requests \ {r}
    BY DEF TypeInv, TypeOK
  <2> QED BY <1>2, <2>1, <2>2, OthersFact DEF HolderOf
<1>5. LedgerBalanced'
  BY BooksParts DEF LedgerBalanced
<1> QED BY <1>2, <1>3, <1>4, <1>5, OthersFact, BooksParts DEF BooksInv, LockInv, TableInv,
           AnswerAgreesWithTable, RequestInv

\* A step of r that changes no lock, no balance and no history.
LEMMA PrivateFact ==
  ASSUME TypeInv, BooksInv, NEW r \in Requests, Apart(r), RequestInv(r)', UNCHANGED db,
         inserted[r] /\ pc[r] # "update" =>
           inserted'[r] /\ pc'[r] \in {"notify", "commit"}
  PROVE  BooksInv'
<1> USE DEF db, account, history
<1>1. ASSUME NEW a \in Accounts
      PROVE  HolderOf(a)'
  <2>1. CASE row_lock[a] = r
    BY <2>1, BooksParts, BillingApiAssumption DEF HolderOf
  <2>2. CASE row_lock[a] = NoRequest
    BY <2>2 DEF HolderOf
  <2>3. CASE row_lock[a] \in Requests \ {r}
    BY <2>3, OthersFact
  <2> QED BY <2>1, <2>2, <2>3 DEF TypeInv, TypeOK
<1>2. LedgerBalanced'
  BY BooksParts DEF LedgerBalanced
<1> QED BY <1>1, <1>2, OthersFact DEF BooksInv, LockInv, TableInv,
           AnswerAgreesWithTable, RequestInv

LEMMA ChargeBooks ==
  ASSUME TypeInv, TypeInv', BooksInv, NEW r \in Requests, Charge(r)
  PROVE  BooksInv'
<1>1. Shift(r) /\ r \in Callers /\ TypeOK /\ KnownInv /\ TypeOK'
  BY ChargeShift DEF Callers, TypeInv
<1>2. RowOf(r) /\ TableOf(r) /\ AnswerOf(r)
  BY BooksParts DEF RequestInv
<1>3. CASE RejectPost(r)
  <2>1. /\ pc[r] = "idle" /\ pc'[r] = "answered"
        /\ reply'[r] = Code(400) /\ \A d \in Requests \ {r} : reply'[d] = reply[d]
        /\ UNCHANGED <<local, db>>
    BY <1>1, <1>3 DEF RejectPost, TypeOK, Callers
  <2>2. Code(400).code = 400 /\ Code(400).transaction = FALSE
    BY DEF Code, NoReply
  <2>3. Apart(r)
    BY <1>1, <2>1 DEF Apart, Shift, Callers, local, db, account, history
  <2>4. RequestInv(r)'
    BY <1>2, <2>1, <2>2 DEF RequestInv, RowOf, TableOf, AnswerOf, local, db, account,
       history, Final
  <2> QED BY <1>2, <2>1, <2>3, <2>4, PrivateFact DEF RowOf
<1>4. CASE RenderPost(r) \/ GetCost(r)
  <2>1. /\ pc[r] \in {"idle", "get_cost"}
        /\ pc'[r] \in {"get_cost", "queued", "cost_query", "queued_cost"}
        /\ UNCHANGED <<local, reply, db>>
    BY <1>1, <1>4 DEF RenderPost, GetCost, Acquire, TypeOK
  <2>2. Apart(r)
    BY <1>1, <2>1 DEF Apart, Shift, Callers, local, db, account, history
  <2>3. RequestInv(r)'
    BY <1>2, <2>1 DEF RequestInv, RowOf, TableOf, AnswerOf, local, db, account,
       history, Final
  <2> QED BY <1>2, <2>1, <2>2, <2>3, PrivateFact DEF RowOf
<1>5. CASE CostFound(r)
  <2>1. /\ pc[r] = "cost_query" /\ pc'[r] = "select"
        /\ \A d \in Requests \ {r} : credit_amount'[d] = credit_amount[d]
        /\ UNCHANGED <<new_balance, inserted, result, reply, db>>
    BY <1>1, <1>5 DEF CostFound, Release, TypeOK
  <2>2. Apart(r)
    BY <1>1, <2>1 DEF Apart, Shift, Callers, db, account, history
  <2>3. RequestInv(r)'
    BY <1>2, <2>1 DEF RequestInv, RowOf, TableOf, AnswerOf, db, account, history, Final
  <2> QED BY <1>2, <2>1, <2>2, <2>3, PrivateFact DEF RowOf
<1>6. CASE CostMissing(r) \/ AccountMissing(r) \/ MappingEmpty(r) \/ Fail(r)
  <2>1. /\ Rollback(r) /\ pc[r] \in InTransaction \ {"queued_cost"}
        /\ UNCHANGED <<credit_amount, new_balance, result, account, history>>
    BY <1>6 DEF CostMissing, AccountMissing, MappingEmpty, Fail, InTransaction
  <2>2. pc'[r] = "answered"
    BY <1>1, <2>1 DEF Rollback, Release
  <2> QED BY <1>1, <2>1, <2>2, RollbackFact
<1>7. CASE SelectBalance(r)
  <2>1. /\ pc[r] = "select"
        /\ \/ pc'[r] = "commit" /\ result'[r] = Ok(FALSE, TRUE)
           \/ pc'[r] = "insert"
        /\ \A d \in Requests \ {r} : result'[d] = result[d]
        /\ UNCHANGED <<credit_amount, new_balance, inserted, reply, db>>
    BY <1>1, <1>7 DEF SelectBalance, TypeOK
  <2>2. Ok(FALSE, TRUE).code = 200 /\ Ok(FALSE, TRUE).transaction = FALSE
    BY DEF Ok
  <2>3. Apart(r)
    BY <1>1, <2>1 DEF Apart, Shift, Callers, db, account, history
  <2>4. RequestInv(r)'
    BY <1>2, <2>1, <2>2 DEF RequestInv, RowOf, TableOf, AnswerOf, db, account, history, Final
  <2> QED BY <1>2, <2>1, <2>3, <2>4, PrivateFact DEF RowOf
<1>8. CASE InsertTransaction(r)
  <2>1. /\ pc[r] = "insert" /\ pc'[r] = "update" /\ inserted'[r] = TRUE
        /\ \A d \in Requests \ {r} : inserted'[d] = inserted[d]
        /\ UNCHANGED <<credit_amount, new_balance, result, reply, db>>
    BY <1>1, <1>8 DEF InsertTransaction, TypeOK
  <2>2. Apart(r)
    BY <1>1, <2>1 DEF Apart, Shift, Callers, db, account, history
  <2>3. RequestInv(r)'
    BY <1>2, <2>1 DEF RequestInv, RowOf, TableOf, AnswerOf, db, account, history, Final
  <2> QED BY <1>2, <2>1, <2>2, <2>3, PrivateFact DEF RowOf
<1>9. CASE UpdateBalance(r)
  <2> DEFINE a == AccountOf[r]
  <2>1. /\ pc[r] = "update" /\ pc'[r] = "notify" /\ row_lock[a] = NoRequest
        /\ \A d \in Requests \ {r} : new_balance'[d] = new_balance[d]
        /\ new_balance'[r] = balance[a] - credit_amount[r]
        /\ row_lock' = [row_lock EXCEPT ![a] = r]
        /\ UNCHANGED <<credit_amount, inserted, result, reply, account, history>>
    BY <1>1, <1>9 DEF UpdateBalance, LockFree, TypeOK
  <2>2. a \in Accounts
    BY <1>1, <2>1 DEF KnownInv
  <2>3. Apart(r)
    BY <1>1, <2>1, <2>2, BillingApiAssumption
       DEF Apart, Shift, Callers, account, history, TypeOK
  <2>4. inserted[r] /\ row_lock'[a] = r
    BY <1>1, <1>2, <2>1, <2>2 DEF RowOf, TypeOK
  <2>5. RequestInv(r)'
    BY <1>2, <2>1, <2>4 DEF RequestInv, RowOf, TableOf, AnswerOf, account, history, Final
  <2>6. ASSUME NEW b \in Accounts
        PROVE  HolderOf(b)'
    <3>1. CASE b = a
      BY <2>1, <2>4, <3>1 DEF HolderOf
    <3>2. CASE b # a /\ row_lock[b] \in Requests \ {r}
      BY <2>3, <3>2, OthersFact
    <3>3. CASE b # a /\ row_lock[b] = NoRequest
      BY <1>1, <2>1, <3>3 DEF HolderOf, TypeOK
    <3>4. row_lock[b] # r
      <4>1. HolderOf(b) /\ r # NoRequest
        BY BooksParts, BillingApiAssumption
      <4>2. pc[r] \notin {"notify", "commit"}
        BY <2>1
      <4> QED BY <4>1, <4>2 DEF HolderOf
    <3> QED BY <1>1, <3>1, <3>2, <3>3, <3>4 DEF TypeOK
  <2>7. LedgerBalanced'
    BY <2>1, BooksParts DEF LedgerBalanced, account, history
  <2> QED BY <2>3, <2>5, <2>6, <2>7, OthersFact DEF BooksInv, LockInv, TableInv,
             AnswerAgreesWithTable, RequestInv
<1>10. CASE NotifyThreshold(r)
  <2>1. /\ pc[r] = "notify" /\ pc'[r] = "commit"
        /\ \E cutoff : result'[r] = Ok(TRUE, cutoff)
        /\ \A d \in Requests \ {r} : result'[d] = result[d]
        /\ UNCHANGED <<credit_amount, new_balance, inserted, reply, db>>
    BY <1>1, <1>10 DEF NotifyThreshold, TypeOK
  <2>2. result'[r].code = 200 /\ result'[r].transaction = TRUE
    BY <2>1 DEF Ok
  <2>3. Apart(r)
    BY <1>1, <2>1 DEF Apart, Shift, Callers, db, account, history
  <2>4. RequestInv(r)'
    BY <1>2, <2>1, <2>2 DEF RequestInv, RowOf, TableOf, AnswerOf, db, account, history, Final
  <2> QED BY <1>2, <2>1, <2>3, <2>4, PrivateFact DEF RowOf
<1>11. CASE Commit(r)
  <2> DEFINE a == AccountOf[r]
  <2>1. /\ pc[r] = "commit" /\ pc'[r] = "render" /\ inserted'[r] = FALSE
        /\ \A d \in Requests \ {r} : inserted'[d] = inserted[d]
        /\ UNCHANGED <<credit_amount, new_balance, result, reply, unfinished, stale_save>>
    BY <1>1, <1>11 DEF Commit, Release, TypeOK
  <2>2. a \in Accounts
    BY <1>1, <2>1 DEF KnownInv
  <2>3. inserted[r] <=> row_lock[a] = r
    BY SMTT(60), <1>2, <2>1, <2>2, BooksParts, BillingApiAssumption DEF RowOf, HolderOf, TypeInv, TypeOK
  <2>4. CASE inserted[r]
    <3>1. /\ balance' = [balance EXCEPT ![a] = new_balance[r]]
          /\ ledger' = [ledger EXCEPT ![a] = @ - credit_amount[r]]
          /\ charged' = charged \cup {r}
          /\ row_lock' = [row_lock EXCEPT ![a] = NoRequest]
      BY <1>11, <2>3, <2>4 DEF Commit
    <3>2. new_balance[r] = balance[a] - credit_amount[r]
      BY <1>2, <2>1, <2>4 DEF RowOf
    <3>3. Apart(r)
      BY <1>1, <2>1, <2>3, <2>4, <3>1 DEF Apart, Shift, Callers, TypeOK
    <3>4. RequestInv(r)'
      BY <1>2, <2>1, <2>4, <3>1 DEF RequestInv, RowOf, TableOf, AnswerOf, Final
    <3>5. ASSUME NEW b \in Accounts
          PROVE  HolderOf(b)'
      <4>1. CASE b = a
        BY <1>1, <3>1, <4>1 DEF HolderOf, TypeOK
      <4>2. CASE b # a /\ row_lock[b] \in Requests \ {r}
        BY <3>3, <4>2, OthersFact
      <4>3. CASE b # a /\ row_lock[b] = NoRequest
        BY <1>1, <3>1, <4>3 DEF HolderOf, TypeOK
      <4>4. row_lock[b] = r => b = a
        <5>1. HolderOf(b)
          BY <2>1, BooksParts
        <5> QED BY <5>1, BillingApiAssumption DEF HolderOf
      <4> QED BY <1>1, <4>1, <4>2, <4>3, <4>4 DEF TypeOK
    <3>6. LedgerBalanced'
      <4> SUFFICES ASSUME NEW b \in Accounts, ~stale_save'[b]
                   PROVE  balance'[b] = OpeningBalance[b] + ledger'[b] + unfinished'[b]
        BY DEF LedgerBalanced
      <4>1. balance[b] = OpeningBalance[b] + ledger[b] + unfinished[b]
        BY <2>1, BooksParts DEF LedgerBalanced
      <4>2. /\ balance[b] \in Int /\ ledger[b] \in Int /\ unfinished[b] \in Int
            /\ OpeningBalance[b] \in Int /\ credit_amount[r] \in Int
        BY <1>1, BillingApiAssumption DEF TypeOK
      <4>3. CASE b = a
        <5>1. balance'[b] = balance[b] - credit_amount[r]
              /\ ledger'[b] = ledger[b] - credit_amount[r]
              /\ unfinished'[b] = unfinished[b]
          BY <1>1, <2>1, <3>1, <3>2, <4>3 DEF TypeOK
        <5> QED BY <4>1, <4>2, <5>1
      <4>4. CASE b # a
        BY <1>1, <2>1, <3>1, <4>1, <4>4 DEF TypeOK
      <4> QED BY <4>3, <4>4
    <3> QED BY <3>3, <3>4, <3>5, <3>6, OthersFact DEF BooksInv, LockInv, TableInv,
               AnswerAgreesWithTable, RequestInv
  <2>5. CASE ~inserted[r]
    <3>1. UNCHANGED db
      BY <1>11, <2>3, <2>5 DEF Commit, db, account, history
    <3>2. Apart(r)
      BY <1>1, <2>1, <3>1 DEF Apart, Shift, Callers, db, account, history
    <3>3. RequestInv(r)'
      BY <1>1, <1>2, <2>1, <2>5, <3>1 DEF RequestInv, RowOf, TableOf, AnswerOf, db, account,
         history, Final, TypeOK
    <3> QED BY <2>5, <3>1, <3>2, <3>3, PrivateFact
  <2> QED BY <2>4, <2>5
<1>12. CASE RenderToJson(r)
  <2>1. /\ pc[r] = "render" /\ pc'[r] = "answered" /\ reply'[r] = result[r]
        /\ \A d \in Requests \ {r} : reply'[d] = reply[d]
        /\ UNCHANGED <<local, db>>
    BY <1>1, <1>12 DEF RenderToJson, TypeOK, Callers
  <2>2. Apart(r)
    BY <1>1, <2>1 DEF Apart, Shift, Callers, local, db, account, history
  <2>3. RequestInv(r)'
    BY <1>2, <2>1 DEF RequestInv, RowOf, TableOf, AnswerOf, local, db, account, history, Final
  <2> QED BY <1>2, <2>1, <2>2, <2>3, PrivateFact DEF RowOf
<1> QED BY <1>3, <1>4, <1>5, <1>6, <1>7, <1>8, <1>9, <1>10, <1>11, <1>12 DEF Charge

\* Loading credits disturbs no request: it waits for the row lock, and the books
\* balance unless the object it saves has gone stale.
LEMMA LoadBooks ==
  ASSUME TypeInv, TypeInv', BooksInv, NEW t \in TopUps, Load(t)
  PROVE  BooksInv'
<1> DEFINE a == TopUpAccount[t]
<1>1. TypeOK /\ TypeOK' /\ UNCHANGED <<pc, pool, local, reply, charged>> /\ a \in Accounts
  BY LoadType, BillingApiAssumption DEF TypeInv
<1>2. UNCHANGED row_lock /\ \A b \in Accounts : row_lock[b] # NoRequest => balance'[b] = balance[b]
  BY <1>1 DEF Load, LoadRead, LoadPending, LoadSave, LoadComplete, LoadAbort, LockFree,
     TypeOK, db, account
<1>3. Apart(NoRequest)
  BY <1>1, <1>2, BillingApiAssumption DEF Apart, local
<1>4. \A r \in Requests : RequestInv(r)'
  BY <1>3, OthersFact, BillingApiAssumption
<1>5. ASSUME NEW b \in Accounts
      PROVE  HolderOf(b)'
  <2>1. CASE row_lock[b] = NoRequest
    BY <1>2, <2>1 DEF HolderOf
  <2>2. CASE row_lock[b] \in Requests
    BY <1>3, <2>2, OthersFact, BillingApiAssumption
  <2> QED BY <1>1, <2>1, <2>2 DEF TypeOK
<1>6. LedgerBalanced'
  <2> SUFFICES ASSUME NEW b \in Accounts, ~stale_save'[b]
               PROVE  balance'[b] = OpeningBalance[b] + ledger'[b] + unfinished'[b]
    BY DEF LedgerBalanced
  <2>1. /\ balance[b] \in Int /\ ledger[b] \in Int /\ unfinished[b] \in Int
        /\ OpeningBalance[b] \in Int /\ stale_save[b] \in BOOLEAN
        /\ obj[t].amount \in Int /\ obj[t].credit_balance \in Int
    BY <1>1, BillingApiAssumption DEF TypeOK
  <2>2. CASE LoadSave(t)
    <3>1. /\ balance'[b] = IF b = a THEN obj[t].credit_balance + obj[t].amount ELSE balance[b]
          /\ unfinished'[b] = IF b = a THEN unfinished[b] + obj[t].amount ELSE unfinished[b]
          /\ ledger'[b] = ledger[b]
          /\ stale_save'[b] = IF b = a THEN stale_save[b] \/ balance[b] # obj[t].credit_balance
                              ELSE stale_save[b]
      BY SMTT(60), <1>1, <2>2 DEF LoadSave, TypeOK
    <3>2. ~stale_save[b] /\ (b = a => balance[b] = obj[t].credit_balance)
      BY <2>1, <3>1
    <3>3. balance[b] = OpeningBalance[b] + ledger[b] + unfinished[b]
      BY <3>2, BooksParts DEF LedgerBalanced
    <3> QED BY <2>1, <3>1, <3>2, <3>3
  <2>3. CASE LoadComplete(t)
    <3>1. /\ balance'[b] = balance[b] /\ stale_save'[b] = stale_save[b]
          /\ ledger'[b] = IF b = a THEN ledger[b] + obj[t].amount ELSE ledger[b]
          /\ unfinished'[b] = IF b = a THEN unfinished[b] - obj[t].amount ELSE unfinished[b]
      BY <1>1, <2>3 DEF LoadComplete, TypeOK, account
    <3>2. balance[b] = OpeningBalance[b] + ledger[b] + unfinished[b]
      BY <3>1, BooksParts DEF LedgerBalanced
    <3> QED BY <2>1, <3>1, <3>2
  <2>4. CASE LoadRead(t) \/ LoadPending(t) \/ LoadAbort(t)
    BY <2>4, BooksParts DEF LoadRead, LoadPending, LoadAbort, LedgerBalanced, db, account,
       history
  <2> QED BY <2>2, <2>3, <2>4 DEF Load
<1> QED BY <1>4, <1>5, <1>6, BooksParts DEF BooksInv, LockInv, TableInv,
           AnswerAgreesWithTable, RequestInv

LEMMA HealthBooks ==
  ASSUME TypeInv, TypeInv', BooksInv, NEW p \in Probes, Health(p)
  PROVE  BooksInv'
<1>1. Shift(p) /\ UNCHANGED <<local, db>> /\ p \notin Requests /\ TypeOK
  BY HealthShift, BillingApiAssumption DEF TypeInv
<1>2. \A d \in Requests : reply'[d] = reply[d]
  BY <1>1 DEF Health, HealthCheck, Pong, TypeOK, Callers
<1>3. Apart(p)
  BY <1>1, <1>2 DEF Apart, Shift, Callers, local, db, account, history
<1>4. \A r \in Requests : RequestInv(r)'
  BY <1>1, <1>3, OthersFact
<1>5. ASSUME NEW a \in Accounts
      PROVE  HolderOf(a)'
  <2>1. CASE row_lock[a] = NoRequest
    BY <1>1, <2>1 DEF HolderOf, db
  <2>2. CASE row_lock[a] \in Requests
    BY <1>1, <1>3, <2>2, OthersFact
  <2> QED BY <1>1, <2>1, <2>2 DEF TypeOK
<1>6. LedgerBalanced'
  BY <1>1, BooksParts DEF LedgerBalanced, db, account, history
<1> QED BY <1>4, <1>5, <1>6 DEF BooksInv, LockInv, TableInv,
           AnswerAgreesWithTable, RequestInv

\* A crash drops every uncommitted row and every lock.
LEMMA CrashBooks ==
  ASSUME TypeInv, BooksInv, Crash
  PROVE  BooksInv'
<1>1. TypeOK /\ UNCHANGED <<reply, account, history, result, credit_amount, new_balance>>
  BY DEF Crash, TypeInv
<1>2. ASSUME NEW r \in Requests
      PROVE  RequestInv(r)'
  <2>1. /\ inserted'[r] = FALSE
        /\ pc'[r] = IF pc[r] \in Final \cup {"idle"} THEN pc[r] ELSE "lost"
    BY DEF Crash, Callers
  <2>2. RequestInv(r)
    BY BooksParts
  <2> QED BY <1>1, <2>1, <2>2 DEF RequestInv, RowOf, TableOf, AnswerOf, Final, history
<1>3. \A a \in Accounts : HolderOf(a)'
  BY DEF Crash, HolderOf
<1>4. LedgerBalanced'
  BY <1>1, BooksParts DEF LedgerBalanced, account, history
<1> QED BY <1>2, <1>3, <1>4 DEF BooksInv, LockInv, TableInv,
           AnswerAgreesWithTable, RequestInv

LEMMA BooksInit == Init => BooksInv
<1> SUFFICES ASSUME Init PROVE BooksInv
  OBVIOUS
<1>1. LedgerBalanced
  BY BillingApiAssumption DEF Init, LedgerBalanced
<1>2. \A r \in Requests : pc[r] = "idle" /\ ~inserted[r] /\ reply[r] = NoReply
                         /\ r \notin charged
  BY DEF Init, Callers
<1>3. \A a \in Accounts : HolderOf(a)
  BY DEF Init, HolderOf
<1> QED BY <1>1, <1>2, <1>3 DEF BooksInv, LockInv, RowOf, TableInv, TableOf,
           AnswerAgreesWithTable, AnswerOf, NoReply

LEMMA BooksStep == TypeInv /\ TypeInv' /\ BooksInv /\ [Next]_vars => BooksInv'
<1> SUFFICES ASSUME TypeInv, TypeInv', BooksInv, [Next]_vars PROVE BooksInv'
  OBVIOUS
<1>1. CASE UNCHANGED vars
  BY <1>1 DEF BooksInv, LockInv, RowOf, HolderOf, TableInv, TableOf, LedgerBalanced,
     AnswerAgreesWithTable, AnswerOf, vars, local, db, account, history
<1> QED BY <1>1, ChargeBooks, HealthBooks, LoadBooks, CrashBooks DEF Next, Done

\* The inductive invariant.
THEOREM Inductive == Spec => []IInv
<1>1. TypeInv /\ BooksInv => IInv
  BY DEF IInv, TypeInv, BooksInv
<1> QED BY <1>1, TypeInit, TypeStep, BooksInit, BooksStep, PTL DEF Spec

\* Whatever the interleaving of charges, top-ups, failures and crashes, for every
\* pool size: the books of an account balance unless a top-up saved a stale object.
THEOREM BooksBalanceUnlessStale == Spec => []LedgerBalanced
<1>1. IInv => LedgerBalanced
  BY DEF IInv
<1> QED BY <1>1, Inductive, PTL

\* An answer is true of the transaction table from the moment it is given.
THEOREM AnswersAreTrue == Spec => []AnswerAgreesWithTable
<1>1. IInv => AnswerAgreesWithTable
  BY DEF IInv
<1> QED BY <1>1, Inductive, PTL

-----------------------------------------------------------------------------
(* Refinement: the API over Postgres implements the Ledger *)

LedgerVars == <<balance, ledger, unfinished, stale_save, charged, Told>>

\* r gets its answer, everything else the Ledger sees stays.
LEMMA AnswerFact ==
  ASSUME TypeInv, NEW r \in Requests, UNCHANGED <<balance, history>>,
         \A d \in Requests \ {r} : reply'[d] = reply[d],
         reply[r].code = 0, reply'[r].code # 0,
         reply'[r].transaction <=> r \in charged
  PROVE  Promise!Answer(r)
<1>1. Told[r] = "nothing"
  BY DEF Told
<1>2. Told'[r] = IF r \in charged THEN "charged" ELSE "not charged"
  <2>1. CASE r \in charged
    BY <2>1 DEF Told
  <2>2. CASE r \notin charged
    BY <2>2 DEF Told
  <2> QED BY <2>1, <2>2
<1>3. \A d \in Requests \ {r} : Told'[d] = Told[d]
  BY DEF Told
<1>4. Told' = [Told EXCEPT ![r] = Told'[r]]
  BY <1>3 DEF Told
<1> QED BY <1>1, <1>2, <1>4 DEF Promise!Answer, history

LEMMA ChargeRefines ==
  ASSUME TypeInv, BooksInv, NEW r \in Requests, Charge(r)
  PROVE  Promise!Charge(r) \/ Promise!Answer(r) \/ UNCHANGED LedgerVars
<1>1. RowOf(r) /\ TableOf(r) /\ AnswerOf(r) /\ TypeOK /\ r \in Callers
  BY BooksParts DEF RequestInv, TypeInv, Callers
<1>2. CASE RejectPost(r)
  <2>1. /\ reply'[r] = Code(400) /\ \A d \in Requests \ {r} : reply'[d] = reply[d]
        /\ pc[r] = "idle" /\ UNCHANGED db
    BY <1>1, <1>2 DEF RejectPost, TypeOK, Callers
  <2>2. Code(400).code = 400 /\ Code(400).transaction = FALSE
    BY DEF Code, NoReply
  <2>3. reply[r].code = 0 /\ r \notin charged
    BY <1>1, <2>1 DEF TableOf, Final
  <2> QED BY <2>1, <2>2, <2>3, AnswerFact DEF db, account
<1>3. CASE CostMissing(r) \/ AccountMissing(r) \/ MappingEmpty(r) \/ Fail(r)
  <2>1. /\ Rollback(r) /\ pc[r] \in InTransaction \ {"queued_cost"}
        /\ UNCHANGED <<account, history>>
    BY <1>3 DEF CostMissing, AccountMissing, MappingEmpty, Fail, InTransaction
  <2>2. reply'[r] = Code(500) /\ \A d \in Requests \ {r} : reply'[d] = reply[d]
    BY <1>1, <2>1 DEF Rollback, TypeOK, Callers
  <2>3. Code(500).code = 500 /\ Code(500).transaction = FALSE
    BY DEF Code, NoReply
  <2>4. reply[r].code = 0 /\ r \notin charged
    BY <1>1, <2>1 DEF TableOf, InTransaction, Final
  <2> QED BY <2>1, <2>2, <2>3, <2>4, AnswerFact DEF account
<1>4. CASE RenderToJson(r)
  <2>1. /\ reply'[r] = result[r] /\ \A d \in Requests \ {r} : reply'[d] = reply[d]
        /\ pc[r] = "render" /\ UNCHANGED db
    BY <1>1, <1>4 DEF RenderToJson, TypeOK, Callers
  <2>2. reply[r].code = 0 /\ result[r].code = 200 /\ (result[r].transaction <=> r \in charged)
    BY <1>1, <2>1 DEF TableOf
  <2> QED BY <2>1, <2>2, AnswerFact DEF db, account
<1>5. CASE Commit(r) /\ inserted[r]
  <2> DEFINE a == AccountOf[r]
  <2>1. pc[r] = "commit" /\ a \in Accounts
    BY <1>5 DEF Commit, TypeInv, KnownInv
  <2>2. row_lock[a] = r /\ new_balance[r] = balance[a] - credit_amount[r]
    BY <1>1, <1>5, <2>1 DEF RowOf
  <2>3. /\ balance' = [balance EXCEPT ![a] = @ - credit_amount[r]]
        /\ ledger' = [ledger EXCEPT ![a] = @ - credit_amount[r]]
        /\ charged' = charged \cup {r}
        /\ UNCHANGED <<unfinished, stale_save, reply>>
    BY <1>5, <2>2 DEF Commit
  <2>4. r \notin charged /\ Told[r] = "nothing" /\ UNCHANGED Told
    BY <1>1, <2>1, <2>3 DEF TableOf, Final, Told
  <2>5. credit_amount[r] \in CreditCosts \ {NoCost}
    BY <2>1 DEF TypeInv, KnownInv
  <2> QED BY <2>1, <2>3, <2>4, <2>5 DEF Promise!Charge
<1>6. CASE Commit(r) /\ ~inserted[r]
  <2>1. row_lock[AccountOf[r]] # r
    BY <1>1, <1>6, BooksParts, BillingApiAssumption
       DEF Commit, TypeInv, KnownInv, HolderOf
  <2> QED BY <1>6, <2>1 DEF Commit, LedgerVars, Told
<1>7. CASE RenderPost(r) \/ GetCost(r) \/ CostFound(r) \/ SelectBalance(r)
           \/ InsertTransaction(r) \/ UpdateBalance(r) \/ NotifyThreshold(r)
  BY <1>7 DEF RenderPost, GetCost, CostFound, SelectBalance, InsertTransaction,
     UpdateBalance, NotifyThreshold, LedgerVars, Told, db, account, history
<1>8. Commit(r) => inserted[r] \/ ~inserted[r]
  OBVIOUS
<1> QED BY <1>2, <1>3, <1>4, <1>5, <1>6, <1>7, <1>8 DEF Charge

LEMMA LoadRefines ==
  ASSUME TypeInv, NEW t \in TopUps, Load(t)
  PROVE  \E a \in Accounts : \/ Promise!LoadCredits(a) \/ Promise!CompleteLoad(a)
                             \/ Promise!Overwrite(a) \/ UNCHANGED LedgerVars
<1> DEFINE a == TopUpAccount[t]
<1>1. a \in Accounts /\ TypeOK /\ UNCHANGED <<reply, charged, Told>>
  BY LoadType, BillingApiAssumption DEF TypeInv, Told
<1>2. CASE LoadSave(t)
  <2> DEFINE loaded == obj[t].credit_balance + obj[t].amount
  <2>1. /\ balance' = [balance EXCEPT ![a] = loaded] /\ UNCHANGED ledger
        /\ unfinished' = [unfinished EXCEPT ![a] = @ + obj[t].amount]
        /\ stale_save' = [stale_save EXCEPT
                            ![a] = @ \/ balance[a] # obj[t].credit_balance]
    BY <1>2 DEF LoadSave
  <2>2. /\ balance' = [balance EXCEPT ![a] = balance'[a]]
        /\ unfinished' = [unfinished EXCEPT ![a] = unfinished'[a]]
        /\ balance'[a] = loaded /\ unfinished'[a] = unfinished[a] + obj[t].amount
    BY <1>1, <2>1 DEF TypeOK
  <2>3. CASE balance[a] = obj[t].credit_balance
    <3>1. obj[t].amount = balance'[a] - balance[a]
      BY <1>1, <2>2, <2>3 DEF TypeOK
    <3>2. UNCHANGED stale_save
      BY <1>1, <2>1, <2>3 DEF TypeOK
    <3> QED BY <1>1, <2>1, <2>2, <3>1, <3>2 DEF Promise!LoadCredits
  <2>4. CASE balance[a] # obj[t].credit_balance
    <3>1. stale_save' = [stale_save EXCEPT ![a] = TRUE]
      BY <2>1, <2>4
    <3> QED BY <1>1, <2>1, <2>2, <3>1 DEF Promise!Overwrite
  <2> QED BY <2>3, <2>4
<1>3. CASE LoadComplete(t)
  <2>1. /\ ledger' = [ledger EXCEPT ![a] = @ + obj[t].amount]
        /\ unfinished' = [unfinished EXCEPT ![a] = @ - obj[t].amount]
        /\ UNCHANGED <<balance, stale_save>>
    BY <1>3 DEF LoadComplete, account
  <2>2. unfinished'[a] = unfinished[a] - obj[t].amount
    BY <1>1, <2>1 DEF TypeOK
  <2>3. unfinished' = [unfinished EXCEPT ![a] = unfinished'[a]]
    BY <1>1, <2>1, <2>2 DEF TypeOK
  <2>4. obj[t].amount \in Int /\ unfinished[a] \in Int
    BY <1>1 DEF TypeOK
  <2>5. obj[t].amount = unfinished[a] - unfinished'[a]
    BY <2>2, <2>4
  <2> QED BY <1>1, <2>1, <2>3, <2>5 DEF Promise!CompleteLoad
<1>4. CASE LoadRead(t) \/ LoadPending(t) \/ LoadAbort(t)
  BY <1>1, <1>4 DEF LoadRead, LoadPending, LoadAbort, LedgerVars, db, account, history
<1> QED BY <1>2, <1>3, <1>4 DEF Load

\* Seen through Told, every behaviour of the API, its database and the top-ups is a
\* behaviour of the Ledger.
THEOREM Refinement == Spec => ImplementsLedger
<1>1. Init => Promise!Init
  BY DEF Init, Promise!Init, Told, NoReply, Callers
<1>2. TypeInv /\ BooksInv /\ [Next]_vars => [Promise!Next]_(Promise!vars)
  <2> SUFFICES ASSUME TypeInv, BooksInv, [Next]_vars
               PROVE  Promise!Next \/ UNCHANGED LedgerVars
    BY DEF Promise!vars, LedgerVars
  <2>1. ASSUME NEW p \in Probes, Health(p)
        PROVE  UNCHANGED LedgerVars
    <3>1. UNCHANGED db /\ \A d \in Requests : reply'[d] = reply[d]
      BY <2>1, HealthShift, BillingApiAssumption
         DEF Health, HealthCheck, Pong, TypeInv, TypeOK, Callers
    <3> QED BY <3>1 DEF LedgerVars, Told, db, account, history
  <2>2. Crash => UNCHANGED LedgerVars
    BY DEF Crash, LedgerVars, Told, account, history
  <2>3. UNCHANGED vars => UNCHANGED LedgerVars
    BY DEF vars, LedgerVars, Told, db, account, history
  <2> QED BY <2>1, <2>2, <2>3, ChargeRefines, LoadRefines DEF Next, Done, Promise!Next
<1> QED BY <1>1, <1>2, TypeInit, TypeStep, BooksInit, BooksStep, PTL
        DEF Spec, ImplementsLedger, Promise!Spec
-----------------------------------------------------------------------------
(***************************************************************************)
(* The connection pool: no connection is lost, whichever way an            *)
(* interaction ends, and the only deadlock is PoolSize requests each       *)
(* waiting for a second connection - for every pool size and every number  *)
(* of requests.                                                            *)
(*                                                                         *)
(* A connection in use is a pair <<caller, k>>, its k-th connection; the   *)
(* proof counts them by adding one pair at a time (OneMore).               *)
(***************************************************************************)
Slots(u) == {s \in Callers \X {1, 2} : s[2] <= u[s[1]]}
uses == [c \in Callers |-> Uses(c)]

LEMMA SlotsFinite ==
  ASSUME NEW u \in [Callers -> 0..2]
  PROVE  IsFiniteSet(Slots(u)) /\ Cardinality(Slots(u)) \in Nat
<1>1. IsFiniteSet(Callers)
  BY BillingApiAssumption, FS_Union DEF Callers
<1>2. IsFiniteSet({1, 2})
  <2>1. {1, 2} = 1..2
    OBVIOUS
  <2>2. IsFiniteSet(1..2)
    <3>1. 1 \in Int /\ 2 \in Int
      OBVIOUS
    <3> QED BY <3>1, FS_Interval
  <2> QED BY <2>1, <2>2
<1>3. IsFiniteSet(Callers \X {1, 2})
  BY <1>1, <1>2, FS_Product
<1> QED BY <1>3, FS_Subset, FS_CardinalityType DEF Slots

LEMMA OneMore ==
  ASSUME NEW u \in [Callers -> 0..2], NEW d \in Callers, u[d] < 2,
         NEW v \in [Callers -> 0..2], v = [u EXCEPT ![d] = @ + 1]
  PROVE  Cardinality(Slots(v)) = Cardinality(Slots(u)) + 1
<1> DEFINE s == <<d, u[d] + 1>>
<1>1. Slots(v) = Slots(u) \cup {s}
  <2>1. ASSUME NEW c \in Callers, NEW k \in {1, 2}
        PROVE  <<c, k>> \in Slots(v) <=> <<c, k>> \in Slots(u) \cup {s}
    <3>1. CASE c = d
      BY <3>1 DEF Slots
    <3>2. CASE c # d
      BY <3>2 DEF Slots
    <3> QED BY <3>1, <3>2
  <2>2. s \in Callers \X {1, 2}
    OBVIOUS
  <2>3. Slots(v) \subseteq Callers \X {1, 2} /\ Slots(u) \cup {s} \subseteq Callers \X {1, 2}
    BY <2>2 DEF Slots
  <2>4. \A x \in Callers \X {1, 2} : x \in Slots(v) <=> x \in Slots(u) \cup {s}
    <3> TAKE x \in Callers \X {1, 2}
    <3>1. x[1] \in Callers /\ x[2] \in {1, 2} /\ x = <<x[1], x[2]>>
      OBVIOUS
    <3> HIDE DEF s
    <3> QED BY <2>1, <3>1
  <2> QED BY <2>3, <2>4
<1>2. s \notin Slots(u)
  BY DEF Slots
<1> QED BY <1>1, <1>2, SlotsFinite, FS_AddElement

\* The two counts of PoolConserved, and the set of who waits.
PoolInv == TypeInv /\ PoolConserved

LEMMA UsesFact ==
  /\ uses \in [Callers -> 0..2] /\ InUse = Slots(uses)
  /\ \A c \in Callers : uses[c] = Uses(c)
<1>1. \A c \in Callers : Uses(c) \in 0..2
  BY DEF Uses
<1>2. uses \in [Callers -> 0..2] /\ \A c \in Callers : uses[c] = Uses(c)
  BY <1>1 DEF uses
<1>3. InUse = Slots(uses)
  BY <1>2 DEF InUse, Slots
<1> QED BY <1>2, <1>3

LEMMA UsesFactNext ==
  /\ uses' \in [Callers -> 0..2] /\ InUse' = Slots(uses')
  /\ \A c \in Callers : uses'[c] = Uses(c)'
<1>1. \A c \in Callers : Uses(c)' \in 0..2
  BY DEF Uses
<1>2. uses' \in [Callers -> 0..2] /\ \A c \in Callers : uses'[c] = Uses(c)'
  BY <1>1 DEF uses
<1>3. InUse' = Slots(uses')
  BY <1>2 DEF InUse, Slots
<1> QED BY <1>2, <1>3

\* Giving n connections back gives every waiter it wakes exactly one.
LEMMA ReleasePool ==
  ASSUME PoolInv,
         NEW c \in Callers, pc[c] \notin Queued,
         NEW n \in {1, 2}, NEW next \in Steps \ Queued,
         Release(c, n, next), Uses(c) = Uses(c)' + n
  PROVE  PoolConserved'
<1> DEFINE granted == {waiting[i] : i \in 1..Served(n)}
<1>0. TypeOK /\ QueueInv
  BY DEF PoolInv, TypeInv
<1>1. /\ Served(n) \in 0..Len(waiting) /\ Served(n) \in {0, 1, 2} /\ Served(n) <= n
      /\ Served(n) < n => Served(n) = Len(waiting)
      /\ waiting \in Seq(Callers) /\ tokens \in Nat /\ Len(waiting) \in Nat
  <2>1. waiting \in Seq(Callers) /\ tokens \in Nat /\ Len(waiting) \in Nat
    BY <1>0 DEF TypeOK
  <2>2. Served(n) = IF Len(waiting) < n THEN Len(waiting) ELSE n
    BY DEF Served
  <2>3. CASE n = 1
    BY <2>1, <2>2, <2>3
  <2>4. CASE n = 2
    <3>1. \A k \in Nat : k < 2 => k = 0 \/ k = 1
      OBVIOUS
    <3>2. CASE Len(waiting) < 2
      BY <2>1, <2>2, <2>4, <3>1, <3>2
    <3>3. CASE ~(Len(waiting) < 2)
      <4>1. Served(n) = 2 /\ 2 <= Len(waiting)
        BY <2>1, <2>2, <2>4, <3>3
      <4> QED BY <2>1, <2>4, <4>1
    <3> QED BY <3>2, <3>3
  <2> QED BY <2>3, <2>4
<1>2. \A d \in granted : d \in Callers /\ pc[d] \in Queued /\ d # c
  BY <1>0, <1>1 DEF QueueInv, Queued
<1>3. /\ Len(waiting') = Len(waiting) - Served(n)
      /\ waiting' \in Seq(Callers)
      /\ \A i \in 1..Len(waiting') : waiting'[i] = waiting[i + Served(n)]
  BY SMTT(60), <1>1 DEF Release
<1>4. \A d \in Callers \ {c} : pc'[d] = IF d \in granted THEN Resumed(d) ELSE pc[d]
  BY DEF Release
<1>5. \A d \in granted : Resumed(d) \in {"get_cost", "cost_query", "ping"}
                         /\ Uses(d)' = Uses(d) + 1
  <2> TAKE d \in granted
  <2>1. pc'[d] = Resumed(d)
    BY <1>2, <1>4
  <2> QED BY <1>2, <2>1 DEF Uses, Resumed, Queued, InTransaction
<1>6. \A d \in Callers \ {c} : d \notin granted => Uses(d)' = Uses(d)
  BY <1>4 DEF Uses
<1> HIDE DEF granted
<1>7. tokens' + Cardinality(InUse') = PoolSize
  <2> DEFINE u == [uses EXCEPT ![c] = @ - n]
  <2>1. uses \in [Callers -> 0..2] /\ InUse = Slots(uses) /\ uses[c] = Uses(c)'+ n
        /\ \A d \in Callers : uses[d] = Uses(d)
    BY UsesFact
  <2>2. uses' \in [Callers -> 0..2] /\ InUse' = Slots(uses')
        /\ \A d \in Callers : uses'[d] = Uses(d)'
    BY UsesFactNext
  <2>3. u \in [Callers -> 0..2] /\ u[c] = uses'[c] /\ uses[c] = u[c] + n
        /\ \A d \in Callers \ {c} : u[d] = uses[d]
    BY <2>1, <2>2
  <2>4. Cardinality(Slots(u)) \in Nat /\ Cardinality(Slots(uses)) \in Nat
    BY <2>1, <2>3, SlotsFinite
  <2> HIDE DEF u
  <2>5. Cardinality(Slots(uses)) = Cardinality(Slots(u)) + n
    <3>1. CASE n = 1
      <4>1. uses = [u EXCEPT ![c] = @ + 1] /\ u[c] < 2
        BY <2>1, <2>3, <3>1
      <4> QED BY <2>1, <2>3, <3>1, <4>1, OneMore
    <3>2. CASE n = 2
      <4> DEFINE h == [u EXCEPT ![c] = @ + 1]
      <4>1. h \in [Callers -> 0..2] /\ u[c] < 2 /\ h[c] < 2 /\ h = [u EXCEPT ![c] = @ + 1]
            /\ uses = [h EXCEPT ![c] = @ + 1]
        <5>1. u[c] = 0 /\ uses[c] = 2
          BY <2>1, <2>3, <3>2
        <5>2. h \in [Callers -> 0..2] /\ h[c] = 1 /\ \A d \in Callers \ {c} : h[d] = u[d]
          BY <2>3, <5>1
        <5> HIDE DEF h
        <5>3. uses = [h EXCEPT ![c] = @ + 1]
          BY <2>1, <2>3, <5>1, <5>2
        <5> QED BY <5>1, <5>2, <5>3 DEF h
      <4> HIDE DEF h
      <4>2. Cardinality(Slots(h)) = Cardinality(Slots(u)) + 1
        BY <2>3, <4>1, OneMore
      <4>3. Cardinality(Slots(uses)) = Cardinality(Slots(h)) + 1
        BY <2>1, <4>1, OneMore
      <4> QED BY <2>4, <3>2, <4>2, <4>3
    <3> QED BY <3>1, <3>2
  <2>6. Cardinality(Slots(uses')) = Cardinality(Slots(u)) + Served(n)
    <3>1. CASE Served(n) = 0
      <4>1. granted = {}
        BY <3>1 DEF granted
      <4>2. uses' = u
        BY <1>6, <2>1, <2>2, <2>3, <4>1
      <4> QED BY <2>4, <3>1, <4>2
    <3>2. CASE Served(n) = 1
      <4>1. granted = {waiting[1]}
        BY <3>2 DEF granted
      <4>2. waiting[1] \in Callers /\ u[waiting[1]] = uses[waiting[1]]
            /\ uses'[waiting[1]] = uses[waiting[1]] + 1
        BY <1>2, <1>5, <2>1, <2>2, <2>3, <4>1
      <4>3. uses' = [u EXCEPT ![waiting[1]] = @ + 1] /\ u[waiting[1]] < 2
        BY <1>6, <2>1, <2>2, <2>3, <4>1, <4>2
      <4> QED BY <2>2, <2>3, <3>2, <4>2, <4>3, OneMore
    <3>3. CASE Served(n) = 2
      <4> DEFINE d == waiting[1]
                 e == waiting[2]
                 h == [u EXCEPT ![d] = @ + 1]
      <4>1. granted = {d, e}
        BY <3>3 DEF granted
      <4>2. d # e
        BY <1>0, <1>1, <3>3 DEF QueueInv
      <4>3. /\ d \in Callers /\ u[d] = uses[d] /\ uses'[d] = uses[d] + 1
            /\ e \in Callers /\ u[e] = uses[e] /\ uses'[e] = uses[e] + 1
        BY <1>2, <1>5, <2>1, <2>2, <2>3, <4>1
      <4> HIDE DEF d, e
      <4>4. h \in [Callers -> 0..2] /\ h[e] = u[e] /\ u[d] < 2 /\ u[e] < 2
        BY <2>1, <2>2, <2>3, <4>2, <4>3
      <4>5. uses' = [h EXCEPT ![e] = @ + 1]
        BY <1>6, <2>1, <2>2, <2>3, <4>1, <4>2, <4>3
      <4>6. Cardinality(Slots(h)) = Cardinality(Slots(u)) + 1
        BY <2>3, <4>3, <4>4, OneMore
      <4>7. h[e] < 2
        BY <4>4
      <4> HIDE DEF h
      <4>8. Cardinality(Slots(uses')) = Cardinality(Slots(h)) + 1
        BY <2>2, <4>3, <4>4, <4>5, <4>7, OneMore
      <4> QED BY <2>4, <3>3, <4>6, <4>8
    <3> QED BY <1>1, <3>1, <3>2, <3>3
  <2>7. tokens' = tokens + n - Served(n) /\ tokens + Cardinality(Slots(uses)) = PoolSize
    BY <1>1, <2>1 DEF Release, PoolInv, PoolConserved
  <2> QED BY <1>1, <2>2, <2>4, <2>5, <2>6, <2>7
<1>8. tokens' > 0 => waiting' = <<>>
  <2> SUFFICES ASSUME tokens' > 0 PROVE Len(waiting') = 0
    BY <1>3
  <2>1. tokens' = tokens + (n - Served(n))
    BY DEF Release
  <2>2. tokens > 0 => Len(waiting) = 0
    BY DEF PoolInv, PoolConserved
  <2> QED BY <1>1, <1>3, <2>1, <2>2
<1>9. Waiters' = {d \in Callers : pc'[d] \in Queued}
  <2>1. pc'[c] \notin Queued /\ QueueInv'
    BY <1>0, ReleaseFact
  <2>2. \A i \in 1..Len(waiting') : waiting'[i] \in Callers /\ pc'[waiting'[i]] \in Queued
    BY <1>3, <2>1 DEF QueueInv, Queued
  <2>3. ASSUME NEW d \in Callers, pc'[d] \in Queued
        PROVE  \E i \in 1..Len(waiting') : d = waiting'[i]
    <3>1. d # c /\ d \notin granted /\ pc[d] \in Queued
      BY <1>4, <1>5, <2>1, <2>3 DEF Queued
    <3>2. PICK i \in 1..Len(waiting) : waiting[i] = d
      BY <3>1 DEF PoolInv, PoolConserved, Waiters, Queued
    <3>3. i > Served(n)
      BY <1>1, <3>1, <3>2 DEF granted
    <3>4. i - Served(n) \in 1..Len(waiting') /\ waiting'[i - Served(n)] = d
      BY <1>1, <1>3, <3>2, <3>3
    <3> QED BY <3>4
  <2> QED BY <2>2, <2>3 DEF Waiters
<1> QED BY <1>7, <1>8, <1>9 DEF PoolConserved, Queued

\* Asking for a connection takes the free one or joins the queue.
LEMMA AcquirePool ==
  ASSUME PoolInv,
         NEW c \in Callers, pc[c] \notin Queued,
         NEW granted \in Steps \ Queued, NEW queued \in Queued,
         Acquire(c, granted, queued),
         pc'[c] = granted => Uses(c)' = Uses(c) + 1,
         pc'[c] = queued => Uses(c)' = Uses(c)
  PROVE  PoolConserved'
<1>0. TypeOK /\ QueueInv
  BY DEF PoolInv, TypeInv
<1>1. \A d \in Callers \ {c} : pc'[d] = pc[d] /\ Uses(d)' = Uses(d)
  BY <1>0, AcquireFact DEF Uses
<1>2. uses \in [Callers -> 0..2] /\ InUse = Slots(uses) /\ \A d \in Callers : uses[d] = Uses(d)
  BY UsesFact
<1>3. uses' \in [Callers -> 0..2] /\ InUse' = Slots(uses') /\ \A d \in Callers : uses'[d] = Uses(d)'
  BY UsesFactNext
<1>4. tokens + Cardinality(Slots(uses)) = PoolSize /\ Cardinality(Slots(uses)) \in Nat
      /\ tokens \in Nat
  BY <1>0, <1>2, SlotsFinite DEF PoolInv, PoolConserved, TypeOK
<1>5. Waiters = {d \in Callers : pc[d] \in Queued}
  BY DEF PoolInv, PoolConserved, Queued
<1>6. CASE tokens > 0 /\ UNCHANGED waiting /\ tokens' = tokens - 1
           /\ pc' = [pc EXCEPT ![c] = granted]
  <2>1. pc'[c] = granted
    BY <1>0, <1>6 DEF TypeOK
  <2>2. uses' = [uses EXCEPT ![c] = @ + 1] /\ uses[c] < 2
    BY <1>1, <1>2, <1>3, <2>1
  <2>3. Cardinality(Slots(uses')) = Cardinality(Slots(uses)) + 1
    BY <1>2, <1>3, <2>2, OneMore
  <2>4. tokens' + Cardinality(InUse') = PoolSize
    BY <1>3, <1>4, <1>6, <2>3
  <2>5. Waiters' = {d \in Callers : pc'[d] \in Queued}
    BY <1>1, <1>5, <1>6, <2>1 DEF Waiters
  <2>6. tokens' > 0 => waiting' = <<>>
    BY <1>6 DEF PoolInv, PoolConserved
  <2> QED BY <2>4, <2>5, <2>6 DEF PoolConserved, Queued
<1>7. CASE tokens = 0 /\ UNCHANGED tokens /\ waiting' = Append(waiting, c)
           /\ pc' = [pc EXCEPT ![c] = queued]
  <2>1. pc'[c] = queued
    BY <1>0, <1>7 DEF TypeOK
  <2>2. uses' = uses
    BY <1>1, <1>2, <1>3, <2>1
  <2>3. tokens' + Cardinality(InUse') = PoolSize
    BY <1>2, <1>3, <1>4, <1>7, <2>2
  <2>4. Waiters' = Waiters \cup {c}
    <3>1. /\ Len(waiting') = Len(waiting) + 1 /\ Len(waiting) \in Nat
          /\ \A i \in 1..Len(waiting) : waiting'[i] = waiting[i]
          /\ waiting'[Len(waiting) + 1] = c
      BY <1>0, <1>7 DEF TypeOK
    <3>2. \A x : x \in Waiters' => x \in Waiters \cup {c}
      BY <3>1 DEF Waiters
    <3>3. c \in Waiters'
      BY <3>1 DEF Waiters
    <3>4. \A x : x \in Waiters => x \in Waiters'
      BY <3>1 DEF Waiters
    <3> QED BY <3>2, <3>3, <3>4
  <2>5. Waiters' = {d \in Callers : pc'[d] \in Queued}
    BY <1>1, <1>5, <2>1, <2>4
  <2>6. ~(tokens' > 0)
    BY <1>7
  <2> QED BY <2>3, <2>5, <2>6 DEF PoolConserved, Queued
<1> QED BY <1>6, <1>7 DEF Acquire

\* A step that neither asks nor gives back.
LEMMA MovePool ==
  ASSUME PoolInv, UNCHANGED pool,
         \A d \in Callers : Uses(d)' = Uses(d),
         \A d \in Callers : pc'[d] \in Queued <=> pc[d] \in Queued
  PROVE  PoolConserved'
<1>1. uses' = uses
  BY DEF uses
<1>2. InUse' = InUse
  BY <1>1, UsesFact, UsesFactNext
<1>3. Waiters' = Waiters /\ tokens' = tokens /\ waiting' = waiting
  BY DEF Waiters, pool
<1>4. Waiters' = {d \in Callers : pc'[d] \in Queued}
  BY <1>3 DEF PoolInv, PoolConserved, Queued
<1> QED BY <1>2, <1>3, <1>4 DEF PoolInv, PoolConserved, Queued

LEMMA ChargePool ==
  ASSUME PoolInv, NEW r \in Requests, Charge(r)
  PROVE  PoolConserved'
<1> r \in Callers
  BY DEF Callers
<1>0. TypeOK /\ QueueInv
  BY DEF PoolInv, TypeInv
<1> USE DEF Queued, Steps, InTransaction, Final
<1>1. ASSUME Rollback(r), pc[r] \in InTransaction \ {"queued_cost"}
      PROVE  PoolConserved'
  <2>1. Held(r) \in {1, 2} /\ Release(r, Held(r), "answered")
    BY <1>1 DEF Held, Rollback
  <2>2. pc'[r] = "answered"
    BY <2>1 DEF Release
  <2>3. Uses(r) = Uses(r)' + Held(r)
    BY <1>1, <2>2 DEF Uses, Held
  <2>4. pc[r] \notin Queued
    BY <1>1
  <2>5. "answered" \in Steps \ Queued
    OBVIOUS
  <2> HIDE DEF Queued, Steps, InTransaction, Final
  <2> QED BY <2>1, <2>3, <2>4, <2>5, ReleasePool
<1>2. ASSUME NEW next \in Steps \ Queued, pc' = [pc EXCEPT ![r] = next], UNCHANGED pool,
             pc[r] \notin Queued, Uses(r)' = Uses(r)
      PROVE  PoolConserved'
  <2>1. pc'[r] = next /\ \A d \in Callers \ {r} : pc'[d] = pc[d]
    BY <1>0, <1>2 DEF TypeOK
  <2>2. \A d \in Callers : Uses(d)' = Uses(d)
    BY <1>2, <2>1 DEF Uses
  <2>3. \A d \in Callers : pc'[d] \in Queued <=> pc[d] \in Queued
    BY <1>2, <2>1
  <2> QED BY <1>2, <2>2, <2>3, MovePool
<1>3. CASE RejectPost(r)
  <2>1. Uses(r)' = Uses(r)
    BY <1>0, <1>3 DEF RejectPost, Uses, TypeOK
  <2> QED BY <1>2, <1>3, <2>1 DEF RejectPost
<1>4. CASE RenderPost(r)
  <2>1. pc[r] = "idle" /\ Acquire(r, "get_cost", "queued")
    BY <1>4 DEF RenderPost
  <2>2. pc'[r] = "get_cost" => Uses(r)' = Uses(r) + 1
    BY <2>1 DEF Uses
  <2>3. pc'[r] = "queued" => Uses(r)' = Uses(r)
    BY <2>1 DEF Uses
  <2> QED BY <2>1, <2>2, <2>3, AcquirePool
<1>5. CASE GetCost(r)
  <2>1. pc[r] = "get_cost" /\ Acquire(r, "cost_query", "queued_cost")
    BY <1>5 DEF GetCost
  <2>2. pc'[r] = "cost_query" => Uses(r)' = Uses(r) + 1
    BY <2>1 DEF Uses
  <2>3. pc'[r] = "queued_cost" => Uses(r)' = Uses(r)
    BY <2>1 DEF Uses
  <2> QED BY <2>1, <2>2, <2>3, AcquirePool
<1>6. CASE CostFound(r)
  <2>1. pc[r] = "cost_query" /\ Release(r, 1, "select") /\ pc'[r] = "select"
    BY <1>6 DEF CostFound, Release
  <2>2. Uses(r) = Uses(r)' + 1
    BY <2>1 DEF Uses
  <2> QED BY <2>1, <2>2, ReleasePool
<1>7. CASE CostMissing(r) \/ AccountMissing(r) \/ MappingEmpty(r) \/ Fail(r)
  BY <1>1, <1>7 DEF CostMissing, AccountMissing, MappingEmpty, Fail
<1>8. CASE SelectBalance(r)
  <2> DEFINE next == IF Refused(r) THEN "commit" ELSE "insert"
  <2>1. next \in Steps \ Queued /\ next \in {"commit", "insert"}
    OBVIOUS
  <2>2. pc[r] = "select" /\ pc' = [pc EXCEPT ![r] = next] /\ UNCHANGED pool
    BY <1>8 DEF SelectBalance
  <2> HIDE DEF next
  <2>3. Uses(r)' = Uses(r)
    BY <1>0, <2>1, <2>2 DEF Uses, TypeOK
  <2> QED BY <1>2, <2>1, <2>2, <2>3
<1>9. CASE InsertTransaction(r)
  <2>1. Uses(r)' = Uses(r)
    BY <1>0, <1>9 DEF InsertTransaction, Uses, TypeOK
  <2> QED BY <1>2, <1>9, <2>1 DEF InsertTransaction
<1>10. CASE UpdateBalance(r)
  <2>1. Uses(r)' = Uses(r)
    BY <1>0, <1>10 DEF UpdateBalance, Uses, TypeOK
  <2> QED BY <1>2, <1>10, <2>1 DEF UpdateBalance
<1>11. CASE NotifyThreshold(r)
  <2>1. Uses(r)' = Uses(r)
    BY <1>0, <1>11 DEF NotifyThreshold, Uses, TypeOK
  <2> QED BY <1>2, <1>11, <2>1 DEF NotifyThreshold
<1>12. CASE Commit(r)
  <2>1. pc[r] = "commit" /\ Release(r, 1, "render") /\ pc'[r] = "render"
    BY <1>12 DEF Commit, Release
  <2>2. Uses(r) = Uses(r)' + 1
    BY <2>1 DEF Uses
  <2> QED BY <2>1, <2>2, ReleasePool
<1>13. CASE RenderToJson(r)
  <2>1. Uses(r)' = Uses(r)
    BY <1>0, <1>13 DEF RenderToJson, Uses, TypeOK
  <2> QED BY <1>2, <1>13, <2>1 DEF RenderToJson
<1> QED BY <1>3, <1>4, <1>5, <1>6, <1>7, <1>8, <1>9, <1>10, <1>11, <1>12, <1>13 DEF Charge

LEMMA HealthPool ==
  ASSUME PoolInv, NEW p \in Probes, Health(p)
  PROVE  PoolConserved'
<1> p \in Callers
  BY DEF Callers
<1> USE DEF Queued, Steps, InTransaction, Final
<1>1. CASE HealthCheck(p)
  <2>1. pc[p] = "idle" /\ Acquire(p, "ping", "queued")
    BY <1>1 DEF HealthCheck
  <2>2. pc'[p] = "ping" => Uses(p)' = Uses(p) + 1
    BY <2>1 DEF Uses
  <2>3. pc'[p] = "queued" => Uses(p)' = Uses(p)
    BY <2>1 DEF Uses
  <2> QED BY <2>1, <2>2, <2>3, AcquirePool
<1>2. CASE Pong(p)
  <2>1. pc[p] = "ping" /\ Release(p, 1, "answered") /\ pc'[p] = "answered"
    BY <1>2 DEF Pong, Release
  <2>2. Uses(p) = Uses(p)' + 1
    BY <2>1 DEF Uses
  <2> QED BY <2>1, <2>2, ReleasePool
<1> QED BY <1>1, <1>2 DEF Health

\* With no caller in an interaction, no connection is in use.
LEMMA NoneInUse ==
  ASSUME NEW u \in [Callers -> 0..2], \A c \in Callers : u[c] = 0
  PROVE  Cardinality(Slots(u)) = 0
<1>1. Slots(u) = {}
  BY DEF Slots
<1> QED BY <1>1, FS_EmptySet

LEMMA PoolInit == Init => PoolConserved
<1> SUFFICES ASSUME Init PROVE PoolConserved
  OBVIOUS
<1>1. \A c \in Callers : pc[c] = "idle"
  BY DEF Init
<1>2. \A c \in Callers : uses[c] = 0
  BY <1>1, UsesFact DEF Uses, InTransaction
<1>3. Cardinality(InUse) = 0
  BY <1>2, UsesFact, NoneInUse
<1>4. tokens = PoolSize /\ waiting = <<>> /\ Waiters = {}
  BY DEF Init, Waiters
<1>5. {c \in Callers : pc[c] \in {"queued", "queued_cost"}} = {}
  BY <1>1
<1> QED BY <1>3, <1>4, <1>5, BillingApiAssumption DEF PoolConserved

LEMMA PoolStep == PoolInv /\ [Next]_vars => PoolConserved'
<1> SUFFICES ASSUME PoolInv, [Next]_vars PROVE PoolConserved'
  OBVIOUS
<1>1. CASE \E r \in Requests : Charge(r)
  BY <1>1, ChargePool
<1>2. CASE \E p \in Probes : Health(p)
  BY <1>2, HealthPool
<1>3. ASSUME UNCHANGED <<pc, pool>>
      PROVE  PoolConserved'
  BY <1>3, MovePool DEF Uses
<1>4. CASE \E t \in TopUps : Load(t)
  BY <1>3, <1>4, LoadType DEF PoolInv, TypeInv
<1>5. CASE Crash
  <2>1. \A c \in Callers : pc'[c] \in Final \cup {"idle"}
    BY <1>5 DEF Crash, Final
  <2>2. \A c \in Callers : uses'[c] = 0
    BY <2>1, UsesFactNext DEF Uses, InTransaction, Final
  <2>3. Cardinality(InUse') = 0
    BY <2>2, UsesFactNext, NoneInUse
  <2>4. tokens' = PoolSize /\ waiting' = <<>> /\ Waiters' = {}
    BY <1>5 DEF Crash, Waiters
  <2>5. {c \in Callers : pc'[c] \in {"queued", "queued_cost"}} = {}
    BY <2>1 DEF Final
  <2> QED BY <2>3, <2>4, <2>5, BillingApiAssumption DEF PoolConserved
<1>6. CASE UNCHANGED vars
  BY <1>3, <1>6 DEF vars
<1> QED BY <1>1, <1>2, <1>4, <1>5, <1>6 DEF Next, Done

\* However an interaction ends - an exception in the cost query, a failed commit, a
\* crash - its connections return to the pool, and nobody waits while one is free.
THEOREM PoolNeverLeaks == Spec => []PoolConserved
<1>1. Init => PoolInv
  BY TypeInit, PoolInit DEF PoolInv
<1>2. PoolInv /\ [Next]_vars => PoolInv'
  BY TypeStep, PoolStep DEF PoolInv
<1>3. PoolInv => PoolConserved
  BY DEF PoolInv
<1> QED BY <1>1, <1>2, <1>3, PTL DEF Spec

-----------------------------------------------------------------------------
(* What the pool can deadlock on *)

\* Only a request looks up a cost.
ProbeInv == \A p \in Probes : pc[p] # "queued_cost"
StuckInv == PoolInv /\ ProbeInv

LEMMA ProbeStep == TypeInv /\ ProbeInv /\ [Next]_vars => ProbeInv'
<1> SUFFICES ASSUME TypeInv, ProbeInv, [Next]_vars PROVE ProbeInv'
  OBVIOUS
<1>0. TypeOK /\ QueueInv /\ Requests \cap Probes = {} /\ Probes \subseteq Callers
  BY BillingApiAssumption DEF TypeInv, Callers
<1>1. CASE \E r \in Requests : Charge(r)
  <2> PICK r \in Requests : Charge(r)
    BY <1>1
  <2>1. Shift(r)
    BY <1>0, ChargeShift
  <2> QED BY <1>0, <2>1 DEF ProbeInv, Shift
<1>2. CASE \E p \in Probes : Health(p)
  <2> PICK p \in Probes : Health(p)
    BY <1>2
  <2>1. Shift(p)
    BY <1>0, HealthShift
  <2>2. pc'[p] # "queued_cost"
    <3>1. CASE HealthCheck(p)
      BY <1>0, <3>1 DEF HealthCheck, Acquire, TypeOK
    <3>2. CASE Pong(p)
      BY <1>0, <3>2 DEF Pong, Release
    <3> QED BY <3>1, <3>2 DEF Health
  <2> QED BY <1>0, <2>1, <2>2 DEF ProbeInv, Shift
<1>3. CASE \E t \in TopUps : Load(t)
  BY <1>0, <1>3, LoadType DEF ProbeInv
<1>4. CASE Crash
  BY <1>0, <1>4 DEF Crash, ProbeInv, Final
<1>5. CASE UNCHANGED vars
  BY <1>5 DEF vars, ProbeInv
<1> QED BY <1>1, <1>2, <1>3, <1>4, <1>5 DEF Next, Done

LEMMA StuckInductive == Spec => []StuckInv
<1>1. Init => StuckInv
  BY TypeInit, PoolInit, BillingApiAssumption DEF StuckInv, PoolInv, ProbeInv, Init, Callers
<1>2. StuckInv /\ [Next]_vars => StuckInv'
  BY TypeStep, PoolStep, ProbeStep DEF StuckInv, PoolInv
<1> QED BY <1>1, <1>2, PTL DEF Spec

\* Everybody under way waits: then each of the PoolSize connections is held by a
\* request that waits for its second one.
LEMMA StuckCount ==
  ASSUME StuckInv, Stuck
  PROVE  Cardinality({r \in Requests : pc[r] = "queued_cost"}) = PoolSize
<1> DEFINE Q == {r \in Requests : pc[r] = "queued_cost"}
           f == [r \in Q |-> <<r, 1>>]
<1>1. TypeOK /\ PoolConserved /\ ProbeInv
  BY DEF StuckInv, PoolInv, TypeInv
<1>2. tokens = 0
  <2>1. PICK c \in Callers : pc[c] \in {"queued", "queued_cost"}
    BY DEF Stuck
  <2>2. c \in Waiters
    BY <1>1, <2>1 DEF PoolConserved
  <2>3. waiting # <<>>
    BY <2>2 DEF Waiters
  <2> QED BY <1>1, <2>3 DEF PoolConserved, TypeOK
<1>3. \A c \in Callers : uses[c] = IF c \in Q THEN 1 ELSE 0
  <2> TAKE c \in Callers
  <2>1. pc[c] = "queued_cost" <=> c \in Q
    BY <1>1 DEF ProbeInv, Callers
  <2>2. pc[c] \in {"queued", "queued_cost"} \/ pc[c] \in Final \cup {"idle"}
    BY DEF Stuck, InFlight
  <2>3. Uses(c) = IF c \in Q THEN 1 ELSE 0
    BY <2>1, <2>2 DEF Uses, InTransaction, Final
  <2> QED BY <2>3, UsesFact
<1>4. \A c \in Callers, k \in {1, 2} : <<c, k>> \in Slots(uses) <=> c \in Q /\ k = 1
  BY <1>3 DEF Slots
<1>5. Q \subseteq Callers
  BY DEF Callers
<1> HIDE DEF Q
<1>6. f \in Bijection(Q, Slots(uses))
  <2>1. \A r \in Q : f[r] = <<r, 1>> /\ f[r] \in Slots(uses)
    BY <1>4, <1>5
  <2>2. \A x \in Q, y \in Q : f[x] = f[y] => x = y
    BY <2>1
  <2>3. \A s \in Slots(uses) : \E r \in Q : f[r] = s
    <3> TAKE s \in Slots(uses)
    <3>1. s[1] \in Callers /\ s[2] \in {1, 2} /\ s = <<s[1], s[2]>>
      BY DEF Slots
    <3>2. s[1] \in Q /\ s[2] = 1
      BY <1>4, <3>1
    <3> QED BY <2>1, <3>1, <3>2
  <2>4. f \in [Q -> Slots(uses)]
    BY <2>1
  <2> HIDE DEF f
  <2> QED BY <2>2, <2>3, <2>4, Fun_IsBij
<1>7. IsFiniteSet(Q)
  BY BillingApiAssumption, FS_Subset DEF Q
<1>8. Cardinality(Slots(uses)) = Cardinality(Q)
  <2>1. ExistsBijection(Q, Slots(uses))
    BY <1>6 DEF ExistsBijection
  <2> QED BY <1>7, <2>1, FS_Bijection
<1>9. tokens + Cardinality(Slots(uses)) = PoolSize
  BY <1>1, UsesFact DEF PoolConserved
<1>10. Cardinality(Slots(uses)) = PoolSize
  BY <1>2, <1>9, UsesFact, SlotsFinite
<1> QED BY <1>8, <1>10 DEF Q

\* The nested cost query is the only thing requests can deadlock on, and it takes
\* a pool's worth of them at once.
THEOREM OnlyCostQueriesBlock == Spec => []StuckOnlyOnCostQueries
<1>1. StuckInv => StuckOnlyOnCostQueries
  BY StuckCount DEF StuckOnlyOnCostQueries
<1> QED BY <1>1, StuckInductive, PTL

\* Fewer transaction requests than connections never deadlock the API, however
\* many health checks there are.
THEOREM FewRequestsNeverStuck ==
  ASSUME Cardinality(Requests) < PoolSize
  PROVE  Spec => []~Stuck
<1>1. StuckInv => ~Stuck
  <2> SUFFICES ASSUME StuckInv, Stuck PROVE FALSE
    OBVIOUS
  <2> DEFINE Q == {r \in Requests : pc[r] = "queued_cost"}
  <2>1. Cardinality(Q) = PoolSize
    BY StuckCount
  <2>2. Cardinality(Q) <= Cardinality(Requests)
    BY BillingApiAssumption, FS_Subset
  <2>3. Cardinality(Requests) \in Nat /\ Cardinality(Q) \in Nat
    BY BillingApiAssumption, FS_Subset, FS_CardinalityType
  <2> QED BY <2>1, <2>2, <2>3, BillingApiAssumption
<1> QED BY <1>1, StuckInductive, PTL

-----------------------------------------------------------------------------
(* The low-credit levels: what the loop of _create_notification_mapping     *)
(* computes, and that percentages and levels rise with the balance.         *)

\* Induction over numbers, in the form the provers can use: a set of natural numbers
\* has a smallest member, for the initial segments below its members are finite.
LEMMA SmallestOf ==
  ASSUME NEW T, T \subseteq Nat, T # {}
  PROVE  \E x \in T : \A y \in T : x <= y
<1> DEFINE Below == {0..n : n \in T}
<1>1. Below \subseteq FiniteSubsetsOf(Nat) /\ Below # {}
  <2>1. \A n \in T : 0..n \in FiniteSubsetsOf(Nat)
    BY FS_Interval DEF FiniteSubsetsOf
  <2> QED BY <2>1
<1>2. PICK B \in Below : \A C \in Below : ~(<<C, B>> \in StrictSubsetOrdering(Nat))
  BY <1>1, WFMin, FS_StrictSubsetOrderingWellFounded
<1>3. PICK x \in T : B = 0..x
  BY <1>2
<1>4. ASSUME NEW y \in T, y < x PROVE FALSE
  <2>1. 0..y \in Below
    BY <1>4
  <2>2. 0..y \subseteq 0..x /\ x \in 0..x /\ x \notin 0..y /\ x \in Nat /\ y \in Nat
    BY <1>4
  <2>3. <<0..y, 0..x>> \in StrictSubsetOrdering(Nat)
    BY <2>2 DEF StrictSubsetOrdering
  <2> QED BY <1>2, <1>3, <2>1, <2>3
<1> QED BY <1>4

\* What holds of lo and, of all up to i, of i + 1, holds from lo to hi.
LEMMA UpFrom ==
  ASSUME NEW lo \in Int, NEW hi \in Int, NEW S, lo \in S,
         \A i \in lo..hi : i > lo /\ (\A j \in lo..(i-1) : j \in S) => i \in S
  PROVE  \A i \in lo..hi : i \in S
<1> SUFFICES ASSUME NEW k \in lo..hi, k \notin S PROVE FALSE
  OBVIOUS
<1> DEFINE T == {n \in Nat : lo + n <= hi /\ lo + n \notin S}
<1>1. k - lo \in T /\ T \subseteq Nat
  OBVIOUS
<1>2. PICK n \in T : \A m \in T : n <= m
  BY <1>1, SmallestOf
<1>3. lo + n \in lo..hi /\ lo + n > lo
  BY <1>2
<1>4. \A j \in lo..(lo + n - 1) : j \in S
  <2> TAKE j \in lo..(lo + n - 1)
  <2>1. j - lo \in Nat /\ lo + (j - lo) = j /\ j <= hi /\ ~(n <= j - lo)
    BY <1>3
  <2> QED BY <1>2, <2>1
<1> QED BY <1>2, <1>3, <1>4

\* One turn of the loop of _create_notification_mapping.
NextIdx(levels, i, previous) == IF levels[previous] = i - 1 THEN previous + 1 ELSE previous
IdxUpTo(levels, lo, i, f) ==
  /\ f \in [lo..i -> Int]
  /\ f[lo] = 1
  /\ \A j \in (lo + 1)..i : f[j] = NextIdx(levels, j, f[j - 1])

LEMMA IdxExists ==
  ASSUME NEW levels, NEW lo \in Int, NEW hi \in Int, lo <= hi
  PROVE  \E f : IdxUpTo(levels, lo, hi, f)
<1> DEFINE S == {i \in Int : \E f : IdxUpTo(levels, lo, i, f)}
<1>1. lo \in S
  <2>1. IdxUpTo(levels, lo, lo, [j \in lo..lo |-> 1])
    BY DEF IdxUpTo
  <2> QED BY <2>1
<1>2. ASSUME NEW i \in lo..hi, i > lo, \A j \in lo..(i - 1) : j \in S
      PROVE  i \in S
  <2>1. i - 1 \in lo..(i - 1)
    BY <1>2
  <2>2. PICK f : IdxUpTo(levels, lo, i - 1, f)
    BY <1>2, <2>1
  <2> DEFINE g == [j \in lo..i |-> IF j = i THEN NextIdx(levels, i, f[i - 1]) ELSE f[j]]
  <2>3. \A j \in lo..i : g[j] = IF j = i THEN NextIdx(levels, i, f[i - 1]) ELSE f[j]
    OBVIOUS
  <2>4. \A j \in lo..(i - 1) : f[j] \in Int /\ j \in lo..i /\ j # i
    BY <1>2, <2>2 DEF IdxUpTo
  <2>5. NextIdx(levels, i, f[i - 1]) \in Int
    BY <2>1, <2>4 DEF NextIdx
  <2>6. g \in [lo..i -> Int]
    BY <2>4, <2>5
  <2>7. lo \in lo..(i - 1) /\ i \in lo..i
    BY <1>2
  <2>8. g[lo] = 1
    BY <2>2, <2>3, <2>4, <2>7 DEF IdxUpTo
  <2>9. ASSUME NEW j \in (lo + 1)..i PROVE g[j] = NextIdx(levels, j, g[j - 1])
    <3>1. j - 1 \in lo..(i - 1) /\ j \in lo..i
      BY <2>9, <1>2
    <3>2. g[j - 1] = f[j - 1]
      BY <2>3, <2>4, <3>1
    <3>3. CASE j = i
      BY <2>3, <3>1, <3>2, <3>3
    <3>4. CASE j # i
      <4>1. j \in (lo + 1)..(i - 1)
        BY <2>9, <3>4
      <4>2. g[j] = f[j]
        BY <2>3, <3>1, <3>4
      <4> QED BY <2>2, <3>2, <4>1, <4>2 DEF IdxUpTo
    <3> QED BY <3>3, <3>4
  <2> HIDE DEF g
  <2>10. IdxUpTo(levels, lo, i, g)
    BY <2>6, <2>8, <2>9 DEF IdxUpTo
  <2> QED BY <2>10
<1>3. hi \in lo..hi
  OBVIOUS
<1> HIDE DEF S
<1>4. hi \in S
  BY <1>1, <1>2, <1>3, UpFrom
<1> QED BY <1>4 DEF S

\* The recursive definition of level_idx is met by a function.
LEMMA MappingLoop ==
  ASSUME NEW levels \in Seq(Int), levels # <<>>, levels[1] <= levels[Len(levels)]
  PROVE  \E f : /\ IdxUpTo(levels, levels[1], levels[Len(levels)], f)
                /\ CreateNotificationMapping(levels) =
                     [i \in levels[1]..levels[Len(levels)] |-> levels[f[i]]]
<1> DEFINE lo == levels[1]
           hi == levels[Len(levels)]
           idx[i \in lo..hi] ==
             IF i = lo THEN 1
             ELSE LET previous == idx[i - 1]
                  IN  IF levels[previous] = i - 1 THEN previous + 1 ELSE previous
<1>1. CreateNotificationMapping(levels) = [i \in lo..hi |-> levels[idx[i]]]
  BY DEF CreateNotificationMapping
<1>2. lo \in Int /\ hi \in Int /\ lo <= hi
  OBVIOUS
<1>3. \A g : (g = [i \in lo..hi |-> IF i = lo THEN 1 ELSE NextIdx(levels, i, g[i - 1])]) <=>
             (g = [i \in lo..hi |->
                     IF i = lo THEN 1
                     ELSE LET previous == g[i - 1]
                          IN  IF levels[previous] = i - 1 THEN previous + 1 ELSE previous])
  BY DEF NextIdx
<1>4. ASSUME NEW f, IdxUpTo(levels, lo, hi, f)
      PROVE  f = [i \in lo..hi |-> IF i = lo THEN 1 ELSE NextIdx(levels, i, f[i - 1])]
  <2> HIDE DEF lo, hi
  <2>1. ASSUME NEW i \in lo..hi
        PROVE  f[i] = IF i = lo THEN 1 ELSE NextIdx(levels, i, f[i - 1])
    <3>1. CASE i = lo
      BY <1>4, <3>1 DEF IdxUpTo
    <3>2. CASE i # lo
      <4>1. i \in (lo + 1)..hi
        BY <1>2, <3>2
      <4> QED BY <1>4, <3>2, <4>1 DEF IdxUpTo
    <3> QED BY <3>1, <3>2
  <2>2. f = [i \in lo..hi |-> f[i]]
    BY <1>4 DEF IdxUpTo
  <2> QED BY <2>1, <2>2
<1>5. idx = [i \in lo..hi |-> IF i = lo THEN 1 ELSE NextIdx(levels, i, idx[i - 1])]
  <2> HIDE DEF lo, hi
  <2>1. PICK f : IdxUpTo(levels, lo, hi, f)
    BY <1>2, IdxExists
  <2>2. f = [i \in lo..hi |-> IF i = lo THEN 1 ELSE NextIdx(levels, i, f[i - 1])]
    BY <1>4, <2>1
  <2> QED BY <1>3, <2>2, Zenon
<1> HIDE DEF idx
<1>6. IdxUpTo(levels, lo, hi, idx)
  <2> DEFINE S == {i \in Int : idx[i] \in Int}
  <2> HIDE DEF lo, hi
  <2>1. /\ idx[lo] = 1
        /\ \A i \in (lo + 1)..hi : idx[i] = NextIdx(levels, i, idx[i - 1])
    <3>1. \A i \in lo..hi : idx[i] = IF i = lo THEN 1 ELSE NextIdx(levels, i, idx[i - 1])
      BY <1>5, Zenon
    <3>2. lo \in lo..hi /\ \A i \in (lo + 1)..hi : i \in lo..hi /\ i # lo
      BY <1>2
    <3> QED BY <3>1, <3>2
  <2>2. lo \in S
    BY <1>2, <2>1
  <2>3. ASSUME NEW i \in lo..hi, i > lo, \A j \in lo..(i - 1) : j \in S PROVE i \in S
    <3>1. i - 1 \in lo..(i - 1) /\ i \in (lo + 1)..hi
      BY <1>2, <2>3
    <3> QED BY <2>1, <2>3, <3>1 DEF NextIdx
  <2> HIDE DEF S
  <2>4. \A i \in lo..hi : i \in S
    BY <1>2, <2>2, <2>3, UpFrom
  <2>5. idx = [i \in lo..hi |-> idx[i]]
    BY <1>5, Zenon
  <2>6. \A i \in lo..hi : idx[i] \in Int
    BY <2>4 DEF S
  <2>7. idx \in [lo..hi -> Int]
    BY <2>5, <2>6
  <2> QED BY <2>1, <2>7 DEF IdxUpTo
<1> QED BY <1>1, <1>6

\* The loop stays within the levels and never goes back.
LEMMA IdxRange ==
  ASSUME NEW levels \in Seq(Int), levels # <<>>,
         NEW lo, NEW hi, lo = levels[1], hi = levels[Len(levels)], lo <= hi,
         NEW f, IdxUpTo(levels, lo, hi, f)
  PROVE  /\ \A i \in lo..hi : f[i] \in 1..Len(levels)
         /\ \A i, j \in lo..hi : i <= j => f[i] <= f[j]
<1>0. lo \in Int /\ hi \in Int /\ Len(levels) \in Nat \ {0} /\ lo \in lo..hi
  OBVIOUS
<1>1. /\ f[lo] = 1
      /\ \A i \in (lo + 1)..hi : f[i] = NextIdx(levels, i, f[i - 1])
  BY DEF IdxUpTo
<1>2. \A i \in lo..hi : i > lo => i \in (lo + 1)..hi /\ i - 1 \in lo..hi /\ i - 1 \in lo..(i - 1)
  BY <1>0
<1> DEFINE S == {i \in Int : f[i] \in 1..Len(levels)}
<1>3. lo \in S
  BY <1>0, <1>1
<1>4. ASSUME NEW i \in lo..hi, i > lo, \A j \in lo..(i - 1) : j \in S PROVE i \in S
  <2>1. i - 1 \in S /\ f[i] = NextIdx(levels, i, f[i - 1])
    BY <1>1, <1>2, <1>4
  <2>2. f[i - 1] \in 1..Len(levels)
    BY <2>1
  <2>3. f[i - 1] = Len(levels) => levels[f[i - 1]] # i - 1
    BY <1>0
  <2>4. NextIdx(levels, i, f[i - 1]) \in 1..Len(levels)
    BY <1>0, <2>2, <2>3 DEF NextIdx
  <2> QED BY <2>1, <2>4
<1> HIDE DEF S
<1>5. \A i \in lo..hi : i \in S
  BY <1>0, <1>3, <1>4, UpFrom
<1>6. \A i \in lo..hi : f[i] \in 1..Len(levels)
  BY <1>5 DEF S
<1>7. ASSUME NEW i \in lo..hi PROVE \A j \in lo..hi : i <= j => f[i] <= f[j]
  <2> DEFINE U == {j \in Int : i <= j => f[i] <= f[j]}
  <2>1. lo \in U
    BY <1>0, <1>6
  <2>2. ASSUME NEW j \in lo..hi, j > lo, \A k \in lo..(j - 1) : k \in U PROVE j \in U
    <3>1. j - 1 \in U /\ f[j] = NextIdx(levels, j, f[j - 1])
      BY <1>1, <1>2, <2>2
    <3>2. f[j - 1] \in Int /\ f[i] \in Int /\ f[j] \in Int
      BY <1>2, <1>6, <2>2
    <3>3. f[j - 1] <= f[j]
      BY <3>1, <3>2 DEF NextIdx
    <3>4. CASE i <= j - 1
      BY <3>1, <3>2, <3>3, <3>4
    <3>5. CASE ~(i <= j - 1)
      <4>1. i <= j => i = j
        BY <3>5
      <4> QED BY <3>2, <4>1
    <3> QED BY <3>4, <3>5
  <2> HIDE DEF U
  <2>3. \A j \in lo..hi : j \in U
    BY <1>0, <2>1, <2>2, UpFrom
  <2> QED BY <2>3 DEF U
<1> QED BY <1>6, <1>7

\* The mapping runs from the lowest to the highest level, and does not fall.
Rises(m, lo, hi) ==
  /\ lo \in Int /\ hi \in Int /\ lo <= hi
  /\ DOMAIN m = lo..hi
  /\ Lowest(m) = lo /\ Highest(m) = hi
  /\ \A i \in lo..hi : m[i] \in Int
  /\ \A i, j \in lo..hi : i <= j => m[i] <= m[j]
  /\ m[lo] = lo /\ m[hi] <= hi

LEMMA MappingRises ==
  ASSUME NEW levels \in Seq(Int), IsSorted(levels), levels # <<>>
  PROVE  Rises(CreateNotificationMapping(levels), levels[1], levels[Len(levels)])
<1> DEFINE lo == levels[1]
           hi == levels[Len(levels)]
           m == CreateNotificationMapping(levels)
<1>1. Len(levels) \in Nat \ {0} /\ lo \in Int /\ hi \in Int /\ lo <= hi
  <2>1. Len(levels) \in Nat \ {0} /\ lo \in Int /\ hi \in Int
    OBVIOUS
  <2>2. CASE Len(levels) = 1
    BY <2>1, <2>2
  <2>3. CASE Len(levels) # 1
    <3>1. \A n \in Nat \ {0} : n # 1 => 1 \in 1..n /\ n \in 1..n /\ 1 < n
      OBVIOUS
    <3>2. 1 \in 1..Len(levels) /\ Len(levels) \in 1..Len(levels) /\ 1 < Len(levels)
      BY <2>1, <2>3, <3>1
    <3> QED BY <2>1, <3>2 DEF IsSorted
  <2> QED BY <2>1, <2>2, <2>3
<1>2. PICK f : IdxUpTo(levels, lo, hi, f) /\ m = [i \in lo..hi |-> levels[f[i]]]
  BY <1>1, MappingLoop
<1>3. /\ \A i \in lo..hi : f[i] \in 1..Len(levels)
      /\ \A i, j \in lo..hi : i <= j => f[i] <= f[j]
  BY <1>1, <1>2, IdxRange
<1>4. /\ DOMAIN m = lo..hi
      /\ \A i \in lo..hi : m[i] = levels[f[i]]
  BY <1>2
<1>5. \A i \in lo..hi : m[i] \in Int
  BY <1>3, <1>4
<1>6. \A i, j \in lo..hi : i <= j => m[i] <= m[j]
  <2> TAKE i, j \in lo..hi
  <2> HAVE i <= j
  <2>1. f[i] \in 1..Len(levels) /\ f[j] \in 1..Len(levels) /\ f[i] <= f[j]
    BY <1>3
  <2>2. CASE f[i] = f[j]
    BY <1>4, <1>5, <2>2
  <2>3. CASE f[i] # f[j]
    BY <1>4, <2>1, <2>3 DEF IsSorted
  <2> QED BY <2>2, <2>3
<1>9. m[lo] = lo /\ m[hi] <= hi
  <2>1. f[lo] = 1 /\ lo \in lo..hi /\ hi \in lo..hi
    BY <1>1, <1>2 DEF IdxUpTo
  <2>2. m[lo] = lo
    BY <1>4, <2>1
  <2>3. f[hi] \in 1..Len(levels) /\ m[hi] = levels[f[hi]]
    BY <1>3, <1>4, <2>1
  <2>4. CASE f[hi] = Len(levels)
    BY <1>1, <2>2, <2>3, <2>4
  <2>5. CASE f[hi] # Len(levels)
    <3>1. f[hi] < Len(levels) /\ Len(levels) \in 1..Len(levels)
      BY <1>1, <2>3, <2>5
    <3> QED BY <2>2, <2>3, <3>1 DEF IsSorted
  <2> QED BY <2>2, <2>4, <2>5
<1> HIDE DEF m, lo, hi
<1>7. Lowest(m) = lo
  <2>1. \A i : (i \in DOMAIN m /\ \A j \in DOMAIN m : i <= j) <=> i = lo
    BY <1>1, <1>4
  <2> QED BY <2>1 DEF Lowest
<1>8. Highest(m) = hi
  <2>1. \A i \in lo..hi : (\A j \in lo..hi : j <= i) <=> i = hi
    BY <1>1
  <2>2. hi \in lo..hi /\ DOMAIN m = lo..hi
    BY <1>1, <1>4
  <2> QED BY <2>1, <2>2 DEF Highest
<1> QED BY <1>1, <1>4, <1>5, <1>6, <1>7, <1>8, <1>9 DEF Rises, m, lo, hi

\* Of levels that differ, the one of a percentage is the nearest that is not below it.
LEMMA IdxNearest ==
  ASSUME NEW levels \in Seq(Int), levels # <<>>,
         \A i, j \in 1..Len(levels) : i < j => levels[i] < levels[j],
         NEW lo, NEW hi, lo = levels[1], hi = levels[Len(levels)], lo <= hi,
         NEW f, IdxUpTo(levels, lo, hi, f)
  PROVE  \A i \in lo..hi : /\ i <= levels[f[i]]
                           /\ f[i] > 1 => levels[f[i] - 1] < i
<1>0. lo \in Int /\ hi \in Int /\ Len(levels) \in Nat \ {0} /\ lo \in lo..hi
  OBVIOUS
<1>1. /\ f[lo] = 1
      /\ \A i \in (lo + 1)..hi : f[i] = NextIdx(levels, i, f[i - 1])
  BY DEF IdxUpTo
<1>2. \A i \in lo..hi : i > lo => i \in (lo + 1)..hi /\ i - 1 \in lo..hi /\ i - 1 \in lo..(i - 1)
  BY <1>0
<1>3. \A i \in lo..hi : f[i] \in 1..Len(levels)
  BY IdxRange
<1> DEFINE Near(i) == i <= levels[f[i]] /\ (f[i] > 1 => levels[f[i] - 1] < i)
           S == {i \in Int : Near(i)}
<1>4. lo \in S
  BY <1>0, <1>1
<1>5. ASSUME NEW i \in lo..hi, i > lo, \A j \in lo..(i - 1) : j \in S PROVE i \in S
  <2> DEFINE p == f[i - 1]
  <2>1. Near(i - 1) /\ f[i] = NextIdx(levels, i, p)
    BY <1>1, <1>2, <1>5
  <2>2. p \in 1..Len(levels) /\ f[i] \in 1..Len(levels)
    BY <1>2, <1>3, <1>5
  <2>3. CASE levels[p] = i - 1
    <3>1. f[i] = p + 1
      BY <2>1, <2>3 DEF NextIdx
    <3>2. levels[p] < levels[p + 1] /\ levels[p + 1] \in Int
      BY <2>2, <3>1
    <3>3. f[i] - 1 = p
      BY <2>2, <3>1
    <3> QED BY SMTT(30), <2>2, <2>3, <3>1, <3>2, <3>3
  <2>4. CASE levels[p] # i - 1
    <3>1. f[i] = p
      BY <2>1, <2>4 DEF NextIdx
    <3>2. levels[p] \in Int /\ (p > 1 => levels[p - 1] \in Int)
      BY <2>2
    <3>3. i <= levels[p]
      BY <2>1, <2>4, <3>2
    <3>4. p > 1 => levels[p - 1] < i
      BY <2>1, <3>2
    <3> QED BY <3>1, <3>3, <3>4
  <2> QED BY <2>3, <2>4
<1> HIDE DEF S
<1>6. \A i \in lo..hi : i \in S
  BY <1>0, <1>4, <1>5, UpFrom
<1> QED BY <1>6 DEF S

\* _create_notification_mapping, for any levels that differ: "the notification percentage
\* immediately above" every percentage from the lowest to the highest.
THEOREM MappingIsNearestLevel ==
  ASSUME NEW levels \in Seq(Int), levels # <<>>,
         \A i, j \in 1..Len(levels) : i < j => levels[i] < levels[j]
  PROVE  \A p \in levels[1]..levels[Len(levels)] :
           /\ \E k \in 1..Len(levels) : CreateNotificationMapping(levels)[p] = levels[k]
           /\ p <= CreateNotificationMapping(levels)[p]
           /\ \A k \in 1..Len(levels) :
                p <= levels[k] => CreateNotificationMapping(levels)[p] <= levels[k]
<1> DEFINE lo == levels[1]
           hi == levels[Len(levels)]
           m == CreateNotificationMapping(levels)
<1>1. /\ Len(levels) \in Nat \ {0} /\ lo \in Int /\ hi \in Int
      /\ \A k \in 1..Len(levels) : levels[k] \in Int
  OBVIOUS
<1> SUFFICES ASSUME NEW p \in lo..hi
             PROVE  /\ \E k \in 1..Len(levels) : m[p] = levels[k]
                    /\ p <= m[p]
                    /\ \A k \in 1..Len(levels) : p <= levels[k] => m[p] <= levels[k]
  OBVIOUS
<1>2. lo <= hi
  BY <1>1
<1>3. PICK f : IdxUpTo(levels, lo, hi, f) /\ m = [i \in lo..hi |-> levels[f[i]]]
  BY <1>2, MappingLoop
<1>4. f[p] \in 1..Len(levels) /\ m[p] = levels[f[p]]
  BY <1>2, <1>3, IdxRange
<1>5. p <= levels[f[p]] /\ (f[p] > 1 => levels[f[p] - 1] < p)
  BY <1>2, <1>3, IdxNearest
<1>6. ASSUME NEW k \in 1..Len(levels), p <= levels[k] PROVE levels[f[p]] <= levels[k]
  <2>1. CASE k = f[p]
    BY <1>1, <2>1
  <2>2. CASE k > f[p]
    BY <1>1, <1>4, <2>2
  <2>3. CASE k < f[p]
    <3>1. f[p] - 1 \in 1..Len(levels) /\ f[p] > 1
      BY <1>1, <1>4, <2>3
    <3>2. levels[k] <= levels[f[p] - 1]
      <4>1. CASE k = f[p] - 1
        BY <1>1, <4>1
      <4>2. CASE k # f[p] - 1
        <5>1. k < f[p] - 1
          BY <1>4, <2>3, <4>2
        <5> QED BY <1>1, <3>1, <5>1
      <4> QED BY <4>1, <4>2
    <3> QED BY <1>1, <1>5, <1>6, <3>1, <3>2
  <2> QED BY <1>1, <1>4, <2>1, <2>2, <2>3
<1> QED BY <1>1, <1>4, <1>5, <1>6

\* Level l is no higher than level k; above the highest one there is none.
NotAbove(l, k) == k = NoLevel \/ (l # NoLevel /\ l <= k)

LEMMA LevelMonotone ==
  ASSUME NEW levels \in Seq(Int), IsSorted(levels), NoLevel \notin Int,
         NEW p \in Int, NEW q \in Int, p <= q
  PROVE  LET m == CreateNotificationMapping(levels)
         IN  /\ GetNotificationLevel(m, p) \in Int \cup {NoLevel}
             /\ GetNotificationLevel(m, q) \in Int \cup {NoLevel}
             /\ NotAbove(GetNotificationLevel(m, p), GetNotificationLevel(m, q))
<1> DEFINE m == CreateNotificationMapping(levels)
           lo == levels[1]
           hi == levels[Len(levels)]
<1>1. CASE levels = <<>>
  <2>1. DOMAIN m = {}
    BY <1>1 DEF CreateNotificationMapping
  <2> QED BY <2>1 DEF GetNotificationLevel, NotAbove
<1>2. CASE levels # <<>>
  <2>1. Rises(m, lo, hi)
    BY <1>2, MappingRises
  <2> HIDE DEF m, lo, hi
  <2>2. /\ lo \in Int /\ hi \in Int /\ lo <= hi /\ DOMAIN m # {}
        /\ Lowest(m) = lo /\ Highest(m) = hi /\ m[lo] = lo /\ m[hi] <= hi
        /\ \A i \in lo..hi : m[i] \in Int
        /\ \A i, j \in lo..hi : i <= j => m[i] <= m[j]
    BY <2>1 DEF Rises
  <2>3. \A x : GetNotificationLevel(m, x) = IF x < lo THEN lo ELSE IF x > m[hi] THEN NoLevel ELSE m[x]
    BY <2>2 DEF GetNotificationLevel
  <2>4. lo \in lo..hi /\ hi \in lo..hi /\ m[hi] \in Int
    BY <2>2
  <2>5. \A x \in Int : ~(x < lo) /\ ~(x > m[hi]) => x \in lo..hi
    BY <2>2, <2>4
  <2>6. \A x \in lo..hi : lo <= m[x]
    BY <2>2, <2>4
  <2>7. \A x \in Int : GetNotificationLevel(m, x) \in Int \cup {NoLevel}
    BY <2>2, <2>3, <2>5
  <2>8. NotAbove(GetNotificationLevel(m, p), GetNotificationLevel(m, q))
    <3>1. CASE q > m[hi]
      <4>1. ~(q < lo)
        BY <2>2, <2>4, <2>6, <3>1
      <4> QED BY <2>3, <3>1, <4>1 DEF NotAbove
    <3>2. CASE ~(q > m[hi])
      <4>1. ~(p > m[hi])
        BY <2>4, <3>2
      <4>2. CASE p < lo
        <5>1. GetNotificationLevel(m, p) = lo
          BY <2>3, <4>2
        <5>2. \/ GetNotificationLevel(m, q) = lo
              \/ GetNotificationLevel(m, q) \in Int /\ lo <= GetNotificationLevel(m, q)
          BY <2>2, <2>3, <2>5, <2>6, <3>2
        <5> QED BY <2>2, <5>1, <5>2 DEF NotAbove
      <4>3. CASE ~(p < lo)
        <5>1. ~(q < lo)
          BY <2>2, <4>3
        <5>2. p \in lo..hi /\ q \in lo..hi
          BY <2>5, <3>2, <4>1, <4>3, <5>1
        <5>3. m[p] <= m[q] /\ m[p] \in Int
          BY <2>2, <5>2
        <5> QED BY <2>3, <3>2, <4>1, <4>3, <5>1, <5>3 DEF NotAbove
      <4> QED BY <4>2, <4>3
    <3> QED BY <3>1, <3>2
  <2> QED BY <2>7, <2>8 DEF m
<1> QED BY <1>1, <1>2

\* _ceil_percent does not fall as the balance rises.
LEMMA DivMonotone ==
  ASSUME NEW x \in Int, NEW y \in Int, NEW d \in Nat \ {0}, x <= y
  PROVE  x \div d <= y \div d /\ x \div d \in Int
<1>1. /\ x \div d \in Int /\ y \div d \in Int
      /\ d * (x \div d) <= x /\ y < d * (y \div d) + d
  OBVIOUS
<1>2. ASSUME NEW q \in Int, NEW p \in Int, q < p PROVE d * q + d <= d * p
  <2>1. \A n \in Nat : 0 <= d * n
    OBVIOUS
  <2>2. 0 <= d * (p - q - 1)
    BY <1>2, <2>1
  <2>3. d * (p - q - 1) = d * p - d * q - d
    OBVIOUS
  <2> QED BY <2>2, <2>3
<1> QED BY <1>1, <1>2

LEMMA CeilMonotone ==
  ASSUME NEW a \in Int, NEW b \in Int, NEW den \in Nat \ {0}, a <= b
  PROVE  /\ CeilPercent(a, den) <= CeilPercent(b, den)
         /\ CeilPercent(a, den) \in Int /\ CeilPercent(b, den) \in Int
<1>1. /\ -(b * 100) <= -(a * 100) /\ -(a * 100) \in Int /\ -(b * 100) \in Int
      /\ den > 0
  OBVIOUS
<1>2. CeilPercent(a, den) = -((-(a * 100)) \div den) /\ CeilPercent(b, den) = -((-(b * 100)) \div den)
  BY <1>1 DEF CeilPercent
<1>3. (-(b * 100)) \div den <= (-(a * 100)) \div den /\ (-(b * 100)) \div den \in Int
      /\ (-(a * 100)) \div den \in Int
  BY <1>1, DivMonotone
<1> QED BY <1>2, <1>3

-----------------------------------------------------------------------------
(* What each step of a charge does to the amounts *)

\* A step of r changes nothing of the other requests; some of them get a connection.
Steady(r) ==
  /\ topup' = topup
  /\ \A d \in Requests \ {r} :
       /\ \/ pc'[d] = pc[d]
          \/ pc[d] \in Queued /\ pc'[d] \in {"get_cost", "cost_query", "ping"}
       /\ credit_amount'[d] = credit_amount[d]
       /\ last_topup_balance'[d] = last_topup_balance[d]
       /\ new_balance'[d] = new_balance[d]
       /\ inserted'[d] = inserted[d]
       /\ result'[d] = result[d]
       /\ reply'[d] = reply[d]

\* r is rejected, or its interaction fails and is rolled back.
Ends(r) ==
  /\ pc[r] \in {"idle"} \cup (InTransaction \ {"queued_cost"}) /\ pc'[r] = "answered"
  /\ pc[r] \in {"insert", "update", "commit"} => Faults
  /\ pc[r] = "notify" => Faults \/ DOMAIN mapping = {}
  /\ ~inserted'[r] /\ ~reply'[r].credit_cutoff_reached
  /\ \A a \in Accounts : row_lock'[a] = IF row_lock[a] = r THEN NoRequest ELSE row_lock[a]
  /\ UNCHANGED <<balance, notified>>

\* r asks for a connection, or learns its cost.
Prepares(r) ==
  /\ pc[r] \in {"idle", "get_cost", "cost_query"}
  /\ pc'[r] \in {"get_cost", "queued", "cost_query", "queued_cost", "select"}
  /\ pc'[r] = "select" => pc[r] = "cost_query"
  /\ UNCHANGED <<balance, notified, row_lock, inserted, result, reply>>

Selects(r) ==
  /\ pc[r] = "select" /\ AccountOf[r] \in Accounts /\ ~IndexError(r)
  /\ pc'[r] = IF Refused(r) THEN "commit" ELSE "insert"
  /\ last_topup_balance'[r] = topup[AccountOf[r]]
  /\ result'[r] = IF Refused(r) THEN Ok(FALSE, TRUE) ELSE result[r]
  /\ UNCHANGED <<balance, notified, row_lock, inserted, reply>>

Inserts(r) ==
  /\ pc[r] = "insert" /\ pc'[r] = "update" /\ inserted'[r]
  /\ UNCHANGED <<balance, notified, row_lock, last_topup_balance, result, reply>>

Updates(r) ==
  /\ pc[r] = "update" /\ pc'[r] = "notify" /\ AccountOf[r] \in Accounts
  /\ row_lock[AccountOf[r]] = NoRequest
  /\ \A a \in Accounts : row_lock'[a] = IF a = AccountOf[r] THEN r ELSE row_lock[a]
  /\ UNCHANGED <<balance, notified, last_topup_balance, inserted, result, reply>>

Level(r) == CheckAllLowCreditThresholds(mapping, new_balance[r], credit_amount[r],
                                        last_topup_balance[r])
Notice(r) == [level |-> Level(r), request |-> r,
              cutoff_notification |-> Level(r) = mapping[Lowest(mapping)]]

Notifies(r) ==
  /\ pc[r] = "notify" /\ pc'[r] = "commit" /\ ~IndexError(r)
  /\ notified' = IF ENABLE_LOW_CREDIT_NOTIFICATION /\ Level(r) # NoLevel
                 THEN [notified EXCEPT ![AccountOf[r]] = Append(@, Notice(r))]
                 ELSE notified
  /\ result'[r].credit_cutoff_reached <=>
       /\ ENABLE_LOW_CREDIT_CUTOFF
       /\ CutoffReached(mapping, new_balance[r], last_topup_balance[r])
  /\ UNCHANGED <<balance, row_lock, last_topup_balance, new_balance, inserted, reply>>

Commits(r) ==
  /\ pc[r] = "commit" /\ pc'[r] = "render" /\ AccountOf[r] \in Accounts
  /\ inserted[r] => /\ credit_amount[r] \in CreditCosts \ {NoCost}
                    /\ new_balance[r] = balance[AccountOf[r]] - credit_amount[r]
                    /\ balance' = [balance EXCEPT ![AccountOf[r]] = new_balance[r]]
  /\ ~inserted[r] => balance' = balance
  /\ \A a \in Accounts : row_lock'[a] = IF row_lock[a] = r THEN NoRequest ELSE row_lock[a]
  /\ ~inserted'[r]
  /\ UNCHANGED <<notified, last_topup_balance, new_balance, result, reply>>

Answers(r) ==
  /\ pc[r] = "render" /\ pc'[r] = "answered"
  /\ reply'[r] = result[r]
  /\ UNCHANGED <<balance, notified, row_lock, last_topup_balance, inserted, result>>

MoneyStep(r) ==
  Steady(r) /\ (Ends(r) \/ Prepares(r) \/ Selects(r) \/ Inserts(r) \/ Updates(r)
                \/ Notifies(r) \/ Commits(r) \/ Answers(r))

LEMMA ChargeMoves ==
  ASSUME IInv, NEW r \in Requests, Charge(r)
  PROVE  MoneyStep(r)
<1>0. /\ r \in Callers /\ TypeOK /\ QueueInv /\ KnownInv /\ Shift(r) /\ RowOf(r)
      /\ \A a \in Accounts : HolderOf(a)
  BY ChargeShift DEF IInv, LockInv, Callers
<1>1. Requests \subseteq Callers /\ NoRequest \notin Requests
  BY BillingApiAssumption DEF Callers
<1> USE DEF local, db, account, history
<1>2. ASSUME Rollback(r), pc[r] \in InTransaction \ {"queued_cost"},
             pc[r] \in {"insert", "update", "commit"} => Faults,
             pc[r] = "notify" => Faults \/ DOMAIN mapping = {},
             UNCHANGED <<credit_amount, last_topup_balance, new_balance, result,
                         account, history, notified, django, crashes>>
      PROVE  Steady(r) /\ Ends(r)
  <2>1. pc'[r] = "answered"
    BY <1>0, <1>2 DEF Rollback, Release
  <2>2. reply'[r] = Code(500) /\ \A d \in Requests \ {r} : reply'[d] = reply[d]
    BY <1>0, <1>1, <1>2 DEF Rollback, TypeOK
  <2>3. ~inserted'[r] /\ \A d \in Requests \ {r} : inserted'[d] = inserted[d]
    BY <1>0, <1>2 DEF Rollback, TypeOK
  <2>4. Code(500).credit_cutoff_reached = FALSE
    BY DEF Code, NoReply
  <2>5. \A a \in Accounts : row_lock'[a] = IF row_lock[a] = r THEN NoRequest ELSE row_lock[a]
    BY <1>2 DEF Rollback
  <2>6. Steady(r)
    BY <1>0, <1>1, <1>2, <2>2, <2>3 DEF Steady, Shift
  <2> QED BY <1>2, <2>1, <2>2, <2>3, <2>4, <2>5, <2>6 DEF Ends
<1>3. CASE RejectPost(r)
  <2>1. pc[r] = "idle" /\ pc'[r] = "answered"
    BY <1>0, <1>3 DEF RejectPost, TypeOK
  <2>2. reply'[r] = Code(400) /\ \A d \in Requests \ {r} : reply'[d] = reply[d]
    BY <1>0, <1>1, <1>3 DEF RejectPost, TypeOK
  <2>3. UNCHANGED <<credit_amount, last_topup_balance, new_balance, inserted, result,
                    balance, topup, row_lock, notified>>
    BY <1>3 DEF RejectPost
  <2>4. Code(400).credit_cutoff_reached = FALSE
    BY DEF Code, NoReply
  <2>5. ~inserted[r]
    BY <1>0, <2>1 DEF RowOf
  <2>6. \A a \in Accounts : row_lock[a] # r
    BY <1>0, <1>1, <2>5 DEF HolderOf
  <2>7. Steady(r)
    BY <1>0, <1>1, <2>2, <2>3 DEF Steady, Shift
  <2>8. Ends(r)
    BY <2>1, <2>2, <2>3, <2>4, <2>5, <2>6 DEF Ends
  <2> QED BY <2>7, <2>8 DEF MoneyStep
<1>4. CASE RenderPost(r) \/ GetCost(r) \/ CostFound(r)
  <2>1. /\ pc[r] \in {"idle", "get_cost", "cost_query"}
        /\ pc'[r] \in {"get_cost", "queued", "cost_query", "queued_cost", "select"}
        /\ pc'[r] = "select" => pc[r] = "cost_query"
    BY <1>0, <1>4 DEF RenderPost, GetCost, CostFound, Acquire, Release, TypeOK
  <2>2. /\ UNCHANGED <<last_topup_balance, new_balance, inserted, result, reply, db, notified>>
        /\ \A d \in Requests \ {r} : credit_amount'[d] = credit_amount[d]
    BY <1>0, <1>4 DEF RenderPost, GetCost, CostFound, TypeOK
  <2>3. Steady(r)
    BY <1>0, <1>1, <2>2 DEF Steady, Shift
  <2>4. Prepares(r)
    BY <2>1, <2>2 DEF Prepares
  <2> QED BY <2>3, <2>4 DEF MoneyStep
<1>5. CASE CostMissing(r)
  BY <1>2, <1>5 DEF CostMissing, InTransaction, MoneyStep
<1>6. CASE AccountMissing(r)
  BY <1>2, <1>6 DEF AccountMissing, InTransaction, MoneyStep
<1>7. CASE MappingEmpty(r)
  BY <1>2, <1>7 DEF MappingEmpty, IndexError, InTransaction, MoneyStep
<1>8. CASE Fail(r)
  BY <1>2, <1>8 DEF Fail, MoneyStep
<1>9. CASE SelectBalance(r)
  <2>1. /\ pc[r] = "select" /\ AccountOf[r] \in Accounts /\ ~IndexError(r)
        /\ pc'[r] = IF Refused(r) THEN "commit" ELSE "insert"
        /\ last_topup_balance'[r] = topup[AccountOf[r]]
        /\ result'[r] = IF Refused(r) THEN Ok(FALSE, TRUE) ELSE result[r]
        /\ UNCHANGED <<credit_amount, new_balance, inserted, reply, db, notified>>
    BY <1>0, <1>9 DEF SelectBalance, TypeOK
  <2>2. \A d \in Requests \ {r} : last_topup_balance'[d] = last_topup_balance[d]
                                  /\ result'[d] = result[d]
    BY <1>0, <1>9 DEF SelectBalance, TypeOK
  <2>3. Steady(r)
    BY <1>0, <1>1, <2>1, <2>2 DEF Steady, Shift
  <2>4. Selects(r)
    BY <2>1 DEF Selects
  <2> QED BY <2>3, <2>4 DEF MoneyStep
<1>10. CASE InsertTransaction(r)
  <2>1. pc[r] = "insert" /\ pc'[r] = "update" /\ inserted'[r]
        /\ (\A d \in Requests \ {r} : inserted'[d] = inserted[d])
        /\ UNCHANGED <<credit_amount, last_topup_balance, new_balance, result, reply, db, notified>>
    BY <1>0, <1>10 DEF InsertTransaction, TypeOK
  <2>2. Steady(r)
    BY <1>0, <1>1, <2>1 DEF Steady, Shift
  <2> QED BY <2>1, <2>2 DEF Inserts, MoneyStep
<1>11. CASE UpdateBalance(r)
  <2>1. /\ pc[r] = "update" /\ pc'[r] = "notify" /\ row_lock[AccountOf[r]] = NoRequest
        /\ \A a \in Accounts : row_lock'[a] = IF a = AccountOf[r] THEN r ELSE row_lock[a]
        /\ \A d \in Requests \ {r} : new_balance'[d] = new_balance[d]
        /\ UNCHANGED <<credit_amount, last_topup_balance, inserted, result, reply,
                       account, notified>>
    BY <1>0, <1>11 DEF UpdateBalance, LockFree, TypeOK
  <2>2. Steady(r)
    BY <1>0, <1>1, <2>1 DEF Steady, Shift
  <2>3. AccountOf[r] \in Accounts
    BY <1>0, <2>1 DEF KnownInv
  <2>4. Updates(r)
    BY <2>1, <2>3 DEF Updates
  <2> QED BY <2>2, <2>4 DEF MoneyStep
<1>12. CASE NotifyThreshold(r)
  <2> DEFINE cutoff == /\ ENABLE_LOW_CREDIT_CUTOFF
                       /\ CutoffReached(mapping, new_balance[r], last_topup_balance[r])
  <2>1. /\ pc[r] = "notify" /\ pc'[r] = "commit" /\ ~IndexError(r)
        /\ UNCHANGED <<credit_amount, last_topup_balance, new_balance, inserted, reply, db>>
    BY <1>0, <1>12 DEF NotifyThreshold, TypeOK
  <2>2. notified' = IF ENABLE_LOW_CREDIT_NOTIFICATION /\ Level(r) # NoLevel
                    THEN [notified EXCEPT ![AccountOf[r]] = Append(@, Notice(r))]
                    ELSE notified
    BY Zenon, <1>12 DEF NotifyThreshold, Level, Notice
  <2>3. result' = [result EXCEPT ![r] = Ok(TRUE, cutoff)]
    BY Zenon, <1>12 DEF NotifyThreshold
  <2>4. Ok(TRUE, cutoff).credit_cutoff_reached = cutoff
    BY Zenon DEF Ok
  <2>5. result'[r] = Ok(TRUE, cutoff) /\ \A d \in Requests \ {r} : result'[d] = result[d]
    BY Zenon, <1>0, <2>3 DEF TypeOK
  <2>6. result'[r].credit_cutoff_reached <=> cutoff
    BY Zenon, <2>4, <2>5
  <2>7. Steady(r)
    BY <1>0, <1>1, <2>1, <2>5 DEF Steady, Shift
  <2>8. Notifies(r)
    BY Zenon, <2>1, <2>2, <2>6 DEF Notifies
  <2> QED BY <2>7, <2>8 DEF MoneyStep
<1>13. CASE Commit(r)
  <2> DEFINE a == AccountOf[r]
  <2>1. pc[r] = "commit" /\ pc'[r] = "render" /\ a \in Accounts
    BY <1>0, <1>13 DEF Commit, Release, KnownInv
  <2>2. inserted[r] => row_lock[a] = r /\ new_balance[r] = balance[a] - credit_amount[r]
    BY <1>0, <2>1 DEF RowOf
  <2>3. row_lock[a] = r => inserted[r]
    BY <1>0, <1>1, <2>1 DEF HolderOf
  <2>4. /\ balance' = IF row_lock[a] = r THEN [balance EXCEPT ![a] = new_balance[r]] ELSE balance
        /\ row_lock' = IF row_lock[a] = r THEN [row_lock EXCEPT ![a] = NoRequest] ELSE row_lock
        /\ inserted' = [inserted EXCEPT ![r] = FALSE]
        /\ UNCHANGED <<credit_amount, last_topup_balance, new_balance, result, reply, topup, notified>>
    BY Zenon, <1>13 DEF Commit
  <2>5. \A b \in Accounts : row_lock'[b] = IF row_lock[b] = r THEN NoRequest ELSE row_lock[b]
    <3> TAKE b \in Accounts
    <3>1. row_lock[b] = r => b = a
      BY <1>0, <1>1 DEF HolderOf
    <3> QED BY <1>0, <2>1, <2>4, <3>1 DEF TypeOK
  <2>6. ~inserted'[r] /\ \A d \in Requests \ {r} : inserted'[d] = inserted[d]
    BY <1>0, <2>4 DEF TypeOK
  <2>7. Steady(r)
    BY <1>0, <1>1, <2>4, <2>6 DEF Steady, Shift
  <2>8. credit_amount[r] \in CreditCosts \ {NoCost}
    BY <1>0, <2>1 DEF KnownInv
  <2>9. Commits(r)
    BY <2>1, <2>2, <2>3, <2>4, <2>5, <2>6, <2>8 DEF Commits
  <2> QED BY <2>7, <2>9 DEF MoneyStep
<1>14. CASE RenderToJson(r)
  <2>1. pc[r] = "render" /\ pc'[r] = "answered" /\ reply'[r] = result[r]
        /\ (\A d \in Requests \ {r} : reply'[d] = reply[d])
        /\ UNCHANGED <<local, db, notified>>
    BY <1>0, <1>1, <1>14 DEF RenderToJson, TypeOK
  <2>2. Steady(r)
    BY <1>0, <1>1, <2>1 DEF Steady, Shift
  <2> QED BY <2>1, <2>2 DEF Answers, MoneyStep
<1> QED BY <1>3, <1>4, <1>5, <1>6, <1>7, <1>8, <1>9, <1>10, <1>11, <1>12, <1>13, <1>14
        DEF Charge

-----------------------------------------------------------------------------
(* The cutoff, while no credits are loaded *)

\* No top-up happens, no message costs less than nothing, and no top-up so far left
\* an account overdrawn.
NothingLoaded ==
  /\ TopUps = {}
  /\ CreditCosts \ {NoCost} \subseteq Nat
  /\ \A a \in Accounts : OpeningTopup[a] \in Nat

LevelsGiven == LOW_CREDIT_NOTIFICATION_PERCENTAGES # <<>>

\* With no level there is no mapping, with one the limit is the lowest.
LEMMA LimitFact ==
  /\ ~LevelsGiven => DOMAIN mapping = {}
  /\ LevelsGiven => DOMAIN mapping # {} /\ mapping[Lowest(mapping)] \in Int
<1>1. ~LevelsGiven => DOMAIN mapping = {}
  BY DEF LevelsGiven, mapping, CreateNotificationMapping
<1>2. ASSUME LevelsGiven PROVE DOMAIN mapping # {} /\ mapping[Lowest(mapping)] \in Int
  <2> DEFINE lo == LOW_CREDIT_NOTIFICATION_PERCENTAGES[1]
             hi == LOW_CREDIT_NOTIFICATION_PERCENTAGES[Len(LOW_CREDIT_NOTIFICATION_PERCENTAGES)]
  <2>1. Rises(mapping, lo, hi)
    BY <1>2, BillingApiAssumption, MappingRises DEF LevelsGiven, mapping
  <2> HIDE DEF lo, hi
  <2> QED BY <2>1 DEF Rises
<1> QED BY <1>1, <1>2

\* Who is under the limit stays there with less.
LEMMA CutoffMonotone ==
  ASSUME LevelsGiven, NEW b \in Int, NEW c \in Int, NEW t \in Nat, c <= b,
         CutoffReached(mapping, b, t)
  PROVE  CutoffReached(mapping, c, t)
<1>1. t \in Nat \ {0} /\ CeilPercent(b, t) < mapping[Lowest(mapping)]
  BY DEF CutoffReached
<1>2. /\ CeilPercent(c, t) <= CeilPercent(b, t)
      /\ CeilPercent(c, t) \in Int /\ CeilPercent(b, t) \in Int
  BY <1>1, CeilMonotone
<1>3. mapping[Lowest(mapping)] \in Int
  BY LimitFact
<1>4. CeilPercent(c, t) < mapping[Lowest(mapping)]
  BY <1>1, <1>2, <1>3
<1> QED BY <1>1, <1>4 DEF CutoffReached

\* The account of r is known, and with balance b it is under the limit.
Under(r, b) ==
  /\ AccountOf[r] \in Accounts
  /\ ENABLE_LOW_CREDIT_CUTOFF /\ LevelsGiven
  /\ CutoffReached(mapping, b, topup[AccountOf[r]])

\* What r was told of the cutoff is true of the balance it leaves behind.
ToldOf(r) ==
  /\ pc[r] \in {"insert", "update", "notify", "commit"} =>
       last_topup_balance[r] = topup[AccountOf[r]]
  /\ pc[r] = "commit" /\ result[r].credit_cutoff_reached =>
       Under(r, IF inserted[r] THEN new_balance[r] ELSE balance[AccountOf[r]])
  /\ pc[r] = "render" /\ result[r].credit_cutoff_reached =>
       Under(r, balance[AccountOf[r]])
  /\ reply[r].credit_cutoff_reached => Under(r, balance[AccountOf[r]])

ToldInv == topup = OpeningTopup /\ \A r \in Requests : ToldOf(r)

\* A step after which no account has more.
Falls == topup' = topup /\ \A a \in Accounts : balance'[a] <= balance[a]

LEMMA UnderStays ==
  ASSUME TypeOK, TypeOK', NothingLoaded, topup = OpeningTopup, Falls,
         NEW r \in Requests, Under(r, balance[AccountOf[r]])
  PROVE  Under(r, balance[AccountOf[r]])'
<1>1. /\ AccountOf[r] \in Accounts
      /\ balance[AccountOf[r]] \in Int /\ balance'[AccountOf[r]] \in Int
      /\ topup[AccountOf[r]] \in Nat
  BY DEF Under, TypeOK, NothingLoaded
<1>2. topup' = topup /\ balance'[AccountOf[r]] <= balance[AccountOf[r]]
  BY <1>1 DEF Falls
<1>3. CutoffReached(mapping, balance'[AccountOf[r]], topup[AccountOf[r]])
  BY <1>1, <1>2, CutoffMonotone DEF Under
<1> QED BY <1>2, <1>3 DEF Under

\* What was said of d stays true when its own variables do not change.
LEMMA ToldStays ==
  ASSUME TypeOK, TypeOK', NothingLoaded, topup = OpeningTopup, Falls,
         NEW d \in Requests, ToldOf(d),
         \/ pc'[d] = pc[d]
         \/ pc'[d] \notin {"insert", "update", "notify", "commit", "render"},
         last_topup_balance'[d] = last_topup_balance[d],
         new_balance'[d] = new_balance[d], inserted'[d] = inserted[d],
         result'[d] = result[d],
         \/ reply'[d] = reply[d] \/ ~reply'[d].credit_cutoff_reached
  PROVE  ToldOf(d)'
<1>1. Under(d, balance[AccountOf[d]]) => Under(d, balance[AccountOf[d]])'
  BY UnderStays
<1>2. Under(d, new_balance[d]) => Under(d, new_balance[d])'
  BY DEF Under, Falls
<1>3. topup' = topup
  BY DEF Falls
<1>4. reply'[d].credit_cutoff_reached => Under(d, balance[AccountOf[d]])'
  BY <1>1 DEF ToldOf
<1>5. pc'[d] \in {"insert", "update", "notify", "commit"} =>
        last_topup_balance'[d] = topup'[AccountOf[d]]
  BY <1>3 DEF ToldOf
<1>6. pc'[d] = "commit" /\ result'[d].credit_cutoff_reached =>
        Under(d, IF inserted[d] THEN new_balance[d] ELSE balance[AccountOf[d]])'
  BY <1>1, <1>2 DEF ToldOf
<1>7. pc'[d] = "render" /\ result'[d].credit_cutoff_reached => Under(d, balance[AccountOf[d]])'
  BY <1>1 DEF ToldOf
<1> QED BY <1>4, <1>5, <1>6, <1>7 DEF ToldOf

LEMMA ChargeFalls ==
  ASSUME IInv, NothingLoaded, NEW r \in Requests, MoneyStep(r)
  PROVE  Falls
<1>1. TypeOK
  BY DEF IInv
<1>2. CASE Commits(r) /\ inserted[r]
  <2>1. credit_amount[r] \in Nat /\ AccountOf[r] \in Accounts
        /\ balance' = [balance EXCEPT ![AccountOf[r]] = balance[AccountOf[r]] - credit_amount[r]]
    BY <1>2 DEF Commits, NothingLoaded
  <2>2. \A a \in Accounts : balance[a] \in Int
    BY <1>1 DEF TypeOK
  <2>3. \A a \in Accounts : balance'[a] <= balance[a]
    BY <1>1, <2>1, <2>2 DEF TypeOK
  <2> QED BY <2>3 DEF Falls, MoneyStep, Steady
<1>3. CASE ~(Commits(r) /\ inserted[r])
  <2>1. balance' = balance
    BY <1>3 DEF MoneyStep, Ends, Prepares, Selects, Inserts, Updates, Notifies, Commits, Answers
  <2>2. \A a \in Accounts : balance[a] \in Int
    BY <1>1 DEF TypeOK
  <2> QED BY <2>1, <2>2 DEF Falls, MoneyStep, Steady
<1> QED BY <1>2, <1>3

LEMMA ChargeTold ==
  ASSUME IInv, IInv', NothingLoaded, ToldInv, NEW r \in Requests, MoneyStep(r)
  PROVE  ToldInv'
<1>1. TypeOK /\ TypeOK' /\ topup = OpeningTopup /\ Falls /\ topup' = topup
  BY ChargeFalls DEF IInv, ToldInv, MoneyStep, Steady
<1>2. \A d \in Requests : ToldOf(d)
  BY DEF ToldInv
<1>3. ASSUME NEW d \in Requests \ {r} PROVE ToldOf(d)'
  BY <1>1, <1>2, ToldStays DEF MoneyStep, Steady, Queued
<1>4. Under(r, balance[AccountOf[r]]) => Under(r, balance[AccountOf[r]])'
  BY <1>1, UnderStays
<1>5. ToldOf(r)
  BY <1>2
<1>6. ASSUME Ends(r) PROVE ToldOf(r)'
  BY <1>4, <1>5, <1>6 DEF ToldOf, Ends
<1>7. ASSUME Prepares(r) PROVE ToldOf(r)'
  BY <1>4, <1>5, <1>7 DEF ToldOf, Prepares
<1>8. ASSUME Selects(r) PROVE ToldOf(r)'
  <2>1. CASE Refused(r)
    <3>1. Under(r, balance[AccountOf[r]])
      <4>1. /\ DirectionOf[r] = "Outbound" /\ ENABLE_LOW_CREDIT_CUTOFF
            /\ CutoffReached(mapping, balance[AccountOf[r]], topup[AccountOf[r]])
        BY <2>1 DEF Refused, Cutoff
      <4>2. AccountOf[r] \in Accounts /\ DOMAIN mapping # {}
        BY <1>8, <4>1 DEF Selects, IndexError, CutoffReached
      <4>3. LevelsGiven
        BY <4>2, LimitFact
      <4> QED BY <4>1, <4>2, <4>3 DEF Under
    <3>2. ~inserted[r]
      BY <1>8 DEF Selects, IInv, LockInv, RowOf
    <3> QED BY <1>1, <1>4, <1>5, <1>8, <2>1, <3>1, <3>2 DEF ToldOf, Selects
  <2>2. CASE ~Refused(r)
    BY <1>1, <1>4, <1>5, <1>8, <2>2 DEF ToldOf, Selects
  <2> QED BY <2>1, <2>2
<1>9. ASSUME Inserts(r) \/ Updates(r) PROVE ToldOf(r)'
  BY <1>1, <1>4, <1>5, <1>9 DEF ToldOf, Inserts, Updates
<1>10. ASSUME Notifies(r) PROVE ToldOf(r)'
  <2>1. inserted[r] /\ AccountOf[r] \in Accounts /\ last_topup_balance[r] = topup[AccountOf[r]]
    BY <1>5, <1>10 DEF Notifies, IInv, LockInv, RowOf, KnownInv, ToldOf
  <2>2. result'[r].credit_cutoff_reached => Under(r, new_balance[r])
    <3> SUFFICES ASSUME result'[r].credit_cutoff_reached PROVE Under(r, new_balance[r])
      OBVIOUS
    <3>1. ENABLE_LOW_CREDIT_CUTOFF /\ CutoffReached(mapping, new_balance[r], last_topup_balance[r])
      BY <1>10 DEF Notifies
    <3>2. DOMAIN mapping # {}
      BY <1>10, <3>1 DEF Notifies, IndexError, CutoffReached
    <3>3. LevelsGiven
      BY <3>2, LimitFact
    <3> QED BY <2>1, <3>1, <3>3 DEF Under
  <2>3. result'[r].credit_cutoff_reached => Under(r, new_balance[r])'
    BY <1>1, <1>10, <2>2 DEF Under, Notifies
  <2> QED BY <1>1, <1>4, <1>5, <1>10, <2>1, <2>3 DEF ToldOf, Notifies
<1>11. ASSUME Commits(r) PROVE ToldOf(r)'
  <2>1. result'[r].credit_cutoff_reached => Under(r, balance[AccountOf[r]])'
    <3> SUFFICES ASSUME result'[r].credit_cutoff_reached PROVE Under(r, balance[AccountOf[r]])'
      OBVIOUS
    <3>1. Under(r, IF inserted[r] THEN new_balance[r] ELSE balance[AccountOf[r]])
      BY <1>5, <1>11 DEF ToldOf, Commits
    <3>2. CASE inserted[r]
      <4>1. balance'[AccountOf[r]] = new_balance[r]
        BY <1>1, <1>11, <3>2 DEF Commits, TypeOK
      <4> QED BY <1>1, <3>1, <3>2, <4>1 DEF Under
    <3>3. CASE ~inserted[r]
      BY <1>4, <3>1, <3>3
    <3> QED BY <3>2, <3>3
  <2> QED BY <1>1, <1>4, <1>5, <1>11, <2>1 DEF ToldOf, Commits
<1>12. ASSUME Answers(r) PROVE ToldOf(r)'
  BY <1>1, <1>4, <1>5, <1>12 DEF ToldOf, Answers
<1>13. ToldOf(r)'
  BY <1>6, <1>7, <1>8, <1>9, <1>10, <1>11, <1>12 DEF MoneyStep
<1>14. topup' = OpeningTopup
  BY <1>1
<1> QED BY <1>3, <1>13, <1>14 DEF ToldInv

LEMMA ToldStep ==
  ASSUME NothingLoaded
  PROVE  IInv /\ IInv' /\ ToldInv /\ [Next]_vars => ToldInv' /\ Falls
<1> SUFFICES ASSUME IInv, IInv', ToldInv, [Next]_vars PROVE ToldInv' /\ Falls
  OBVIOUS
<1>0. TypeOK /\ TypeOK' /\ QueueInv /\ topup = OpeningTopup
      /\ Requests \subseteq Callers /\ Requests \cap Probes = {}
  BY BillingApiAssumption DEF IInv, ToldInv, Callers
<1>1. CASE \E r \in Requests : Charge(r)
  <2> PICK r \in Requests : Charge(r)
    BY <1>1
  <2> QED BY ChargeMoves, ChargeTold, ChargeFalls
<1>2. ASSUME UNCHANGED <<account, last_topup_balance, new_balance, result>>,
             \A d \in Requests : /\ \/ pc'[d] = pc[d]
                                    \/ pc'[d] \notin {"insert", "update", "notify", "commit", "render"}
                                 /\ reply'[d] = reply[d]
                                 /\ inserted'[d] = inserted[d] \/ pc'[d] = "lost"
      PROVE  ToldInv' /\ Falls
  <2>1. Falls
    <3>1. \A a \in Accounts : balance[a] \in Int
      BY <1>0 DEF TypeOK
    <3> QED BY <1>2, <3>1 DEF Falls, account
  <2>2. ASSUME NEW d \in Requests PROVE ToldOf(d)'
    <3>1. CASE inserted'[d] = inserted[d]
      BY <1>0, <1>2, <2>1, <3>1, ToldStays DEF ToldInv
    <3>2. CASE pc'[d] = "lost"
      <4>1. ToldOf(d) /\ (Under(d, balance[AccountOf[d]]) => Under(d, balance[AccountOf[d]])')
        BY <1>0, <2>1, UnderStays DEF ToldInv
      <4> QED BY <1>2, <3>2, <4>1 DEF ToldOf
    <3> QED BY <1>2, <3>1, <3>2
  <2> QED BY <1>0, <1>2, <2>1, <2>2 DEF ToldInv, account
<1>3. CASE \E p \in Probes : Health(p)
  <2> PICK p \in Probes : Health(p)
    BY <1>3
  <2>1. Shift(p) /\ UNCHANGED <<local, db>>
    BY <1>0, HealthShift
  <2>2. \A d \in Requests : reply'[d] = reply[d]
    BY <1>0 DEF Health, HealthCheck, Pong, TypeOK
  <2>3. \A d \in Requests : d \in Callers \ {p}
    BY <1>0
  <2>4. \A d \in Requests : pc'[d] = pc[d] \/ pc'[d] \in {"get_cost", "cost_query", "ping"}
    BY <2>1, <2>3 DEF Shift
  <2> QED BY <1>2, <2>1, <2>2, <2>4 DEF local, db
<1>4. CASE \E t \in TopUps : Load(t)
  BY <1>4 DEF NothingLoaded
<1>5. CASE Crash
  <2>1. \A d \in Requests : pc'[d] = pc[d] \/ pc'[d] = "lost"
    BY <1>0, <1>5 DEF Crash
  <2>2. \A d \in Requests : pc[d] \in Final \cup {"idle"} => inserted[d] = FALSE
    <3>1. \A d \in Requests : pc[d] \in Final \cup {"idle"} => ~inserted[d]
      BY DEF IInv, LockInv, RowOf, Final
    <3>2. \A d \in Requests : inserted[d] \in BOOLEAN
      BY <1>0 DEF TypeOK
    <3> QED BY <3>1, <3>2
  <2>3. \A d \in Requests : inserted'[d] = inserted[d] \/ pc'[d] = "lost"
    BY <1>0, <1>5, <2>2 DEF Crash
  <2> QED BY <1>2, <1>5, <2>1, <2>3 DEF Crash
<1>6. CASE UNCHANGED vars
  BY <1>2, <1>6 DEF vars, local, db
<1> QED BY <1>1, <1>3, <1>4, <1>5, <1>6 DEF Next, Done

LEMMA ToldInit == Init => ToldInv
<1> SUFFICES ASSUME Init PROVE ToldInv
  OBVIOUS
<1>1. \A r \in Requests : pc[r] = "idle" /\ reply[r] = NoReply
  BY DEF Init, Callers
<1>2. ~NoReply.credit_cutoff_reached
  BY DEF NoReply
<1> QED BY <1>1, <1>2 DEF Init, ToldInv, ToldOf

LEMMA ToldInductive ==
  ASSUME NothingLoaded
  PROVE  Spec => [](IInv /\ ToldInv)
<1>1. Spec => []IInv
  BY Inductive
<1>2. IInv /\ IInv' /\ ToldInv /\ [Next]_vars => ToldInv'
  BY ToldStep
<1> QED BY <1>1, <1>2, ToldInit, PTL DEF Spec

-----------------------------------------------------------------------------
(* How far an account goes under the limit *)

\* No top-up, a limit that is enforced, only outbound messages, of which one costs
\* most, and no account further under the limit than PoolSize - 1 of those.
OutboundOnly ==
  /\ NothingLoaded
  /\ ENABLE_LOW_CREDIT_CUTOFF /\ LevelsGiven
  /\ \A r \in Requests : DirectionOf[r] = "Outbound"
  /\ \E c \in CreditCosts \ {NoCost} : \A d \in CreditCosts \ {NoCost} : d <= c
  /\ \A a \in Accounts :
       ~CutoffReached(mapping, OpeningBalance[a] + (PoolSize - 1) * MaxCost, OpeningTopup[a])

LEMMA MaxCostFact ==
  ASSUME OutboundOnly
  PROVE  MaxCost \in Nat /\ \A d \in CreditCosts \ {NoCost} : d \in Nat /\ d <= MaxCost
<1>1. MaxCost \in CreditCosts \ {NoCost} /\ \A d \in CreditCosts \ {NoCost} : d <= MaxCost
  BY DEF OutboundOnly, MaxCost
<1> QED BY <1>1 DEF OutboundOnly, NothingLoaded

\* Who has learnt its cost, and of them who will charge account a.
PastCost == {r \in Requests : pc[r] \in {"select", "insert", "update", "notify", "commit"}}
Charging(a) == {r \in Requests : AccountOf[r] = a /\ (pc[r] = "insert" \/ inserted[r])}

\* Two connections of a cost query make room for one that is past it: they are never
\* as many as the connections.
LEMMA RoomFact ==
  ASSUME PoolInv, NEW r \in Requests, pc[r] = "cost_query"
  PROVE  IsFiniteSet(PastCost) /\ Cardinality(PastCost) + 2 <= PoolSize
<1> DEFINE Q == {<<d, 1>> : d \in PastCost}
           f == [d \in PastCost |-> <<d, 1>>]
<1>1. IsFiniteSet(PastCost)
  BY BillingApiAssumption, FS_Subset DEF PastCost
<1>2. ExistsBijection(PastCost, Q)
  <2>1. f \in [PastCost -> Q]
    OBVIOUS
  <2>2. \A x, y \in PastCost : f[x] = f[y] => x = y
    OBVIOUS
  <2>3. \A s \in Q : \E d \in PastCost : f[d] = s
    OBVIOUS
  <2> HIDE DEF f
  <2>4. f \in Bijection(PastCost, Q)
    BY <2>1, <2>2, <2>3, Fun_IsBij
  <2> QED BY <2>4 DEF ExistsBijection
<1>3. IsFiniteSet(Q) /\ Cardinality(Q) = Cardinality(PastCost)
  BY <1>1, <1>2, FS_Bijection
<1>4. r \notin PastCost /\ r \in Callers /\ PastCost \subseteq Callers
  BY DEF PastCost, Callers
<1>5. <<r, 1>> \notin Q /\ <<r, 2>> \notin Q \cup {<<r, 1>>}
  BY <1>4
<1>6. Q \cup {<<r, 1>>} \cup {<<r, 2>>} \subseteq InUse
  <2>1. Uses(r) = 2
    BY DEF Uses
  <2>2. \A d \in PastCost : Uses(d) = 1
    BY DEF Uses, PastCost, InTransaction
  <2>3. \A d \in Callers, k \in {1, 2} : k <= Uses(d) => <<d, k>> \in InUse
    BY DEF InUse
  <2>4. 1 <= 2 /\ 2 <= 2 /\ 1 <= 1 /\ 1 \in {1, 2} /\ 2 \in {1, 2}
    OBVIOUS
  <2>5. \A d \in PastCost : <<d, 1>> \in InUse
    BY <1>4, <2>2, <2>3, <2>4
  <2>6. <<r, 1>> \in InUse /\ <<r, 2>> \in InUse
    BY <1>4, <2>1, <2>3, <2>4
  <2> QED BY <2>5, <2>6
<1> HIDE DEF Q
<1>7. /\ IsFiniteSet(Q \cup {<<r, 1>>})
      /\ Cardinality(Q \cup {<<r, 1>>}) = Cardinality(Q) + 1
  BY <1>3, <1>5, FS_AddElement
<1>8. /\ IsFiniteSet(Q \cup {<<r, 1>>} \cup {<<r, 2>>})
      /\ Cardinality(Q \cup {<<r, 1>>} \cup {<<r, 2>>}) = Cardinality(Q) + 2
  <2>1. Cardinality(Q) \in Nat
    BY <1>3, FS_CardinalityType
  <2> QED BY <1>5, <1>7, <2>1, FS_AddElement
<1>9. IsFiniteSet(InUse) /\ tokens \in Nat /\ tokens + Cardinality(InUse) = PoolSize
  BY UsesFact, SlotsFinite DEF PoolInv, PoolConserved, TypeInv, TypeOK
<1>10. Cardinality(Q) + 2 <= Cardinality(InUse)
  BY <1>6, <1>8, <1>9, FS_Subset
<1>11. Cardinality(InUse) \in Nat /\ Cardinality(PastCost) \in Nat
  BY <1>1, <1>9, FS_CardinalityType
<1> QED BY <1>1, <1>3, <1>9, <1>10, <1>11, BillingApiAssumption

\* Each of those who will charge a may take MaxCost, and no more of them will come
\* once it is under the limit.
Room(a) == balance[a] + (PoolSize - 1 - Cardinality(Charging(a))) * MaxCost
OverrunInv ==
  /\ topup = OpeningTopup
  /\ Cardinality(PastCost) <= PoolSize - 1
  /\ \A a \in Accounts : ~CutoffReached(mapping, Room(a), topup[a])

LEMMA ChargingFact ==
  ASSUME IInv, NEW a
  PROVE  /\ IsFiniteSet(PastCost) /\ Cardinality(PastCost) \in Nat
         /\ IsFiniteSet(Charging(a)) /\ Cardinality(Charging(a)) \in Nat
         /\ Charging(a) \subseteq PastCost
         /\ Cardinality(Charging(a)) <= Cardinality(PastCost)
<1>1. IsFiniteSet(PastCost)
  BY BillingApiAssumption, FS_Subset DEF PastCost
<1>2. Charging(a) \subseteq PastCost
  BY DEF Charging, PastCost, IInv, LockInv, RowOf
<1> QED BY <1>1, <1>2, FS_Subset, FS_CardinalityType

\* As RoomFact, of the successor state.
LEMMA ChargingNext ==
  ASSUME IInv', NEW a
  PROVE  /\ IsFiniteSet(PastCost') /\ Cardinality(PastCost') \in Nat
         /\ IsFiniteSet(Charging(a)') /\ Cardinality(Charging(a)') \in Nat
         /\ Charging(a)' \subseteq PastCost'
         /\ Cardinality(Charging(a)') <= Cardinality(PastCost')
<1>1. IsFiniteSet(PastCost')
  BY BillingApiAssumption, FS_Subset DEF PastCost
<1>2. Charging(a)' \subseteq PastCost'
  BY DEF Charging, PastCost, IInv, LockInv, RowOf
<1> QED BY <1>1, <1>2, FS_Subset, FS_CardinalityType

LEMMA PastFinite ==
  /\ IsFiniteSet(PastCost) /\ Cardinality(PastCost) \in Nat
  /\ IsFiniteSet(PastCost') /\ Cardinality(PastCost') \in Nat
<1>1. IsFiniteSet(PastCost) /\ IsFiniteSet(PastCost')
  BY BillingApiAssumption, FS_Subset DEF PastCost
<1> QED BY <1>1, FS_CardinalityType

LEMMA FewerPast ==
  ASSUME OverrunInv, PastCost' \subseteq PastCost
  PROVE  Cardinality(PastCost') <= PoolSize - 1
<1>1. Cardinality(PastCost') <= Cardinality(PastCost)
  BY PastFinite, FS_Subset
<1>2. PoolSize \in Nat
  BY BillingApiAssumption
<1> HIDE DEF PastCost
<1> QED BY <1>1, <1>2, PastFinite DEF OverrunInv

\* The arithmetic of one message more or less.
LEMMA RoomArithmetic ==
  ASSUME NEW x \in Int, NEW y \in Int, NEW k \in Int, NEW c \in Nat,
         NEW p \in Int, NEW q \in Nat, q <= k
  PROVE  /\ x + (k - q) * c \in Int /\ x <= x + (k - q) * c
         /\ p <= q => x + (k - q) * c <= x + (k - p) * c
         /\ x - c <= y /\ p = q - 1 => x + (k - q) * c <= y + (k - p) * c
<1>1. \A n \in Nat : n * c \in Nat
  OBVIOUS
<1>2. k - q \in Nat /\ (k - q) * c \in Nat
  BY <1>1
<1>3. ASSUME p <= q PROVE x + (k - q) * c <= x + (k - p) * c
  <2>1. (q - p) * c \in Nat
    BY <1>1, <1>3
  <2>2. (k - p) * c = (k - q) * c + (q - p) * c
    OBVIOUS
  <2> QED BY <1>2, <2>1, <2>2
<1>4. ASSUME x - c <= y, p = q - 1 PROVE x + (k - q) * c <= y + (k - p) * c
  <2>1. (k - p) * c = (k - q) * c + c
    BY <1>4
  <2> QED BY <1>2, <1>4, <2>1
<1> QED BY <1>2, <1>3, <1>4

\* An account with more is not under the limit either.
LEMMA NotUnderWithMore ==
  ASSUME LevelsGiven, NEW b \in Int, NEW c \in Int, NEW t \in Nat, b <= c,
         ~CutoffReached(mapping, b, t)
  PROVE  ~CutoffReached(mapping, c, t)
BY CutoffMonotone

LEMMA RoomKept ==
  ASSUME IInv, IInv', OutboundOnly, OverrunInv, topup' = topup, NEW a \in Accounts,
         \/ Charging(a)' \subseteq Charging(a) /\ balance[a] <= balance'[a]
         \/ /\ Cardinality(Charging(a)') = Cardinality(Charging(a)) - 1
            /\ balance[a] - MaxCost <= balance'[a]
  PROVE  ~CutoffReached(mapping, Room(a), topup[a])'
<1>1. /\ balance[a] \in Int /\ balance'[a] \in Int /\ topup[a] \in Nat
      /\ MaxCost \in Nat /\ PoolSize - 1 \in Int
  BY MaxCostFact, BillingApiAssumption DEF IInv, TypeOK, OverrunInv, OutboundOnly, NothingLoaded
<1> DEFINE n == Cardinality(Charging(a))
           m == Cardinality(Charging(a)')
<1>2. n \in Nat /\ m \in Nat /\ n <= PoolSize - 1
  BY <1>1, ChargingFact, ChargingNext DEF OverrunInv
<1>3. CASE Charging(a)' \subseteq Charging(a) /\ balance[a] <= balance'[a]
  <2>1. m <= n
    BY <1>3, ChargingFact, FS_Subset
  <2> HIDE DEF n, m
  <2>2. /\ balance[a] + (PoolSize - 1 - n) * MaxCost <= balance[a] + (PoolSize - 1 - m) * MaxCost
        /\ balance[a] + (PoolSize - 1 - n) * MaxCost \in Int
    BY <1>1, <1>2, <2>1, RoomArithmetic
  <2>3. (PoolSize - 1 - m) * MaxCost \in Int
    BY <1>1, <1>2
  <2>4. /\ Room(a) \in Int /\ Room(a)' \in Int /\ Room(a) <= Room(a)'
    BY <1>1, <1>3, <2>2, <2>3 DEF Room, n, m
  <2> QED BY <1>1, <2>4, NotUnderWithMore DEF OverrunInv, OutboundOnly
<1>4. CASE m = n - 1 /\ balance[a] - MaxCost <= balance'[a]
  <2> HIDE DEF n, m
  <2>1. /\ balance[a] + (PoolSize - 1 - n) * MaxCost <= balance'[a] + (PoolSize - 1 - m) * MaxCost
        /\ balance[a] + (PoolSize - 1 - n) * MaxCost \in Int
    BY <1>1, <1>2, <1>4, RoomArithmetic
  <2>2. (PoolSize - 1 - m) * MaxCost \in Int
    BY <1>1, <1>2
  <2>3. /\ Room(a) \in Int /\ Room(a)' \in Int /\ Room(a) <= Room(a)'
    BY <1>1, <2>1, <2>2 DEF Room, n, m
  <2> QED BY <1>1, <2>3, NotUnderWithMore DEF OverrunInv, OutboundOnly
<1> QED BY <1>3, <1>4

\* The steps after which nobody new charges and no balance has changed.
LEMMA NobodyNew ==
  ASSUME IInv, IInv', OutboundOnly, OverrunInv, topup' = topup, balance' = balance,
         PastCost' \subseteq PastCost, \A a \in Accounts : Charging(a)' \subseteq Charging(a)
  PROVE  OverrunInv'
<1>1. Cardinality(PastCost') <= PoolSize - 1
  BY FewerPast
<1>2. ASSUME NEW a \in Accounts PROVE ~CutoffReached(mapping, Room(a), topup[a])'
  <2>1. balance[a] <= balance'[a]
    BY DEF IInv, TypeOK
  <2> QED BY <2>1, RoomKept
<1> QED BY <1>1, <1>2 DEF OverrunInv

LEMMA ChargeOverrun ==
  ASSUME IInv, IInv', PoolInv, OutboundOnly, OverrunInv, NEW r \in Requests, MoneyStep(r)
  PROVE  OverrunInv'
<1>1. /\ topup' = topup /\ topup = OpeningTopup
      /\ \A d \in Requests \ {r} :
           /\ \/ pc'[d] = pc[d]
              \/ pc[d] \in Queued /\ pc'[d] \in {"get_cost", "cost_query", "ping"}
           /\ inserted'[d] = inserted[d]
  BY DEF MoneyStep, Steady, OverrunInv
<1>2. \A d \in Requests \ {r} : d \in PastCost' <=> d \in PastCost
  BY <1>1 DEF PastCost, Queued
<1>3. \A a, d : d \in Requests \ {r} => (d \in Charging(a)' <=> d \in Charging(a))
  BY <1>1 DEF Charging, Queued
<1>4. PastCost' \subseteq Requests /\ \A a : Charging(a)' \subseteq Requests
  BY DEF PastCost, Charging
<1>5. ASSUME balance' = balance, r \in PastCost' => r \in PastCost,
             \A a \in Accounts : r \in Charging(a)' => r \in Charging(a)
      PROVE  OverrunInv'
  <2>1. PastCost' \subseteq PastCost
    BY <1>2, <1>4, <1>5
  <2>2. \A a \in Accounts : Charging(a)' \subseteq Charging(a)
    BY <1>3, <1>4, <1>5
  <2> QED BY <1>1, <1>5, <2>1, <2>2, NobodyNew
<1>6. CASE Ends(r)
  <2>1. r \notin PastCost' /\ \A a : r \notin Charging(a)'
    BY <1>6 DEF Ends, PastCost, Charging
  <2> QED BY <1>5, <1>6, <2>1 DEF Ends
<1>7. CASE Prepares(r)
  <2>1. \A a : r \in Charging(a)' => r \in Charging(a)
    BY <1>7 DEF Prepares, Charging
  <2>2. CASE pc'[r] # "select"
    <3>1. r \notin PastCost'
      BY <1>7, <2>2 DEF Prepares, PastCost
    <3> QED BY <1>5, <1>7, <2>1, <3>1 DEF Prepares
  <2>3. CASE pc'[r] = "select"
    <3>1. pc[r] = "cost_query" /\ balance' = balance
      BY <1>7, <2>3 DEF Prepares
    <3>2. IsFiniteSet(PastCost) /\ Cardinality(PastCost) + 2 <= PoolSize
      BY <3>1, RoomFact
    <3>3. PastCost' \subseteq PastCost \cup {r}
      BY <1>2, <1>4
    <3>4. Cardinality(PastCost') <= PoolSize - 1
      <4>0. r \notin PastCost
        BY <3>1 DEF PastCost
      <4>1. /\ IsFiniteSet(PastCost \cup {r})
            /\ Cardinality(PastCost \cup {r}) = Cardinality(PastCost) + 1
        <5> HIDE DEF PastCost
        <5> QED BY <4>0, PastFinite, FS_AddElement
      <4>2. Cardinality(PastCost') <= Cardinality(PastCost \cup {r})
        BY <3>3, <4>1, FS_Subset
      <4>3. PoolSize \in Nat
        BY BillingApiAssumption
      <4> QED BY <3>2, <4>1, <4>2, <4>3, PastFinite
    <3>5. ASSUME NEW a \in Accounts PROVE ~CutoffReached(mapping, Room(a), topup[a])'
      <4>1. Charging(a)' \subseteq Charging(a)
        BY <1>3, <1>4, <2>1
      <4>2. balance[a] <= balance'[a]
        BY <3>1 DEF IInv, TypeOK
      <4> QED BY <1>1, <4>1, <4>2, RoomKept
    <3> QED BY <1>1, <3>4, <3>5 DEF OverrunInv
  <2> QED BY <2>2, <2>3
<1>8. CASE Selects(r)
  <2>0. r \in PastCost /\ balance' = balance
    BY <1>8 DEF Selects, PastCost
  <2>1. CASE Refused(r)
    <3>1. \A a : r \notin Charging(a)'
      <4>1. ~inserted[r]
        BY <1>8 DEF Selects, IInv, LockInv, RowOf
      <4> QED BY <1>8, <2>1, <4>1 DEF Selects, Charging
    <3> QED BY <1>5, <2>0, <3>1
  <2>2. CASE ~Refused(r)
    <3> DEFINE a == AccountOf[r]
    <3>1. a \in Accounts /\ ~CutoffReached(mapping, balance[a], topup[a])
      BY <1>8, <2>2 DEF Selects, Refused, Cutoff, OutboundOnly
    <3>2. PastCost' \subseteq PastCost
      BY <1>2, <1>4, <2>0
    <3>3. Cardinality(PastCost') <= PoolSize - 1
      BY <3>2, FewerPast
    <3>4. ASSUME NEW b \in Accounts, b # a PROVE ~CutoffReached(mapping, Room(b), topup[b])'
      <4>1. Charging(b)' \subseteq Charging(b)
        <5>1. r \notin Charging(b)'
          BY <3>4 DEF Charging
        <5> QED BY <1>3, <1>4, <5>1
      <4>2. balance[b] <= balance'[b]
        BY <2>0 DEF IInv, TypeOK
      <4> QED BY <1>1, <4>1, <4>2, RoomKept
    <3>5. ~CutoffReached(mapping, Room(a), topup[a])'
      <4> DEFINE n == Cardinality(Charging(a)')
      <4>1. n \in Nat /\ n <= Cardinality(PastCost')
        BY ChargingNext
      <4>2. PoolSize \in Nat /\ MaxCost \in Nat
        BY MaxCostFact, BillingApiAssumption DEF OutboundOnly
      <4>6. \A b \in Accounts : balance[b] \in Int /\ topup[b] \in Nat
        BY <1>1 DEF IInv, TypeOK, OutboundOnly, NothingLoaded
      <4>7. balance[a] \in Int /\ topup[a] \in Nat
        BY <3>1, <4>6
      <4>8. n <= PoolSize - 1 /\ PoolSize - 1 \in Int
        BY <3>3, <4>1, <4>2, PastFinite
      <4> HIDE DEF n, a
      <4>3. /\ balance[a] + (PoolSize - 1 - n) * MaxCost \in Int
            /\ balance[a] <= balance[a] + (PoolSize - 1 - n) * MaxCost
        BY <4>1, <4>2, <4>7, <4>8, RoomArithmetic
      <4>4. Room(a)' = balance[a] + (PoolSize - 1 - n) * MaxCost
        BY <2>0 DEF Room, n
      <4>5. ~CutoffReached(mapping, Room(a)', topup[a])
        BY <3>1, <4>7, <4>3, <4>4, NotUnderWithMore DEF OutboundOnly
      <4> QED BY <1>1, <4>5
    <3> HIDE DEF a
    <3> QED BY <1>1, <3>3, <3>4, <3>5 DEF OverrunInv
  <2> QED BY <2>1, <2>2
<1>9. CASE Inserts(r) \/ Updates(r) \/ Notifies(r)
  <2>1. r \in PastCost /\ balance' = balance
    BY <1>9 DEF Inserts, Updates, Notifies, PastCost
  <2>2. \A a : r \in Charging(a)' => r \in Charging(a)
    BY <1>9 DEF Inserts, Updates, Notifies, Charging
  <2> QED BY <1>5, <2>1, <2>2
<1>10. CASE Commits(r)
  <2>0. r \notin PastCost' /\ \A a : r \notin Charging(a)'
    BY <1>10 DEF Commits, PastCost, Charging
  <2>1. CASE ~inserted[r]
    BY <1>5, <1>10, <2>0, <2>1 DEF Commits
  <2>2. CASE inserted[r]
    <3> DEFINE a == AccountOf[r]
    <3>1. /\ a \in Accounts /\ credit_amount[r] \in CreditCosts \ {NoCost}
          /\ balance' = [balance EXCEPT ![a] = balance[a] - credit_amount[r]]
      BY <1>10, <2>2 DEF Commits
    <3>2. PastCost' \subseteq PastCost
      BY <1>2, <1>4, <2>0
    <3>3. Cardinality(PastCost') <= PoolSize - 1
      BY <3>2, FewerPast
    <3>4. r \in Charging(a)
      BY <2>2 DEF Charging
    <3>5. Charging(a)' = Charging(a) \ {r}
      BY <1>3, <1>4, <2>0 DEF Charging
    <3> HIDE DEF a
    <3>6. \A b \in Accounts : balance[b] \in Int
      BY DEF IInv, TypeOK
    <3>7. DOMAIN balance = Accounts
      BY DEF IInv, TypeOK
    <3>8. ASSUME NEW b \in Accounts, b # a PROVE ~CutoffReached(mapping, Room(b), topup[b])'
      <4>1. Charging(b)' \subseteq Charging(b)
        BY <1>3, <1>4, <2>0
      <4>2. balance[b] <= balance'[b]
        BY <3>1, <3>6, <3>7, <3>8
      <4> QED BY <1>1, <4>1, <4>2, RoomKept
    <3>9. ~CutoffReached(mapping, Room(a), topup[a])'
      <4>1. Cardinality(Charging(a)') = Cardinality(Charging(a)) - 1
        BY <3>4, <3>5, ChargingFact, FS_RemoveElement
      <4>2. balance'[a] = balance[a] - credit_amount[r]
        BY <3>1, <3>7
      <4>3. credit_amount[r] \in Nat /\ credit_amount[r] <= MaxCost /\ MaxCost \in Nat
        BY <3>1, MaxCostFact
      <4>4. balance[a] - MaxCost <= balance'[a]
        BY <3>1, <3>6, <4>2, <4>3
      <4> QED BY <1>1, <3>1, <4>1, <4>4, RoomKept
    <3> QED BY <1>1, <3>3, <3>8, <3>9 DEF OverrunInv
  <2> QED BY <2>1, <2>2
<1>11. CASE Answers(r)
  <2>1. r \notin PastCost' /\ balance' = balance /\ \A a : r \in Charging(a)' => r \in Charging(a)
    BY <1>11 DEF Answers, PastCost, Charging
  <2> QED BY <1>5, <2>1
<1> QED BY <1>6, <1>7, <1>8, <1>9, <1>10, <1>11 DEF MoneyStep

LEMMA OverrunStep ==
  ASSUME OutboundOnly
  PROVE  IInv /\ IInv' /\ PoolInv /\ OverrunInv /\ [Next]_vars => OverrunInv'
<1> SUFFICES ASSUME IInv, IInv', PoolInv, OverrunInv, [Next]_vars PROVE OverrunInv'
  OBVIOUS
<1>0. TypeOK /\ QueueInv /\ Requests \subseteq Callers /\ Requests \cap Probes = {}
  BY BillingApiAssumption DEF IInv, Callers
<1>1. CASE \E r \in Requests : Charge(r)
  BY <1>1, ChargeMoves, ChargeOverrun
<1>2. ASSUME UNCHANGED account,
             \A d \in Requests : \/ pc'[d] = pc[d] /\ inserted'[d] = inserted[d]
                                 \/ /\ pc'[d] \in {"get_cost", "cost_query", "ping"}
                                    /\ inserted'[d] = inserted[d]
                                 \/ pc'[d] = "lost" /\ ~inserted'[d]
      PROVE  OverrunInv'
  <2>1. PastCost' \subseteq PastCost
    BY <1>2 DEF PastCost
  <2>2. \A a : Charging(a)' \subseteq Charging(a)
    BY <1>2 DEF Charging
  <2> QED BY <1>2, <2>1, <2>2, NobodyNew DEF account
<1>3. CASE \E p \in Probes : Health(p)
  <2> PICK p \in Probes : Health(p)
    BY <1>3
  <2>1. Shift(p) /\ UNCHANGED <<local, db>>
    BY <1>0, HealthShift
  <2>2. \A d \in Requests : d \in Callers \ {p}
    BY <1>0
  <2>3. \A d \in Requests : pc'[d] = pc[d] \/ pc'[d] \in {"get_cost", "cost_query", "ping"}
    BY <2>1, <2>2 DEF Shift
  <2> QED BY <1>2, <2>1, <2>3 DEF local, db
<1>4. CASE \E t \in TopUps : Load(t)
  BY <1>4 DEF OutboundOnly, NothingLoaded
<1>5. CASE Crash
  <2>1. \A d \in Requests : pc'[d] = IF pc[d] \in Final \cup {"idle"} THEN pc[d] ELSE "lost"
    BY <1>0, <1>5 DEF Crash
  <2>2. \A d \in Requests : ~inserted'[d]
    BY <1>5 DEF Crash
  <2>3. PastCost' \subseteq PastCost
    BY <2>1 DEF PastCost, Final
  <2>4. \A a : Charging(a)' \subseteq Charging(a)
    BY <2>1, <2>2 DEF Charging, Final
  <2> QED BY <1>5, <2>3, <2>4, NobodyNew DEF Crash, account
<1>6. CASE UNCHANGED vars
  BY <1>2, <1>6 DEF vars, local, db
<1> QED BY <1>1, <1>3, <1>4, <1>5, <1>6 DEF Next, Done

\* A cutoff that is looked at before the charge is overrun by at most the messages
\* that were past the look: fewer than there are connections, for each held one and
\* needed a second to get there.
THEOREM OverrunsAreFew ==
  ASSUME OutboundOnly
  PROVE  Spec => []OverrunBounded
<1>1. Init => OverrunInv
  <2> SUFFICES ASSUME Init PROVE OverrunInv
    OBVIOUS
  <2>1. PastCost = {} /\ \A a : Charging(a) = {}
    BY DEF Init, PastCost, Charging, Callers
  <2>2. Cardinality({}) = 0
    BY FS_EmptySet
  <2>3. topup = OpeningTopup /\ balance = OpeningBalance
    BY DEF Init
  <2>4. 0 <= PoolSize - 1 /\ PoolSize - 1 - 0 = PoolSize - 1
    BY BillingApiAssumption
  <2>5. \A a \in Accounts : Room(a) = OpeningBalance[a] + (PoolSize - 1) * MaxCost
    BY <2>1, <2>2, <2>3, <2>4 DEF Room
  <2> QED BY <2>1, <2>2, <2>3, <2>4, <2>5 DEF OverrunInv, OutboundOnly
<1>2. IInv /\ IInv' /\ PoolInv /\ OverrunInv /\ [Next]_vars => OverrunInv'
  BY OverrunStep
<1>3. IInv /\ OverrunInv => OverrunBounded
  <2> SUFFICES ASSUME IInv, OverrunInv, NEW a \in Accounts
               PROVE  ~CutoffReached(mapping, balance[a] + (PoolSize - 1) * MaxCost, topup[a])
    BY DEF OverrunBounded
  <2> DEFINE n == Cardinality(Charging(a))
  <2>1. /\ balance[a] \in Int /\ MaxCost \in Nat /\ PoolSize - 1 \in Int /\ topup[a] \in Nat
    BY MaxCostFact, BillingApiAssumption DEF IInv, TypeOK, OverrunInv, OutboundOnly, NothingLoaded
  <2>2. n \in Nat /\ n <= PoolSize - 1
    BY <2>1, ChargingFact DEF OverrunInv
  <2> HIDE DEF n
  <2>3. /\ balance[a] + (PoolSize - 1 - n) * MaxCost \in Int
        /\ balance[a] + (PoolSize - 1 - n) * MaxCost <= balance[a] + (PoolSize - 1 - 0) * MaxCost
    BY <2>1, <2>2, RoomArithmetic
  <2>4. PoolSize - 1 - 0 = PoolSize - 1 /\ (PoolSize - 1) * MaxCost \in Int
    BY <2>1
  <2>5. ~CutoffReached(mapping, balance[a] + (PoolSize - 1 - n) * MaxCost, topup[a])
    BY DEF OverrunInv, Room, n
  <2>6. balance[a] + (PoolSize - 1) * MaxCost \in Int
    BY <2>1, <2>4
  <2> QED BY <2>1, <2>3, <2>4, <2>5, <2>6, NotUnderWithMore DEF OutboundOnly
<1>4. Spec => [](IInv /\ PoolInv)
  <2>1. Init => PoolInv
    BY TypeInit, PoolInit DEF PoolInv
  <2>2. PoolInv /\ [Next]_vars => PoolInv'
    BY TypeStep, PoolStep DEF PoolInv
  <2> QED BY <2>1, <2>2, Inductive, PTL DEF Spec
<1> QED BY <1>1, <1>2, <1>3, <1>4, PTL DEF Spec

-----------------------------------------------------------------------------
(* What an account is told as its credit falls *)

\* No top-up, no failure, the notifications are sent, and every account was loaded.
Undisturbed ==
  /\ NothingLoaded /\ ~Faults /\ MaxCrashes = 0
  /\ ENABLE_LOW_CREDIT_NOTIFICATION
  /\ \A a \in Accounts : OpeningTopup[a] # 0

Notices == [level : Int, request : Requests, cutoff_notification : BOOLEAN]
Falling(sent) == \A i, j \in 1..Len(sent) : i < j => sent[i].level > sent[j].level

\* The balance the notifications of a are about: that of the charge which has sent
\* them and is about to commit, else the committed one.
Seen(a) == IF row_lock[a] # NoRequest /\ pc[row_lock[a]] = "commit"
           THEN new_balance[row_lock[a]] ELSE balance[a]

SentInv(a) ==
  /\ Seen(a) \in Int /\ Seen(a) <= OpeningBalance[a]
  /\ notified[a] \in Seq(Notices) /\ Falling(notified[a])
  /\ IF LevelAt(a, Seen(a)) = LevelAt(a, OpeningBalance[a])
     THEN notified[a] = <<>>
     ELSE notified[a] # <<>> /\ notified[a][Len(notified[a])].level = LevelAt(a, Seen(a))

LEMMA AppendFalls ==
  ASSUME NEW sent \in Seq(Notices), Falling(sent), NEW n \in Notices,
         sent # <<>> => n.level < sent[Len(sent)].level
  PROVE  LET more == Append(sent, n)
         IN  /\ more \in Seq(Notices) /\ more # <<>> /\ Falling(more)
             /\ more[Len(more)] = n
<1> DEFINE more == Append(sent, n)
<1>1. /\ more \in Seq(Notices) /\ Len(more) = Len(sent) + 1 /\ Len(sent) \in Nat
      /\ more[Len(more)] = n /\ \A i \in 1..Len(sent) : more[i] = sent[i]
  OBVIOUS
<1>2. \A i \in 1..Len(sent) : sent[i].level \in Int /\ n.level < sent[i].level
  <2> SUFFICES ASSUME NEW i \in 1..Len(sent)
               PROVE  sent[i].level \in Int /\ n.level < sent[i].level
    OBVIOUS
  <2>1. sent # <<>> /\ Len(sent) \in 1..Len(sent)
    OBVIOUS
  <2>2. \A k \in 1..Len(sent) : sent[k] \in Notices
    OBVIOUS
  <2>3. \A x \in Notices : x.level \in Int
    BY DEF Notices
  <2>4. sent[i].level \in Int /\ sent[Len(sent)].level \in Int /\ n.level \in Int
    BY <2>1, <2>2, <2>3
  <2>5. i = Len(sent) \/ sent[i].level > sent[Len(sent)].level
    BY <2>1 DEF Falling
  <2> QED BY <2>1, <2>4, <2>5
<1>3. Falling(more)
  <2> SUFFICES ASSUME NEW i \in 1..Len(more), NEW j \in 1..Len(more), i < j
               PROVE  more[i].level > more[j].level
    BY DEF Falling
  <2> HIDE DEF more
  <2>1. i \in 1..Len(sent) /\ (j \in 1..Len(sent) \/ j = Len(more))
    BY <1>1
  <2>2. CASE j \in 1..Len(sent)
    BY <1>1, <2>1, <2>2 DEF Falling
  <2>3. CASE j = Len(more)
    <3>1. n.level \in Int
      BY DEF Notices
    <3> QED BY <1>1, <1>2, <2>1, <2>3, <3>1
  <2> QED BY <2>1, <2>2, <2>3
<1> QED BY <1>1, <1>3

\* With a lower balance the level is the same or a lower one.
LEMMA LevelAtFact ==
  ASSUME NEW a \in Accounts, NEW x \in Int, NEW y \in Int, x <= y,
         topup[a] \in Nat \ {0}
  PROVE  /\ LevelAt(a, x) \in Int \cup {NoLevel} /\ LevelAt(a, y) \in Int \cup {NoLevel}
         /\ NotAbove(LevelAt(a, x), LevelAt(a, y))
<1> DEFINE p == CeilPercent(x, topup[a])
           q == CeilPercent(y, topup[a])
<1>1. p \in Int /\ q \in Int /\ p <= q
  BY CeilMonotone
<1> HIDE DEF p, q
<1>2. /\ GetNotificationLevel(mapping, p) \in Int \cup {NoLevel}
      /\ GetNotificationLevel(mapping, q) \in Int \cup {NoLevel}
      /\ NotAbove(GetNotificationLevel(mapping, p), GetNotificationLevel(mapping, q))
  BY <1>1, LevelMonotone, BillingApiAssumption, BillingLevelsAssumption DEF mapping
<1> QED BY <1>2 DEF LevelAt, p, q

\* Nothing is sent and the balance the notifications are about stays.
LEMMA SentStays ==
  ASSUME NEW a \in Accounts, SentInv(a), topup' = topup, notified'[a] = notified[a],
         Seen(a)' = Seen(a)
  PROVE  SentInv(a)'
<1>1. LevelAt(a, OpeningBalance[a])' = LevelAt(a, OpeningBalance[a])
      /\ LevelAt(a, Seen(a))' = LevelAt(a, Seen(a))
  BY DEF LevelAt
<1> QED BY <1>1 DEF SentInv

SentAll == notified \in [Accounts -> Seq(Notices)] /\ \A a \in Accounts : SentInv(a)

\* Where the levels before and after a charge differ the new one is sent, and only
\* then: it is lower than the last one sent.
LEMMA NotifySends ==
  ASSUME IInv, Undisturbed, ToldInv, SentAll, NEW r \in Requests, Steady(r), Notifies(r)
  PROVE  SentAll'
<1> DEFINE a == AccountOf[r]
           before == LevelAt(a, balance[a])
           after == LevelAt(a, new_balance[r])
           first == LevelAt(a, OpeningBalance[a])
<1>1. /\ pc[r] = "notify" /\ inserted[r] /\ a \in Accounts /\ row_lock[a] = r
      /\ new_balance[r] = balance[a] - credit_amount[r]
      /\ credit_amount[r] \in CreditCosts \ {NoCost}
  BY DEF Notifies, IInv, LockInv, RowOf, KnownInv
<1>2. /\ balance[a] \in Int /\ new_balance[r] \in Int /\ credit_amount[r] \in Nat
      /\ topup[a] \in Nat \ {0} /\ last_topup_balance[r] = topup[a] /\ r # NoRequest
  BY <1>1, BillingApiAssumption DEF Undisturbed, NothingLoaded, IInv, TypeOK, ToldInv, ToldOf
<1>3. /\ topup' = topup /\ balance' = balance /\ row_lock' = row_lock
      /\ new_balance' = new_balance /\ pc'[r] = "commit"
  BY DEF Steady, Notifies
<1>4. Seen(a) = balance[a] /\ Seen(a)' = new_balance[r]
  BY <1>1, <1>2, <1>3 DEF Seen
<1> HIDE DEF a
<1>5. /\ new_balance[r] <= balance[a] /\ new_balance[r] + credit_amount[r] = balance[a]
  BY <1>1, <1>2
<1>6. ASSUME NEW b \in Accounts \ {a} PROVE SentInv(b)'
  <2>1. notified'[b] = notified[b]
    BY <1>6 DEF Notifies, SentAll, a
  <2>2. ASSUME row_lock[b] # NoRequest
        PROVE  row_lock[b] \in Requests \ {r} /\ pc[row_lock[b]] \in {"notify", "commit"}
    <3>1. row_lock[b] \in Requests
      BY <1>6, <2>2 DEF IInv, TypeOK
    <3>2. pc[row_lock[b]] \in {"notify", "commit"} /\ AccountOf[row_lock[b]] = b
      BY <1>6, <2>2 DEF IInv, LockInv, HolderOf
    <3>3. row_lock[b] # r
      BY <1>6, <3>2 DEF a
    <3> QED BY <3>1, <3>2, <3>3
  <2>3. row_lock[b] # NoRequest => pc'[row_lock[b]] = pc[row_lock[b]]
    BY <2>2 DEF Steady, Queued
  <2>4. Seen(b)' = Seen(b)
    BY <1>3, <2>3 DEF Seen
  <2>5. SentInv(b)
    BY <1>6 DEF SentAll
  <2> QED BY <1>3, <1>6, <2>1, <2>4, <2>5, SentStays
<1>7. /\ balance[a] <= OpeningBalance[a] /\ OpeningBalance[a] \in Int
      /\ notified[a] \in Seq(Notices) /\ Falling(notified[a])
      /\ before = first => notified[a] = <<>>
      /\ before # first => notified[a] # <<>> /\ notified[a][Len(notified[a])].level = before
  BY <1>1, <1>4, BillingApiAssumption DEF SentAll, SentInv
<1>8. Level(r) = IF after # before THEN after ELSE NoLevel
  BY <1>2, <1>5 DEF Level, CheckAllLowCreditThresholds, LevelAt
<1>9. /\ after \in Int \cup {NoLevel} /\ before \in Int \cup {NoLevel}
      /\ first \in Int \cup {NoLevel}
      /\ NotAbove(after, before) /\ NotAbove(before, first)
  BY <1>1, <1>2, <1>5, <1>7, LevelAtFact
<1>10. /\ LevelAt(a, OpeningBalance[a])' = first
       /\ LevelAt(a, Seen(a))' = after
  BY <1>3, <1>4 DEF LevelAt
<1>11. new_balance[r] <= OpeningBalance[a]
  BY <1>2, <1>5, <1>7
<1> HIDE DEF before, after, first
<1>12. CASE after = before
  <2>1. notified' = notified
    BY <1>8, <1>12 DEF Notifies
  <2>2. SentInv(a)'
    BY <1>2, <1>4, <1>7, <1>10, <1>11, <1>12, <2>1 DEF SentInv
  <2> QED BY <1>6, <2>1, <2>2 DEF SentAll
<1>13. CASE after # before
  <2>1. after \in Int /\ (before = NoLevel \/ after < before)
    BY <1>9, <1>13 DEF NotAbove
  <2>2. after # first
    BY <1>9, <2>1, BillingLevelsAssumption DEF NotAbove
  <2>3. Level(r) = after /\ Level(r) # NoLevel
    BY <1>8, <1>13, <2>1, BillingLevelsAssumption
  <2>4. Notice(r) \in Notices /\ Notice(r).level = after
    BY <2>1, <2>3 DEF Notice, Notices
  <2>5. notified' = [notified EXCEPT ![a] = Append(@, Notice(r))]
    BY <2>3 DEF Notifies, Undisturbed, a
  <2>6. notified[a] # <<>> => Notice(r).level < notified[a][Len(notified[a])].level
    <3> SUFFICES ASSUME notified[a] # <<>>
                 PROVE  Notice(r).level < notified[a][Len(notified[a])].level
      OBVIOUS
    <3>1. notified[a][Len(notified[a])].level = before /\ before # first
      BY <1>7
    <3>2. before # NoLevel
      BY <1>9, <3>1 DEF NotAbove
    <3> QED BY <2>1, <2>4, <3>1, <3>2
  <2> DEFINE more == Append(notified[a], Notice(r))
  <2>7. /\ more \in Seq(Notices) /\ more # <<>> /\ Falling(more)
        /\ more[Len(more)].level = after
    BY <1>7, <2>4, <2>6, AppendFalls
  <2> HIDE DEF more
  <2>8. notified'[a] = more /\ notified' \in [Accounts -> Seq(Notices)]
    BY <1>1, <2>5, <2>7 DEF SentAll, more
  <2>9. SentInv(a)'
    BY <1>2, <1>4, <1>10, <1>11, <2>2, <2>7, <2>8 DEF SentInv
  <2> QED BY <1>6, <2>8, <2>9 DEF SentAll
<1> QED BY <1>12, <1>13

\* The other steps move the balance the notifications are about nowhere: the commit
\* makes the charged balance the committed one.
LEMMA ChargeSends ==
  ASSUME IInv, Undisturbed, ToldInv, SentAll, NEW r \in Requests, MoneyStep(r)
  PROVE  SentAll'
<1>1. Steady(r) /\ topup' = topup
  BY DEF MoneyStep, Steady
<1>2. CASE Notifies(r)
  BY <1>1, <1>2, NotifySends
<1>3. ASSUME ~Notifies(r) PROVE SentAll'
  <2>1. notified' = notified
    BY <1>3 DEF MoneyStep, Ends, Prepares, Selects, Inserts, Updates, Commits, Answers
  <2>2. ASSUME NEW a \in Accounts PROVE Seen(a)' = Seen(a)
    <3>1. /\ row_lock[a] \in Requests \cup {NoRequest} /\ r # NoRequest
          /\ balance[a] \in Int /\ DOMAIN balance = Accounts
      BY BillingApiAssumption DEF IInv, TypeOK
    <3>2. row_lock[a] # NoRequest => /\ pc[row_lock[a]] \in {"notify", "commit"}
                                     /\ inserted[row_lock[a]] /\ AccountOf[row_lock[a]] = a
      BY DEF IInv, LockInv, HolderOf
    <3>3. row_lock[a] # NoRequest /\ row_lock[a] # r =>
            /\ pc'[row_lock[a]] = pc[row_lock[a]]
            /\ new_balance'[row_lock[a]] = new_balance[row_lock[a]]
      BY <1>1, <3>1, <3>2 DEF Steady, Queued
    <3>4. inserted[r] /\ pc[r] = "commit" => row_lock[AccountOf[r]] = r
      BY DEF IInv, LockInv, RowOf
    <3>5. CASE Ends(r)
      BY <3>1, <3>2, <3>3, <3>5 DEF Ends, Seen, Undisturbed
    <3>6. CASE Prepares(r) \/ Selects(r) \/ Inserts(r) \/ Answers(r)
      <4>1. row_lock'[a] = row_lock[a] /\ balance'[a] = balance[a]
            /\ pc[r] \notin {"notify", "commit"}
        BY <3>6 DEF Prepares, Selects, Inserts, Answers
      <4>2. row_lock[a] # r
        BY <3>1, <3>2, <4>1
      <4> QED BY <3>3, <4>1, <4>2 DEF Seen
    <3>7. CASE Updates(r)
      BY <3>1, <3>2, <3>3, <3>7 DEF Updates, Seen
    <3>8. CASE Commits(r)
      <4>1. CASE row_lock[a] = r
        <5>1. balance'[a] = new_balance[r] /\ row_lock'[a] = NoRequest
          BY <3>1, <3>2, <3>8, <4>1 DEF Commits
        <5> QED BY <3>1, <3>8, <4>1, <5>1 DEF Seen, Commits
      <4>2. CASE row_lock[a] # r
        <5>1. balance'[a] = balance[a] /\ row_lock'[a] = row_lock[a]
          BY <3>1, <3>4, <3>8, <4>2 DEF Commits
        <5> QED BY <3>3, <4>2, <5>1 DEF Seen
      <4> QED BY <4>1, <4>2
    <3> QED BY <1>3, <3>5, <3>6, <3>7, <3>8 DEF MoneyStep
  <2>3. \A a \in Accounts : SentInv(a)'
    BY <1>1, <2>1, <2>2, SentStays DEF SentAll
  <2> QED BY <2>1, <2>3 DEF SentAll
<1> QED BY <1>2, <1>3

LEMMA SentStep ==
  ASSUME Undisturbed
  PROVE  IInv /\ IInv' /\ ToldInv /\ SentAll /\ [Next]_vars => SentAll'
<1> SUFFICES ASSUME IInv, IInv', ToldInv, SentAll, [Next]_vars PROVE SentAll'
  OBVIOUS
<1>0. TypeOK /\ QueueInv /\ Requests \subseteq Callers /\ Requests \cap Probes = {}
  BY BillingApiAssumption DEF IInv, Callers
<1>1. CASE \E r \in Requests : Charge(r)
  BY <1>1, ChargeMoves, ChargeSends
<1>2. ASSUME UNCHANGED <<local, db, notified>>,
             \A d \in Requests : \/ pc'[d] = pc[d]
                                 \/ pc[d] \in Queued
      PROVE  SentAll'
  <2>1. ASSUME NEW a \in Accounts PROVE SentInv(a)'
    <3>1. ASSUME row_lock[a] # NoRequest
          PROVE  row_lock[a] \in Requests /\ pc[row_lock[a]] \notin Queued
      <4>1. row_lock[a] \in Requests
        BY <1>0, <3>1 DEF TypeOK
      <4>2. pc[row_lock[a]] \in {"notify", "commit"}
        BY <3>1 DEF IInv, LockInv, HolderOf
      <4> QED BY <4>1, <4>2 DEF Queued
    <3>2. Seen(a)' = Seen(a)
      BY <1>2, <3>1 DEF Seen, local, db, account
    <3>3. SentInv(a) /\ topup' = topup /\ notified'[a] = notified[a]
      BY <1>2 DEF SentAll, db, account
    <3> QED BY <3>2, <3>3, SentStays
  <2> QED BY <1>2, <2>1 DEF SentAll
<1>3. CASE \E p \in Probes : Health(p)
  <2> PICK p \in Probes : Health(p)
    BY <1>3
  <2>1. Shift(p) /\ UNCHANGED <<local, db>>
    BY <1>0, HealthShift
  <2>2. \A d \in Requests : d \in Callers \ {p}
    BY <1>0
  <2>3. notified' = notified
    BY DEF Health, HealthCheck, Pong
  <2>4. \A d \in Requests : pc'[d] = pc[d] \/ pc[d] \in Queued
    BY <2>1, <2>2 DEF Shift
  <2> QED BY <1>2, <2>1, <2>3, <2>4
<1>4. CASE \E t \in TopUps : Load(t)
  BY <1>4 DEF Undisturbed, NothingLoaded
<1>5. CASE Crash
  BY <1>0, <1>5 DEF Crash, Undisturbed, TypeOK
<1>6. CASE UNCHANGED vars
  BY <1>2, <1>6 DEF vars
<1> QED BY <1>1, <1>3, <1>4, <1>5, <1>6 DEF Next, Done

\* A customer is told of each level the credit falls to, once, in falling order, and
\* what was last sent is where the account is, whatever charges are under way.
THEOREM NoticesFollowTheBalance ==
  ASSUME Undisturbed
  PROVE  Spec => []NotificationsFollowBalance
<1>0. NothingLoaded
  BY DEF Undisturbed
<1>1. Init => SentAll
  <2> SUFFICES ASSUME Init PROVE SentAll
    OBVIOUS
  <2>1. /\ notified = [a \in Accounts |-> <<>>] /\ balance = OpeningBalance
        /\ \A a \in Accounts : row_lock[a] = NoRequest
    BY DEF Init
  <2>2. \A a \in Accounts : Seen(a) = OpeningBalance[a] /\ OpeningBalance[a] \in Int
    BY <2>1, BillingApiAssumption DEF Seen
  <2>3. <<>> \in Seq(Notices) /\ Falling(<<>>)
    BY DEF Falling
  <2>4. \A x \in Int : x <= x
    OBVIOUS
  <2> QED BY <2>1, <2>2, <2>3, <2>4 DEF SentAll, SentInv
<1>2. IInv /\ IInv' /\ ToldInv /\ SentAll /\ [Next]_vars => SentAll'
  BY SentStep
<1>3. IInv /\ SentAll => NotificationsFollowBalance
  <2> SUFFICES ASSUME IInv, SentAll, NEW a \in Accounts
               PROVE  /\ Falling(notified[a])
                      /\ row_lock[a] = NoRequest =>
                           IF LevelAt(a, balance[a]) = LevelAt(a, OpeningBalance[a])
                           THEN notified[a] = <<>>
                           ELSE /\ notified[a] # <<>>
                                /\ notified[a][Len(notified[a])].level = LevelAt(a, balance[a])
    BY DEF NotificationsFollowBalance, Falling
  <2> QED BY DEF SentAll, SentInv, Seen
<1>4. Spec => [](IInv /\ ToldInv)
  BY <1>0, ToldInductive
<1> QED BY <1>1, <1>2, <1>3, <1>4, PTL DEF Spec
=============================================================================
